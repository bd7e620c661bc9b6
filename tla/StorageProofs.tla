--------------------------- MODULE StorageProofs ---------------------------
(* What a game reads: the disc with the mods laid over it, for any disc and   *)
(* any mods; and the NAND, for any titles, contents and packages.             *)
(*                                                                            *)
(* The disc: whatever is listed, replaced, cut or deleted and however it is   *)
(* read, a path has the file of the mod that outranks the others, the files   *)
(* of the published table are where it says, those that the real disc does    *)
(* not have meet no other file's range, and a read delivers what the file     *)
(* that was asked for has, or fails.                                          *)
(* The NAND: its shared map never names a content that is not there, wherever *)
(* installations are cut short, and what was installed stays complete.        *)
EXTENDS NandStore, DiscIndex, FiniteSetTheorems, SequenceTheorems, TLAPS

-----------------------------------------------------------------------------
(* Sequences and what is computed along them.                              *)

\* A set of naturals with 0 and with the successor of each of its elements.
LEMMA SetInduction ==
  ASSUME NEW S \in SUBSET Nat, 0 \in S, \A n \in S : n + 1 \in S
  PROVE  S = Nat
  <1>. SUFFICES ASSUME NEW n \in Nat, n \notin S PROVE FALSE
    OBVIOUS
  <1>. DEFINE A == (0 .. n) \cap S
              f == [x \in A |-> x + 1]
  <1>1. IsFiniteSet(0 .. n) /\ A \in SUBSET (0 .. n)
    BY FS_Interval
  <1>2. IsFiniteSet(A) /\ 0 \in A
    BY <1>1, FS_Subset
  <1>3. f \in Injection(A, A)
    BY DEF Injection, IsInjective
  <1>4. f \in Surjection(A, A)
    BY <1>2, <1>3, FS_Injection
  <1>5. PICK x \in A : f[x] = 0
    BY <1>2, <1>4 DEF Surjection
  <1>. QED BY <1>5

\* r is what comes of base by N steps, in V.
Follows(r, V, base, N, step) ==
    /\ r[0] = base
    /\ \A i \in 0 .. N : r[i] \in V
    /\ \A i \in 1 .. N : r[i] = step[i][r[i - 1]]

\* What is computed step by step, along a sequence of N elements, is there.
LEMMA Recursion ==
  ASSUME NEW V, NEW base \in V, NEW N \in Nat, NEW step \in [1 .. N -> [V -> V]]
  PROVE  \E r \in [0 .. N -> V] : Follows(r, V, base, N, step)
  <1>. DEFINE Is(r, n) == /\ r \in [0 .. n -> V] /\ r[0] = base
                          /\ \A i \in 1 .. n : i <= N => r[i] = step[i][r[i - 1]]
              S == {n \in Nat : \E r : Is(r, n)}
  <1>1. 0 \in S
    <2>1. Is([i \in 0 .. 0 |-> base], 0)
      OBVIOUS
    <2>. QED BY <2>1
  <1>2. ASSUME NEW n \in S PROVE n + 1 \in S
    <2>1. PICK r : Is(r, n)
      OBVIOUS
    <2>. DEFINE last == IF n + 1 <= N THEN step[n + 1][r[n]] ELSE base
                more == [i \in 0 .. n + 1 |-> IF i = n + 1 THEN last ELSE r[i]]
    <2>2. n \in Nat /\ r[n] \in V
      BY <2>1
    <2>3. last \in V
      BY <2>2
    <2>4. more \in [0 .. n + 1 -> V] /\ more[0] = base
      <3>. HIDE DEF last
      <3>. QED BY <2>1, <2>2, <2>3
    <2>5. ASSUME NEW i \in 1 .. n + 1, i <= N PROVE more[i] = step[i][more[i - 1]]
      <3>1. CASE i = n + 1
        <4>1. i - 1 = n /\ n \in 0 .. n + 1 /\ n # n + 1 /\ i \in 0 .. n + 1
          BY <2>2, <3>1
        <4>2. more[i] = last /\ more[i - 1] = r[n]
          BY <3>1, <4>1
        <4>. QED BY <3>1, <4>2, <2>5
      <3>2. CASE i \in 1 .. n
        <4>1. i \in 0 .. n + 1 /\ i - 1 \in 0 .. n + 1 /\ i # n + 1 /\ i - 1 # n + 1
          BY <2>2, <3>2
        <4>2. more[i] = r[i] /\ more[i - 1] = r[i - 1]
          BY <4>1
        <4>. QED BY <3>2, <4>2, <2>1, <2>5
      <3>. QED BY <2>2, <3>1, <3>2
    <2>6. Is(more, n + 1)
      BY <2>4, <2>5
    <2>. QED
      <3>. HIDE DEF Is, more
      <3>. QED BY <2>2, <2>6
  <1>3. S = Nat
    <2>. HIDE DEF Is
    <2>. QED BY <1>1, <1>2, SetInduction
  <1>4. PICK r : Is(r, N)
    BY <1>3
  <1>. QED BY <1>4 DEF Follows

\* The greatest element, which MaxIn chooses.
LEMMA Greatest ==
  ASSUME NEW S \in SUBSET Nat, S # {}, NEW b \in Nat, \A n \in S : n <= b
  PROVE  MaxIn(S) \in S /\ \A n \in S : n <= MaxIn(S)
  <1>. DEFINE B == {n \in Nat : \E m \in S : n <= m}
  <1>1. PICK m \in S : TRUE
    OBVIOUS
  <1>2. 0 \in B /\ b + 1 \notin B
    <2>1. m \in Nat /\ 0 <= m
      OBVIOUS
    <2>. QED BY <2>1
  <1>3. PICK n \in B : n + 1 \notin B
    <2>1. B \in SUBSET Nat /\ b + 1 \in Nat
      OBVIOUS
    <2>. HIDE DEF B
    <2>. QED BY <1>2, <2>1, SetInduction
  <1>4. n \in Nat /\ \A x \in S : x <= n
    BY <1>3
  <1>5. n \in S
    BY <1>3, <1>4
  <1>. QED BY <1>4, <1>5 DEF MaxIn

\* k[n] is what is kept of the first n.
KeptAlong(k, s, S) ==
    /\ k[0] = << >>
    /\ \A n \in 1 .. Len(s) : k[n] = IF s[n] \in S THEN Append(k[n - 1], s[n]) ELSE k[n - 1]

\* The recursion of Kept.
LEMMA KeptIs ==
  ASSUME NEW T, NEW s \in Seq(T), NEW S
  PROVE  \E k : /\ KeptAlong(k, s, S)
                /\ \A n \in 0 .. Len(s) : k[n] \in Seq(T)
                /\ Kept(s, S) = k[Len(s)]
  <1>. DEFINE N == Len(s)
              Body(k, n) == IF n = 0 THEN << >>
                            ELSE IF s[n] \in S THEN Append(k[n - 1], s[n]) ELSE k[n - 1]
              step == [n \in 1 .. N |-> [x \in Seq(T) |-> IF s[n] \in S THEN Append(x, s[n]) ELSE x]]
              c == CHOOSE f : f = [n \in 0 .. N |-> Body(f, n)]
  <1>1. N \in Nat /\ << >> \in Seq(T) /\ \A n \in 1 .. N : s[n] \in T
    OBVIOUS
  <1>2. step \in [1 .. N -> [Seq(T) -> Seq(T)]]
    BY <1>1
  <1>3. PICK r \in [0 .. N -> Seq(T)] : Follows(r, Seq(T), << >>, N, step)
    <2>. HIDE DEF step, N
    <2>. QED BY <1>1, <1>2, Recursion
  <1>4. /\ r[0] = << >> /\ \A n \in 0 .. N : r[n] \in Seq(T)
        /\ \A n \in 1 .. N : n - 1 \in 0 .. N /\ r[n - 1] \in Seq(T) /\ r[n] = step[n][r[n - 1]]
    <2>1. \A n \in 1 .. N : n - 1 \in 0 .. N
      BY <1>1
    <2>. HIDE DEF step, N
    <2>. QED BY <1>3, <2>1 DEF Follows
  <1>5. \A n \in 1 .. N : r[n] = IF s[n] \in S THEN Append(r[n - 1], s[n]) ELSE r[n - 1]
    BY <1>4
  <1>6. r = [n \in 0 .. N |-> Body(r, n)]
    <2>1. \A n \in 0 .. N : n = 0 \/ n \in 1 .. N
      BY <1>1
    <2>. HIDE DEF N, step
    <2>. QED BY <1>3, <1>4, <1>5, <2>1
  <1>7. c = [n \in 0 .. N |-> Body(c, n)]
    BY <1>6
  <1>8. Kept(s, S) = c[N]
    BY DEF Kept
  <1>9. c[0] = << >> /\ \A n \in 1 .. N : c[n] = IF s[n] \in S THEN Append(c[n - 1], s[n]) ELSE c[n - 1]
    <2>. HIDE DEF c
    <2>1. \A n \in 0 .. N : c[n] = Body(c, n)
      BY <1>7
    <2>2. 0 \in 0 .. N /\ \A n \in 1 .. N : n \in 0 .. N /\ n # 0
      BY <1>1
    <2>. QED BY <2>1, <2>2
  <1>. DEFINE Same == {n \in Nat : n <= N => c[n] = r[n]}
  <1>10. Same = Nat
    <2>. HIDE DEF c
    <2>1. 0 \in Same
      BY <1>4, <1>9
    <2>2. ASSUME NEW n \in Same PROVE n + 1 \in Same
      <3>1. n \in Nat /\ n + 1 \in Nat /\ n + 1 - 1 = n
        OBVIOUS
      <3>2. ASSUME n + 1 <= N PROVE c[n + 1] = r[n + 1]
        <4>1. n + 1 \in 1 .. N /\ n <= N
          BY <1>1, <3>1, <3>2
        <4>2. c[n] = r[n]
          BY <4>1
        <4>. QED BY <1>5, <1>9, <3>1, <4>1, <4>2
      <3>. QED BY <3>1, <3>2
    <2>. QED BY <2>1, <2>2, SetInduction
  <1>11. c[N] = r[N]
    <2>1. N \in Same
      BY <1>1, <1>10
    <2>. HIDE DEF c, N
    <2>. QED BY <1>1, <2>1
  <1>. QED BY <1>4, <1>5, <1>8, <1>11 DEF KeptAlong

\* What Kept keeps.
LEMMA KeptSeq ==
  ASSUME NEW T, NEW s \in Seq(T), NEW S
  PROVE  /\ Kept(s, S) \in Seq(T)
         /\ Range(Kept(s, S)) = Range(s) \cap S
         /\ IsInjective(s) => IsInjective(Kept(s, S))
  <1>0. PICK k : /\ KeptAlong(k, s, S)
                 /\ \A n \in 0 .. Len(s) : k[n] \in Seq(T)
                 /\ Kept(s, S) = k[Len(s)]
    BY KeptIs
  <1>1. /\ k[0] = << >> /\ \A n \in 0 .. Len(s) : k[n] \in Seq(T)
        /\ \A n \in 1 .. Len(s) : k[n] = IF s[n] \in S THEN Append(k[n - 1], s[n]) ELSE k[n - 1]
        /\ Kept(s, S) = k[Len(s)]
    BY <1>0 DEF KeptAlong
  \* What is kept of the first n.
  <1>. DEFINE Good(n) == /\ \A e : e \in Range(k[n]) <=> e \in S /\ \E a \in 1 .. n : e = s[a]
                         /\ IsInjective(s) => IsInjective(k[n])
              N == {n \in Nat : n <= Len(s) => Good(n)}
  <1>2. 0 \in N
    <2>1. k[0] = << >> /\ Range(k[0]) = {} /\ IsInjective(k[0])
      BY <1>1 DEF Range, IsInjective
    <2>. QED BY <2>1
  <1>3. ASSUME NEW n \in N PROVE n + 1 \in N
    <2>. SUFFICES ASSUME n + 1 <= Len(s) PROVE Good(n + 1)
      OBVIOUS
    <2>1. /\ n \in Nat /\ Len(s) \in Nat /\ n + 1 \in 1 .. Len(s) /\ n + 1 - 1 = n
          /\ n \in 0 .. Len(s) /\ k[n] \in Seq(T) /\ s[n + 1] \in T
      BY <1>1
    <2>2. Good(n)
      BY <2>1
    <2>. DEFINE r == k[n]
                e == s[n + 1]
    <2>3. k[n + 1] = IF e \in S THEN Append(r, e) ELSE r
      BY <1>1, <2>1
    <2>4. \A u : (\E a \in 1 .. n + 1 : u = s[a]) <=> (\E a \in 1 .. n : u = s[a]) \/ u = e
      <3>1. \A a : a \in 1 .. n + 1 <=> a \in 1 .. n \/ a = n + 1
        BY <2>1
      <3>. QED BY <3>1
    <2>5. CASE e \notin S
      <3>1. k[n + 1] = r
        BY <2>3, <2>5
      <3>. HIDE DEF r, e
      <3>. QED BY <2>2, <2>4, <2>5, <3>1 DEF r
    <2>6. CASE e \in S
      <3>1. k[n + 1] = Append(r, e)
        BY <2>3, <2>6
      <3>2. /\ Len(Append(r, e)) = Len(r) + 1 /\ Len(r) \in Nat
            /\ \A i \in 1 .. Len(r) : Append(r, e)[i] = r[i]
            /\ Append(r, e)[Len(r) + 1] = e
            /\ DOMAIN Append(r, e) = 1 .. Len(r) + 1 /\ DOMAIN r = 1 .. Len(r)
        BY <2>1
      <3>3. \A i \in 1 .. Len(r) + 1 : i \in 1 .. Len(r) \/ i = Len(r) + 1
        BY <3>2
      <3>4. \A u : u \in Range(Append(r, e)) <=> u \in Range(r) \/ u = e
        <4>1. 1 .. Len(r) \subseteq 1 .. Len(r) + 1 /\ Len(r) + 1 \in 1 .. Len(r) + 1
          BY <3>2
        <4>. HIDE DEF r, e
        <4>. QED BY <3>2, <3>3, <4>1 DEF Range
      <3>5. IsInjective(s) => IsInjective(Append(r, e))
        <4>. SUFFICES ASSUME IsInjective(s) PROVE IsInjective(Append(r, e))
          OBVIOUS
        <4>1. e \notin Range(r)
          <5>1. \A a \in 1 .. n : a \in DOMAIN s /\ n + 1 \in DOMAIN s /\ a # n + 1
            BY <2>1
          <5>2. \A a \in 1 .. n : s[a] # e
            BY <5>1 DEF IsInjective
          <5>. QED BY <2>2, <5>2
        <4>2. IsInjective(r)
          BY <2>2
        <4>3. \A i \in 1 .. Len(r) : r[i] # e
          BY <3>2, <4>1 DEF Range
        <4>. HIDE DEF r, e
        <4>4. ASSUME NEW i \in 1 .. Len(r) + 1, NEW j \in 1 .. Len(r) + 1,
                     Append(r, e)[i] = Append(r, e)[j]
              PROVE  i = j
          <5>1. CASE i \in 1 .. Len(r) /\ j \in 1 .. Len(r)
            BY <3>2, <4>2, <4>4, <5>1 DEF IsInjective
          <5>2. CASE i = Len(r) + 1 /\ j \in 1 .. Len(r)
            BY <3>2, <4>3, <4>4, <5>2
          <5>3. CASE i \in 1 .. Len(r) /\ j = Len(r) + 1
            BY <3>2, <4>3, <4>4, <5>3
          <5>. QED BY <3>3, <5>1, <5>2, <5>3
        <4>. QED BY <3>2, <4>4 DEF IsInjective
      <3>. HIDE DEF r, e
      <3>. QED BY <2>2, <2>4, <2>6, <3>1, <3>4, <3>5 DEF r
    <2>. QED BY <2>5, <2>6
  <1>4. Good(Len(s))
    <2>1. N = Nat
      <3>. HIDE DEF Good
      <3>. QED BY <1>2, <1>3, SetInduction
    <2>2. Len(s) \in Nat /\ Len(s) <= Len(s)
      OBVIOUS
    <2>. HIDE DEF Good
    <2>. QED BY <2>1, <2>2
  <1>5. DOMAIN s = 1 .. Len(s) /\ Len(s) \in 0 .. Len(s)
    OBVIOUS
  <1>6. \A e : e \in Range(s) <=> \E a \in 1 .. Len(s) : e = s[a]
    BY <1>5 DEF Range
  <1>7. Kept(s, S) \in Seq(T)
    BY <1>1, <1>5
  <1>. QED BY <1>1, <1>4, <1>6, <1>7

\* k[n] is the first n of s, joined.
JoinAlong(k, s) == k[0] = << >> /\ \A n \in 1 .. Len(s) : k[n] = k[n - 1] \o s[n]

\* The recursion of FlattenSeq.
LEMMA FlattenIs ==
  ASSUME NEW T, NEW s \in Seq(Seq(T))
  PROVE  \E k : /\ JoinAlong(k, s)
                /\ \A n \in 0 .. Len(s) : k[n] \in Seq(T)
                /\ FlattenSeq(s) = k[Len(s)]
  <1>. DEFINE N == Len(s)
              Body(k, n) == IF n = 1 THEN s[n] ELSE k[n - 1] \o s[n]
              step == [n \in 1 .. N |-> [x \in Seq(T) |-> x \o s[n]]]
              c == CHOOSE f : f = [n \in 1 .. N |-> Body(f, n)]
  <1>1. N \in Nat /\ << >> \in Seq(T) /\ \A n \in 1 .. N : s[n] \in Seq(T)
    OBVIOUS
  <1>2. step \in [1 .. N -> [Seq(T) -> Seq(T)]]
    BY <1>1
  <1>3. PICK r \in [0 .. N -> Seq(T)] : Follows(r, Seq(T), << >>, N, step)
    <2>. HIDE DEF step, N
    <2>. QED BY <1>1, <1>2, Recursion
  <1>4. /\ r[0] = << >> /\ \A n \in 0 .. N : r[n] \in Seq(T)
        /\ \A n \in 1 .. N : n - 1 \in 0 .. N /\ r[n - 1] \in Seq(T) /\ r[n] = step[n][r[n - 1]]
    <2>1. \A n \in 1 .. N : n - 1 \in 0 .. N
      BY <1>1
    <2>. HIDE DEF step, N
    <2>. QED BY <1>3, <2>1 DEF Follows
  <1>5. \A n \in 1 .. N : r[n] = r[n - 1] \o s[n]
    BY <1>4
  <1>6. CASE N = 0
    <2>1. FlattenSeq(s) = s /\ s = << >>
      BY <1>6 DEF FlattenSeq
    <2>. QED BY <1>4, <1>5, <1>6, <2>1 DEF JoinAlong
  <1>7. CASE N # 0
    <2>. DEFINE f == [n \in 1 .. N |-> r[n]]
    <2>1. f = [n \in 1 .. N |-> Body(f, n)]
      <3>1. ASSUME NEW n \in 1 .. N PROVE f[n] = Body(f, n)
        <4>1. CASE n = 1
          <5>1. r[1] = << >> \o s[1] /\ s[1] \in Seq(T)
            <6>1. 1 \in 1 .. N /\ 1 - 1 = 0
              BY <1>1, <4>1
            <6>. HIDE DEF N
            <6>. QED BY <1>1, <1>4, <1>5, <6>1
          <5>. QED BY <4>1, <5>1
        <4>2. CASE n # 1
          <5>1. n - 1 \in 1 .. N
            BY <1>1, <4>2
          <5>. QED BY <1>5, <4>2, <5>1
        <4>. QED BY <4>1, <4>2
      <3>. HIDE DEF N
      <3>. QED BY <3>1
    <2>2. c = [n \in 1 .. N |-> Body(c, n)]
      <3>. HIDE DEF f, N
      <3>. QED BY <2>1
    <2>3. FlattenSeq(s) = c[N]
      BY <1>7 DEF FlattenSeq
    <2>4. \A n \in 1 .. N : c[n] = IF n = 1 THEN s[n] ELSE c[n - 1] \o s[n]
      <3>. HIDE DEF c, N
      <3>. QED BY <2>2
    <2>. DEFINE Same == {n \in Nat : n + 1 <= N => c[n + 1] = r[n + 1]}
    <2>5. Same = Nat
      <3>. HIDE DEF c
      <3>1. 0 \in Same
        <4>1. 1 \in 1 .. N /\ 0 + 1 = 1 /\ 1 - 1 = 0
          BY <1>1, <1>7
        <4>2. c[1] = s[1]
          BY <2>4, <4>1
        <4>3. r[1] = << >> \o s[1] /\ s[1] \in Seq(T)
          BY <1>1, <1>4, <1>5, <4>1
        <4>4. r[1] = s[1]
          BY <4>3
        <4>. QED BY <4>1, <4>2, <4>4
      <3>2. ASSUME NEW n \in Same PROVE n + 1 \in Same
        <4>1. n \in Nat /\ n + 1 \in Nat /\ n + 1 + 1 - 1 = n + 1 /\ n + 1 + 1 # 1
          OBVIOUS
        <4>2. ASSUME n + 1 + 1 <= N PROVE c[n + 1 + 1] = r[n + 1 + 1]
          <5>1. n + 1 + 1 \in 1 .. N /\ n + 1 <= N
            BY <1>1, <4>1, <4>2
          <5>2. c[n + 1] = r[n + 1]
            BY <5>1
          <5>. DEFINE x == n + 1 + 1
          <5>3. x \in 1 .. N /\ x - 1 = n + 1 /\ x # 1
            BY <4>1, <5>1
          <5>. HIDE DEF x, N
          <5>4. c[x] = c[x - 1] \o s[x]
            BY <2>4, <5>3
          <5>5. r[x] = r[x - 1] \o s[x]
            BY <1>5, <5>3
          <5>6. c[x - 1] = r[x - 1]
            BY <5>2, <5>3
          <5>. QED BY <5>4, <5>5, <5>6 DEF x
        <4>. QED BY <4>1, <4>2
      <3>. QED BY <3>1, <3>2, SetInduction
    <2>6. c[N] = r[N]
      <3>1. N - 1 \in Same /\ N - 1 + 1 = N
        <4>1. N - 1 \in Nat /\ N - 1 + 1 = N
          BY <1>1, <1>7
        <4>. HIDE DEF Same
        <4>. QED BY <2>5, <4>1
      <3>. HIDE DEF c, N
      <3>. QED BY <1>1, <3>1
    <2>. QED BY <1>4, <1>5, <2>3, <2>6 DEF JoinAlong
  <1>. QED BY <1>6, <1>7

\* A sequence whose elements stand in the order R.
Ordered(s, R) == \A i, j \in DOMAIN s : i < j => <<s[i], s[j]>> \in R

LEMMA JoinOrdered ==
  ASSUME NEW T, NEW s \in Seq(T), NEW t \in Seq(T), NEW R, Ordered(s, R), Ordered(t, R),
         \A x \in Range(s), y \in Range(t) : <<x, y>> \in R
  PROVE  Ordered(s \o t, R)
  <1>1. /\ Len(s) \in Nat /\ Len(t) \in Nat
        /\ DOMAIN (s \o t) = 1 .. Len(s) + Len(t)
        /\ DOMAIN s = 1 .. Len(s) /\ DOMAIN t = 1 .. Len(t)
    BY ConcatProperties
  <1>2. ASSUME NEW i \in DOMAIN (s \o t)
        PROVE  \/ i \in 1 .. Len(s) /\ (s \o t)[i] = s[i] /\ s[i] \in Range(s)
               \/ /\ i - Len(s) \in 1 .. Len(t) /\ (s \o t)[i] = t[i - Len(s)]
                  /\ t[i - Len(s)] \in Range(t)
    <2>1. CASE i <= Len(s)
      <3>1. i \in 1 .. Len(s)
        BY <1>1, <2>1
      <3>. QED BY <1>1, <3>1, ConcatProperties DEF Range
    <2>2. CASE i > Len(s)
      <3>1. i - Len(s) \in 1 .. Len(t)
        BY <1>1, <2>2
      <3>2. (s \o t)[i] = t[i - Len(s)]
        BY <1>1, <2>2, ConcatProperties
      <3>. QED BY <1>1, <3>1, <3>2 DEF Range
    <2>. QED BY <1>1, <2>1, <2>2
  <1>. SUFFICES ASSUME NEW i \in DOMAIN (s \o t), NEW j \in DOMAIN (s \o t), i < j
                PROVE  <<(s \o t)[i], (s \o t)[j]>> \in R
    BY DEF Ordered
  <1>3. CASE i \in 1 .. Len(s) /\ j \in 1 .. Len(s)
    <2>1. (s \o t)[i] = s[i] /\ (s \o t)[j] = s[j]
      <3>1. ~(i - Len(s) \in 1 .. Len(t)) /\ ~(j - Len(s) \in 1 .. Len(t))
        BY <1>1, <1>3
      <3>. QED BY <1>2, <3>1
    <2>. QED BY <1>1, <1>3, <2>1 DEF Ordered
  <1>4. CASE i \in 1 .. Len(s) /\ j \notin 1 .. Len(s)
    <2>1. (s \o t)[i] \in Range(s)
      <3>1. ~(i - Len(s) \in 1 .. Len(t))
        BY <1>1, <1>4
      <3>. QED BY <1>2, <3>1
    <2>2. (s \o t)[j] \in Range(t)
      BY <1>2, <1>4
    <2>. QED BY <2>1, <2>2
  <1>5. CASE i \notin 1 .. Len(s)
    <2>1. i \in 1 .. Len(s) + Len(t) /\ j \in 1 .. Len(s) + Len(t) /\ j \notin 1 .. Len(s)
      BY <1>1, <1>5
    <2>2. /\ (s \o t)[i] = t[i - Len(s)] /\ (s \o t)[j] = t[j - Len(s)]
          /\ i - Len(s) \in DOMAIN t /\ j - Len(s) \in DOMAIN t
      BY <1>1, <1>2, <1>5, <2>1
    <2>3. i - Len(s) < j - Len(s)
      BY <1>1, <2>1
    <2>. QED BY <2>2, <2>3 DEF Ordered
  <1>. QED BY <1>3, <1>4, <1>5

\* What FlattenSeq joins.
LEMMA FlattenedSeq ==
  ASSUME NEW T, NEW s \in Seq(Seq(T)), NEW R
  PROVE  /\ FlattenSeq(s) \in Seq(T)
         /\ \A e : e \in Range(FlattenSeq(s)) <=> \E n \in 1 .. Len(s) : e \in Range(s[n])
         /\ /\ \A n \in 1 .. Len(s) : Ordered(s[n], R)
            /\ \A m, n \in 1 .. Len(s) :
                    m < n => \A x \in Range(s[m]), y \in Range(s[n]) : <<x, y>> \in R
            => Ordered(FlattenSeq(s), R)
  <1>0. PICK k : /\ JoinAlong(k, s)
                 /\ \A n \in 0 .. Len(s) : k[n] \in Seq(T)
                 /\ FlattenSeq(s) = k[Len(s)]
    BY FlattenIs
  <1>1. /\ k[0] = << >> /\ \A n \in 0 .. Len(s) : k[n] \in Seq(T)
        /\ \A n \in 1 .. Len(s) : k[n] = k[n - 1] \o s[n]
        /\ FlattenSeq(s) = k[Len(s)]
    BY <1>0 DEF JoinAlong
  <1>. DEFINE In == /\ \A n \in 1 .. Len(s) : Ordered(s[n], R)
                    /\ \A m, n \in 1 .. Len(s) :
                        m < n => \A x \in Range(s[m]), y \in Range(s[n]) : <<x, y>> \in R
              Good(n) == /\ \A e : e \in Range(k[n]) <=> \E a \in 1 .. n : e \in Range(s[a])
                         /\ In => Ordered(k[n], R)
              N == {n \in Nat : n <= Len(s) => Good(n)}
  <1>2. 0 \in N
    <2>1. k[0] = << >> /\ Range(k[0]) = {} /\ Ordered(k[0], R)
      BY <1>1 DEF Range, Ordered
    <2>. QED BY <2>1
  <1>3. ASSUME NEW n \in N PROVE n + 1 \in N
    <2>0. n \in Nat /\ (n <= Len(s) => Good(n)) /\ Len(s) \in Nat
      <3>. HIDE DEF Good
      <3>. QED OBVIOUS
    <2>. SUFFICES ASSUME n + 1 <= Len(s) PROVE Good(n + 1)
      <3>. HIDE DEF Good
      <3>. QED BY <2>0
    <2>1. /\ n + 1 \in 1 .. Len(s) /\ n + 1 - 1 = n /\ n \in 0 .. Len(s) /\ n <= Len(s)
          /\ k[n] \in Seq(T) /\ s[n + 1] \in Seq(T)
      <3>1. /\ n + 1 \in 1 .. Len(s) /\ n + 1 - 1 = n /\ n \in 0 .. Len(s) /\ n <= Len(s)
        BY <2>0
      <3>2. k[n] \in Seq(T)
        BY <1>1, <3>1
      <3>3. s[n + 1] \in Seq(T)
        BY <3>1
      <3>. QED BY <3>1, <3>2, <3>3
    <2>2. Good(n)
      <3>. HIDE DEF Good
      <3>. QED BY <2>0, <2>1
    <2>. DEFINE r == k[n]
                e == s[n + 1]
    <2>3. k[n + 1] = r \o e
      <3>1. \A m \in 1 .. Len(s) : k[m] = k[m - 1] \o s[m]
        BY <1>1
      <3>. DEFINE m == n + 1
      <3>2. m \in 1 .. Len(s) /\ m - 1 = n
        BY <2>1
      <3>. HIDE DEF m, Good, In, N
      <3>3. k[m] = k[m - 1] \o s[m]
        BY ONLY <3>1, <3>2
      <3>. QED BY <3>2, <3>3 DEF m
    <2>4. \A a : a \in 1 .. n + 1 <=> a \in 1 .. n \/ a = n + 1
      <3>. HIDE DEF Good, In, N, r, e
      <3>. QED BY <2>0
    <2>5. Range(r \o e) = Range(r) \cup Range(e)
      BY <2>1, RangeConcatenation
    <2>6. \A u : u \in Range(k[n + 1]) <=> \E a \in 1 .. n + 1 : u \in Range(s[a])
      <3>. HIDE DEF r
      <3>. QED BY <2>2, <2>3, <2>4, <2>5 DEF r
    <2>7. ASSUME In PROVE Ordered(k[n + 1], R)
      <3>1. Ordered(r, R) /\ Ordered(e, R)
        BY <2>1, <2>2, <2>7
      <3>2. ASSUME NEW x \in Range(r), NEW y \in Range(e) PROVE <<x, y>> \in R
        <4>1. PICK a \in 1 .. n : x \in Range(s[a])
          BY <2>2
        <4>2. a \in 1 .. Len(s) /\ a < n + 1
          BY <2>0, <2>1
        <4>. QED BY <2>1, <2>7, <4>1, <4>2
      <3>. HIDE DEF r, e
      <3>3. r \in Seq(T) /\ e \in Seq(T)
        BY <2>1 DEF r, e
      <3>. QED BY <2>3, <3>1, <3>2, <3>3, JoinOrdered
    <2>. QED BY <2>6, <2>7
  <1>4. Good(Len(s))
    <2>1. N = Nat
      <3>. HIDE DEF Good
      <3>. QED BY <1>2, <1>3, SetInduction
    <2>2. Len(s) \in Nat /\ Len(s) <= Len(s)
      OBVIOUS
    <2>. HIDE DEF Good
    <2>. QED BY <2>1, <2>2
  <1>5. Len(s) \in 0 .. Len(s)
    OBVIOUS
  <1>. QED BY <1>1, <1>4, <1>5

\* k[n] is the options after the first n choices.
ChosenAlong(k, options, choices, taken) ==
    /\ k[0] = options
    /\ \A n \in 1 .. Len(choices) :
        k[n] = [i \in DOMAIN options |-> IF <<n, i>> \in taken
                                         THEN [k[n - 1][i] EXCEPT !.selected = choices[n].choice]
                                         ELSE k[n - 1][i]]

\* The recursion of Chosen.
LEMMA ChosenIs ==
  ASSUME NEW options \in Seq(OptionType), NEW choices \in Seq(ChoiceType), NEW taken
  PROVE  \E k : /\ ChosenAlong(k, options, choices, taken)
                /\ Chosen(options, choices, taken) = k[Len(choices)]
  <1>. DEFINE N == Len(choices)
              Ix == DOMAIN options
              V == [Ix -> OptionType]
              Made(x, n) == [i \in Ix |-> IF <<n, i>> \in taken
                                         THEN [x[i] EXCEPT !.selected = choices[n].choice] ELSE x[i]]
              Body(k, n) == IF n = 0 THEN options ELSE Made(k[n - 1], n)
              step == [n \in 1 .. N |-> [x \in V |-> Made(x, n)]]
              c == CHOOSE f : f = [n \in 0 .. N |-> Body(f, n)]
  <1>1. N \in Nat /\ options \in V /\ \A n \in 1 .. N : choices[n] \in ChoiceType
    OBVIOUS
  <1>2. step \in [1 .. N -> [V -> V]]
    <2>1. ASSUME NEW n \in 1 .. N, NEW x \in V PROVE Made(x, n) \in V
      <3>1. choices[n].choice \in Nat
        BY <1>1 DEF ChoiceType
      <3>2. ASSUME NEW i \in Ix, NEW a \in Nat PROVE [x[i] EXCEPT !.selected = a] \in OptionType
        <4>1. x[i] \in OptionType
          OBVIOUS
        <4>. QED BY <4>1 DEF OptionType
      <3>. HIDE DEF Ix, N
      <3>. QED BY <3>1, <3>2
    <2>. HIDE DEF Made, V, N
    <2>. QED BY <2>1
  <1>3. PICK r \in [0 .. N -> V] : Follows(r, V, options, N, step)
    <2>. HIDE DEF step, N, V
    <2>. QED BY <1>1, <1>2, Recursion
  <1>4. /\ r[0] = options
        /\ \A n \in 1 .. N : n - 1 \in 0 .. N /\ r[n - 1] \in V /\ r[n] = step[n][r[n - 1]]
    <2>1. \A n \in 1 .. N : n - 1 \in 0 .. N
      BY <1>1
    <2>. HIDE DEF step, N, V
    <2>. QED BY <1>3, <2>1 DEF Follows
  <1>5. \A n \in 1 .. N : r[n] = Made(r[n - 1], n)
    <2>. HIDE DEF Made, V, N
    <2>. QED BY <1>4
  <1>6. r = [n \in 0 .. N |-> Body(r, n)]
    <2>1. \A n \in 0 .. N : n = 0 \/ n \in 1 .. N
      BY <1>1
    <2>2. \A n \in 0 .. N : r[n] = Body(r, n)
      <3>. HIDE DEF N, step, V, Made
      <3>. QED BY <1>4, <1>5, <2>1
    <2>. HIDE DEF N, step, V, Body
    <2>. QED BY <1>3, <2>2
  <1>7. c = [n \in 0 .. N |-> Body(c, n)]
    <2>. HIDE DEF N, Body
    <2>. QED BY <1>6
  <1>8. Chosen(options, choices, taken) = c[N]
    BY DEF Chosen
  <1>9. c[0] = options /\ \A n \in 1 .. N : c[n] = Made(c[n - 1], n)
    <2>. HIDE DEF c
    <2>1. \A n \in 0 .. N : c[n] = Body(c, n)
      <3>. HIDE DEF Body
      <3>. QED BY <1>7
    <2>2. 0 \in 0 .. N /\ \A n \in 1 .. N : n \in 0 .. N /\ n # 0
      BY <1>1
    <2>. HIDE DEF Made, N
    <2>. QED BY <2>1, <2>2
  <1>10. ChosenAlong(c, options, choices, taken)
    <2>. HIDE DEF c
    <2>. QED BY <1>9 DEF ChosenAlong
  <1>. HIDE DEF c
  <1>. QED BY <1>8, <1>10

\* An option after the choices: what it was, but selected as the last of the choices that it
\* takes says.
Selected(option, was, choices, takes) ==
    /\ option.id = was.id
    /\ option.choices = was.choices
    /\ \/ takes = {} /\ option.selected = was.selected
       \/ \E m \in takes : (\A n \in takes : n <= m) /\ option.selected = choices[m].choice

\* What Chosen chooses.
LEMMA ChosenSeq ==
  ASSUME NEW options \in Seq(OptionType), NEW choices \in Seq(ChoiceType), NEW taken
  PROVE  LET r == Chosen(options, choices, taken)
         IN  /\ r \in Seq(OptionType) /\ DOMAIN r = DOMAIN options
             /\ \A i \in DOMAIN options :
                    Selected(r[i], options[i], choices, {n \in DOMAIN choices : <<n, i>> \in taken})
  <1>1. PICK k : /\ ChosenAlong(k, options, choices, taken)
                 /\ Chosen(options, choices, taken) = k[Len(choices)]
    BY ChosenIs
  <1>. DEFINE L == Len(choices)
              Ix == DOMAIN options
              Takes(n, i) == {m \in 1 .. n : <<m, i>> \in taken}
              Good(n) == /\ k[n] \in [Ix -> OptionType]
                         /\ \A i \in Ix : Selected(k[n][i], options[i], choices, Takes(n, i))
              N == {n \in Nat : n <= L => Good(n)}
  <1>2. L \in Nat /\ \A n \in 1 .. L : choices[n].choice \in Nat
    <2>1. \A n \in 1 .. L : choices[n] \in ChoiceType
      OBVIOUS
    <2>. QED BY <2>1 DEF ChoiceType
  <1>3. 0 \in N
    <2>1. k[0] = options /\ \A i \in Ix : Takes(0, i) = {}
      BY <1>1 DEF ChosenAlong
    <2>2. k[0] \in [Ix -> OptionType]
      BY <2>1
    <2>3. \A i \in Ix : Selected(k[0][i], options[i], choices, Takes(0, i))
      <3>. HIDE DEF Takes, Ix
      <3>. QED BY <2>1 DEF Selected
    <2>. HIDE DEF Takes, Ix
    <2>. QED BY <2>2, <2>3
  <1>4. ASSUME NEW n \in N PROVE n + 1 \in N
    <2>0. n \in Nat /\ (n <= L => Good(n))
      <3>. HIDE DEF Good
      <3>. QED OBVIOUS
    <2>. SUFFICES ASSUME n + 1 <= L PROVE Good(n + 1)
      <3>. HIDE DEF Good
      <3>. QED BY <2>0
    <2>. DEFINE m == n + 1
    <2>1. m \in 1 .. L /\ m - 1 = n /\ n <= L
      BY <1>2, <2>0
    <2>2. Good(n)
      <3>. HIDE DEF Good
      <3>. QED BY <2>0, <2>1
    <2>3. \A i \in Ix : k[m][i] = IF <<m, i>> \in taken
                                 THEN [k[n][i] EXCEPT !.selected = choices[m].choice] ELSE k[n][i]
      <3>. HIDE DEF m, L, Good, N
      <3>. QED BY <1>1, <2>1 DEF ChosenAlong, L
    <2>4. k[m] \in [Ix -> OptionType]
      <3>1. DOMAIN k[m] = Ix /\ k[m] = [i \in Ix |-> k[m][i]]
        <4>. HIDE DEF m, L, Good, N
        <4>. QED BY <1>1, <2>1 DEF ChosenAlong, L
      <3>2. ASSUME NEW i \in Ix PROVE k[m][i] \in OptionType
        <4>1. k[n][i] \in OptionType /\ choices[m].choice \in Nat
          <5>. HIDE DEF m, L, Ix, N, Takes
          <5>. QED BY <1>2, <2>1, <2>2
        <4>2. [k[n][i] EXCEPT !.selected = choices[m].choice] \in OptionType
          <5>. HIDE DEF m
          <5>. QED BY <4>1 DEF OptionType
        <4>. HIDE DEF m, Good, N
        <4>. QED BY <2>3, <4>1, <4>2
      <3>. HIDE DEF m, Ix, Good, N
      <3>. QED BY <3>1, <3>2
    <2>5. ASSUME NEW i \in Ix PROVE Selected(k[m][i], options[i], choices, Takes(m, i))
      <3>1. Selected(k[n][i], options[i], choices, Takes(n, i)) /\ k[n][i] \in OptionType
        <4>. HIDE DEF Ix, Takes
        <4>. QED BY <2>2
      <3>2. \A a : a \in Takes(m, i) <=> a \in Takes(n, i) \/ (a = m /\ <<m, i>> \in taken)
        <4>1. \A a : a \in 1 .. m <=> a \in 1 .. n \/ a = m
          <5>. HIDE DEF Good, N
          <5>. QED BY <2>0, <2>1
        <4>. HIDE DEF m, Good, N
        <4>. QED BY <4>1
      <3>3. \A a \in Takes(n, i) : a <= m
        BY <2>0
      <3>. HIDE DEF Takes, Good, N
      <3>4. CASE <<m, i>> \notin taken
        <4>1. Takes(m, i) = Takes(n, i)
          BY <3>2, <3>4
        <4>. QED BY <2>3, <3>1, <3>4, <4>1
      <3>5. CASE <<m, i>> \in taken
        <4>1. k[m][i] = [k[n][i] EXCEPT !.selected = choices[m].choice]
          BY <2>3, <3>5
        <4>2. /\ k[m][i].id = k[n][i].id /\ k[m][i].choices = k[n][i].choices
              /\ k[m][i].selected = choices[m].choice
          <5>. HIDE DEF m
          <5>. QED BY <3>1, <4>1 DEF OptionType
        <4>3. m \in Takes(m, i) /\ m <= m /\ \A a \in Takes(m, i) : a <= m
          BY <2>1, <3>2, <3>3, <3>5
        <4>. HIDE DEF m
        <4>. QED BY <3>1, <4>2, <4>3 DEF Selected
      <3>. QED BY <3>4, <3>5
    <2>. HIDE DEF Takes, Ix, N, L
    <2>. QED BY <2>4, <2>5
  <1>5. Good(L)
    <2>1. N = Nat
      <3>. HIDE DEF Good
      <3>. QED BY <1>3, <1>4, SetInduction
    <2>2. L <= L
      BY <1>2
    <2>. HIDE DEF Good, L
    <2>. QED BY <1>2, <2>1, <2>2
  <1>6. Chosen(options, choices, taken) = k[L] /\ DOMAIN choices = 1 .. L
    BY <1>1
  <1>7. Chosen(options, choices, taken) \in Seq(OptionType)
    <2>1. k[L] \in [1 .. Len(options) -> OptionType] /\ Len(options) \in Nat
      BY <1>5
    <2>. HIDE DEF L
    <2>. QED BY <1>6, <2>1
  <1>. HIDE DEF L
  <1>. QED BY <1>5, <1>6, <1>7

LEMMA Smallest ==
  ASSUME NEW S \in SUBSET Nat, S # {}
  PROVE  Min(S) \in S /\ \A n \in S : Min(S) <= n
  <1>. DEFINE B == {n \in Nat : \A m \in S : n <= m}
  <1>1. PICK m \in S : TRUE
    OBVIOUS
  <1>2. 0 \in B /\ m + 1 \notin B
    OBVIOUS
  <1>3. PICK n \in B : n + 1 \notin B
    <2>1. B \in SUBSET Nat /\ m + 1 \in Nat
      OBVIOUS
    <2>. HIDE DEF B
    <2>. QED BY <1>2, <2>1, SetInduction
  <1>4. n \in Nat /\ \A x \in S : n <= x
    BY <1>3
  <1>5. n \in S
    BY <1>3, <1>4
  <1>. QED BY <1>4, <1>5 DEF Min

LEMMA PatchNamedSeq ==
  ASSUME NEW xml \in XmlType, NEW id
  PROVE  /\ PatchNamed(xml, id) \in Seq(PatchType)
         /\ \A e \in Range(PatchNamed(xml, id)) : e \in Range(xml.patches) /\ e.id = id
         /\ (\E p \in Range(xml.patches) : p.id = id) => Range(PatchNamed(xml, id)) # {}
  <1>. DEFINE s == xml.patches
              I == {i \in 1 .. Len(s) : s[i].id = id}
  <1>1. s \in Seq(PatchType)
    BY DEF XmlType
  <1>2. SelectInSeq(s, LAMBDA p : p.id = id) = IF I # {} THEN Min(I) ELSE 0
    BY DEF SelectInSeq
  <1>. HIDE DEF s
  <1>3. CASE I = {}
    <2>1. PatchNamed(xml, id) = << >>
      BY <1>2, <1>3 DEF PatchNamed, s
    <2>2. \A p \in Range(s) : p.id # id
      BY <1>1, <1>3 DEF Range
    <2>3. Range(PatchNamed(xml, id)) = {}
      BY <2>1 DEF Range
    <2>. HIDE DEF I
    <2>. QED BY <2>1, <2>2, <2>3 DEF s
  <1>4. CASE I # {}
    <2>1. Min(I) \in I
      BY <1>1, <1>4, Smallest
    <2>2. Min(I) \in 1 .. Len(s) /\ Min(I) # 0 /\ s[Min(I)].id = id /\ s[Min(I)] \in PatchType
          /\ s[Min(I)] \in Range(s)
      <3>1. Min(I) \in 1 .. Len(s) /\ s[Min(I)].id = id
        BY <2>1
      <3>. HIDE DEF I
      <3>. QED BY <1>1, <3>1 DEF Range
    <2>3. PatchNamed(xml, id) = <<s[Min(I)]>>
      <3>. HIDE DEF I
      <3>. QED BY <1>2, <1>4, <2>2 DEF PatchNamed, s
    <2>. DEFINE e == s[Min(I)]
    <2>4. Range(<<e>>) = {e} /\ <<e>> \in Seq(PatchType)
      <3>. HIDE DEF I, e
      <3>. QED BY <2>2 DEF Range, e
    <2>. HIDE DEF I
    <2>5. e \in Range(s) /\ e.id = id
      BY <2>2
    <2>6. PatchNamed(xml, id) = <<e>>
      BY <2>3
    <2>. HIDE DEF e
    <2>. QED BY <2>4, <2>5, <2>6 DEF s
  <1>. QED BY <1>3, <1>4

LEMMA OptionsSeq ==
  ASSUME NEW xml \in XmlType, NEW pack \in PackType
  PROVE  Options(xml, pack) \in Seq(OptionType)
  <1>1. xml.options \in Seq(OptionType) /\ pack.config \in Seq(ChoiceType)
        /\ pack.pins \in Seq(ChoiceType)
    BY DEF XmlType, PackType
  <1>2. ApplyConfigDefaults(xml.options, pack.config) \in Seq(OptionType)
    BY <1>1, ChosenSeq DEF ApplyConfigDefaults
  <1>. QED BY <1>1, <1>2, ChosenSeq DEF ApplySelections, Options

\* The patches that an option stands for.
OfOption(xml, option) ==
    IF option.selected \in 1 .. Len(option.choices)
    THEN FlattenSeq([i \in DOMAIN option.choices[option.selected] |->
                        PatchNamed(xml, option.choices[option.selected][i])])
    ELSE << >>

LEMMA OfOptionSeq ==
  ASSUME NEW xml \in XmlType, NEW option \in OptionType
  PROVE  /\ OfOption(xml, option) \in Seq(PatchType)
         /\ \A e : e \in Range(OfOption(xml, option)) <=>
                /\ option.selected \in 1 .. Len(option.choices)
                /\ \E id \in Range(option.choices[option.selected]) : e \in Range(PatchNamed(xml, id))
  <1>. DEFINE c == option.choices[option.selected]
              s == [i \in DOMAIN c |-> PatchNamed(xml, c[i])]
  <1>1. option.choices \in Seq(Seq(STRING))
    BY DEF OptionType
  <1>2. CASE option.selected \in 1 .. Len(option.choices)
    <2>1. c \in Seq(STRING)
      BY <1>1, <1>2
    <2>. HIDE DEF c
    <2>2. s \in Seq(Seq(PatchType)) /\ Len(s) = Len(c) /\ \A i \in 1 .. Len(c) : s[i] = PatchNamed(xml, c[i])
      <3>1. DOMAIN c = 1 .. Len(c) /\ Len(c) \in Nat
        BY <2>1
      <3>2. \A i \in 1 .. Len(c) : PatchNamed(xml, c[i]) \in Seq(PatchType)
        BY PatchNamedSeq
      <3>. QED BY <3>1, <3>2
    <2>. HIDE DEF s
    <2>3. /\ FlattenSeq(s) \in Seq(PatchType)
          /\ \A e : e \in Range(FlattenSeq(s)) <=> \E n \in 1 .. Len(s) : e \in Range(s[n])
      BY <2>2, FlattenedSeq
    <2>4. OfOption(xml, option) = FlattenSeq(s)
      BY <1>2 DEF OfOption, s, c
    <2>5. \A id : id \in Range(c) <=> \E i \in 1 .. Len(c) : id = c[i]
      BY <2>1 DEF Range
    <2>6. \A e : e \in Range(FlattenSeq(s)) <=> \E id \in Range(c) : e \in Range(PatchNamed(xml, id))
      <3>1. ASSUME NEW e
            PROVE  (\E n \in 1 .. Len(s) : e \in Range(s[n]))
                    <=> \E i \in 1 .. Len(c) : e \in Range(PatchNamed(xml, c[i]))
        BY <2>2
      <3>2. ASSUME NEW e
            PROVE  (\E id \in Range(c) : e \in Range(PatchNamed(xml, id)))
                    <=> \E i \in 1 .. Len(c) : e \in Range(PatchNamed(xml, c[i]))
        BY <2>5
      <3>. QED BY <2>3, <3>1, <3>2
    <2>. HIDE DEF s
    <2>. QED BY <1>2, <2>3, <2>4, <2>6 DEF c
  <1>3. CASE option.selected \notin 1 .. Len(option.choices)
    <2>1. OfOption(xml, option) = << >>
      BY <1>3 DEF OfOption
    <2>. QED BY <1>3, <2>1 DEF Range
  <1>. QED BY <1>2, <1>3

LEMMA GeneratedPatches ==
  ASSUME NEW xml \in XmlType, NEW pack \in PackType
  PROVE  /\ GeneratePatches(xml, pack) \in Seq(PatchType)
         /\ \A e : e \in Range(GeneratePatches(xml, pack)) <=>
                \E i \in DOMAIN Options(xml, pack) : e \in Range(OfOption(xml, Options(xml, pack)[i]))
  <1>. DEFINE o == Options(xml, pack)
              s == [i \in DOMAIN o |-> OfOption(xml, o[i])]
  <1>1. o \in Seq(OptionType) /\ DOMAIN o = 1 .. Len(o) /\ Len(o) \in Nat
    BY OptionsSeq
  <1>2. GeneratePatches(xml, pack) = FlattenSeq(s)
    BY DEF GeneratePatches, OfOption
  <1>. HIDE DEF o
  <1>3. s \in Seq(Seq(PatchType)) /\ Len(s) = Len(o) /\ \A i \in 1 .. Len(o) : s[i] = OfOption(xml, o[i])
    <2>1. \A i \in 1 .. Len(o) : o[i] \in OptionType
      BY <1>1
    <2>2. \A i \in 1 .. Len(o) : OfOption(xml, o[i]) \in Seq(PatchType)
      BY <2>1, OfOptionSeq
    <2>. QED BY <1>1, <2>2
  <1>. HIDE DEF s
  <1>4. /\ FlattenSeq(s) \in Seq(PatchType)
        /\ \A e : e \in Range(FlattenSeq(s)) <=> \E n \in 1 .. Len(s) : e \in Range(s[n])
    BY <1>3, FlattenedSeq
  <1>. QED BY <1>1, <1>2, <1>3, <1>4 DEF o

\* What a mod asks for in one place.
MappingType ==
    [kind : {"file", "folder"}, create : BOOLEAN, files : SUBSET Laid]
    \cup [kind : {"by name"}, create : BOOLEAN, files : SUBSET [at : STRING, host : Host]]

LEMMA CollectedMappings ==
  ASSUME NEW patch \in PatchType
  PROVE  CollectMappings(patch) \in Seq(MappingType)
  <1>. DEFINE files1 == Kept(patch.files, {f \in Range(patch.files) : f.host # Nowhere})
              folders1 == Kept(patch.folders, {f \in Range(patch.folders) : f.files # {}})
              a == [i \in DOMAIN files1 |->
                    [kind |-> "file", create |-> files1[i].create,
                     files |-> {[at |-> files1[i].at, host |-> files1[i].host]}]]
              b == [i \in DOMAIN folders1 |->
                    [kind |-> IF folders1[i].byName THEN "by name" ELSE "folder",
                     create |-> folders1[i].create, files |-> folders1[i].files]]
  <1>1. patch.files \in Seq(FilePatchType) /\ patch.folders \in Seq(FolderPatchType)
    BY DEF PatchType
  <1>2. /\ files1 \in Seq(FilePatchType) /\ folders1 \in Seq(FolderPatchType)
        /\ \A f \in Range(files1) : f.host # Nowhere
    <2>1. /\ files1 \in Seq(FilePatchType) /\ folders1 \in Seq(FolderPatchType)
          /\ Range(files1) = Range(patch.files) \cap {f \in Range(patch.files) : f.host # Nowhere}
      BY <1>1, KeptSeq
    <2>. HIDE DEF files1, folders1
    <2>. QED BY <2>1
  <1>3. CollectMappings(patch) = a \o b
    BY DEF CollectMappings
  <1>. HIDE DEF files1, folders1
  <1>4. a \in Seq(MappingType)
    <2>1. ASSUME NEW i \in 1 .. Len(files1)
          PROVE  [kind |-> "file", create |-> files1[i].create,
                  files |-> {[at |-> files1[i].at, host |-> files1[i].host]}] \in MappingType
      <3>1. files1[i] \in FilePatchType /\ files1[i].host # Nowhere
        BY <1>2 DEF Range
      <3>2. files1[i].at \in Path /\ files1[i].host \in Host /\ files1[i].create \in BOOLEAN
        BY <3>1 DEF FilePatchType
      <3>. QED BY <3>2 DEF MappingType, Laid
    <2>2. DOMAIN files1 = 1 .. Len(files1) /\ Len(files1) \in Nat
      BY <1>2
    <2>. QED BY <2>1, <2>2
  <1>5. b \in Seq(MappingType)
    <2>1. ASSUME NEW i \in 1 .. Len(folders1)
          PROVE  [kind |-> IF folders1[i].byName THEN "by name" ELSE "folder",
                  create |-> folders1[i].create, files |-> folders1[i].files] \in MappingType
      <3>1. folders1[i] \in FolderPatchType
        BY <1>2
      <3>2. /\ folders1[i].create \in BOOLEAN
            /\ \/ ~folders1[i].byName /\ folders1[i].files \in SUBSET Laid
               \/ folders1[i].byName /\ folders1[i].files \in SUBSET [at : STRING, host : Host]
        BY <3>1 DEF FolderPatchType
      <3>. QED BY <3>2 DEF MappingType
    <2>2. DOMAIN folders1 = 1 .. Len(folders1) /\ Len(folders1) \in Nat
      BY <1>2
    <2>. HIDE DEF MappingType
    <2>3. ASSUME NEW i \in 1 .. Len(folders1) PROVE b[i] \in MappingType
      BY <2>1, <2>2
    <2>4. DOMAIN b = 1 .. Len(folders1) /\ b = [i \in 1 .. Len(folders1) |-> b[i]]
      BY <2>2
    <2>. HIDE DEF b
    <2>. QED BY <2>2, <2>3, <2>4
  <1>. HIDE DEF a, b
  <1>. QED BY <1>3, <1>4, <1>5

LEMMA LoadedPatchSet ==
  ASSUME NEW pack \in PackType
  PROVE  LoadPatchSet(pack) \in Seq(MappingType)
  <1>. DEFINE xmls == Kept(pack.xmls, {xml \in Range(pack.xmls) : xml.valid})
              Of(xml) == LET patches == GeneratePatches(xml, pack)
                         IN  FlattenSeq([i \in DOMAIN patches |-> CollectMappings(patches[i])])
              s == [i \in DOMAIN xmls |-> Of(xmls[i])]
  <1>1. xmls \in Seq(XmlType)
    <2>1. pack.xmls \in Seq(XmlType)
      BY DEF PackType
    <2>. QED BY <2>1, KeptSeq
  <1>2. ASSUME NEW xml \in XmlType PROVE Of(xml) \in Seq(MappingType)
    <2>. DEFINE p == GeneratePatches(xml, pack)
                t == [i \in DOMAIN p |-> CollectMappings(p[i])]
    <2>1. p \in Seq(PatchType)
      BY GeneratedPatches
    <2>. HIDE DEF p
    <2>2. t \in Seq(Seq(MappingType))
      <3>1. \A i \in 1 .. Len(p) : p[i] \in PatchType
        BY <2>1
      <3>2. \A i \in 1 .. Len(p) : CollectMappings(p[i]) \in Seq(MappingType)
        BY <3>1, CollectedMappings
      <3>3. DOMAIN p = 1 .. Len(p) /\ Len(p) \in Nat
        BY <2>1
      <3>. QED BY <3>2, <3>3
    <2>. HIDE DEF t
    <2>3. FlattenSeq(t) \in Seq(MappingType)
      BY <2>2, FlattenedSeq
    <2>. QED BY <2>3 DEF t, p
  <1>3. LoadPatchSet(pack) = FlattenSeq(s)
    BY DEF LoadPatchSet
  <1>4. s \in Seq(Seq(MappingType))
    <2>1. DOMAIN xmls = 1 .. Len(xmls) /\ Len(xmls) \in Nat /\ \A i \in 1 .. Len(xmls) : xmls[i] \in XmlType
      BY <1>1
    <2>. HIDE DEF xmls, Of
    <2>. QED BY <1>2, <2>1
  <1>. HIDE DEF s
  <1>. QED BY <1>3, <1>4, FlattenedSeq

LEMMA OverlayMappingsSeq ==
  ASSUME NEW pack \in PackType
  PROVE  OverlayMappings(pack) \in Seq(MappingType)
  <1>1. [kind |-> "folder", create |-> TRUE, files |-> pack.tree] \in MappingType
    BY DEF PackType, MappingType
  <1>. QED BY <1>1, LoadedPatchSet DEF OverlayMappings

LEMMA DivMod ==
  ASSUME NEW a \in Nat, NEW b \in Nat \ {0}
  PROVE  /\ a \div b \in Nat /\ a % b \in Nat /\ a % b < b
         /\ a = (a \div b) * b + (a % b)
  <1>1. a \div b \in Nat
    OBVIOUS
  <1>2. a % b \in Nat /\ a % b < b
    OBVIOUS
  <1>3. a = (a \div b) * b + (a % b)
    OBVIOUS
  <1>. QED BY <1>1, <1>2, <1>3

LEMMA DivExact ==
  ASSUME NEW a \in Nat, NEW b \in Nat \ {0}
  PROVE  (a * b) \div b = a
  OBVIOUS

LEMMA LargerIs ==
  ASSUME NEW m \in Nat
  PROVE  /\ Larger(m, 1) \in Nat /\ 0 < Larger(m, 1) /\ Larger(m, 1) <= Larger(m, 4)
         /\ Larger(m, 4) \in Nat
  BY DEF Larger

LEMMA AlignUpIs ==
  ASSUME NEW n \in Nat
  PROVE  /\ AlignUp(n) \in Nat /\ n <= AlignUp(n)
         /\ (AlignUp(n) \div Word) \in Nat
         /\ (AlignUp(n) \div Word) * Word = AlignUp(n)
  <1>. DEFINE m == (n + Align - 1) \div Align
              q == Align \div Word
  <1>1. Align \in Nat \ {0} /\ Word \in Nat \ {0} /\ Align % Word = 0
    BY SizesAssumption
  <1>2. n + Align - 1 \in Nat
    BY <1>1
  <1>3. m \in Nat /\ n + Align - 1 < m * Align + Align
    <2>. HIDE DEF m
    <2>1. m \in Nat /\ n + Align - 1 = m * Align + ((n + Align - 1) % Align)
          /\ (n + Align - 1) % Align < Align /\ (n + Align - 1) % Align \in Nat
      BY <1>1, <1>2, DivMod DEF m
    <2>2. m * Align \in Nat
      BY <1>1, <2>1
    <2>. QED BY <1>1, <2>1, <2>2
  <1>4. q \in Nat /\ Align = q * Word
    <2>1. q \in Nat /\ Align = q * Word + (Align % Word)
      BY <1>1, DivMod
    <2>. HIDE DEF q
    <2>2. q * Word \in Nat
      BY <1>1, <2>1
    <2>. QED BY <1>1, <2>1, <2>2
  <1>5. AlignUp(n) = m * Align
    BY DEF AlignUp
  <1>. HIDE DEF m, q
  <1>6. m * Align \in Nat /\ n <= m * Align
    <2>1. m * Align \in Nat
      BY <1>1, <1>3
    <2>. QED BY <1>1, <1>3, <2>1
  <1>7. m * Align = (m * q) * Word /\ m * q \in Nat
    BY <1>1, <1>3, <1>4
  <1>8. ((m * q) * Word) \div Word = m * q
    BY <1>1, <1>7, DivExact
  <1>. QED BY <1>5, <1>6, <1>7, <1>8

-----------------------------------------------------------------------------
(* The steps by which a disc and its mods are laid out.                    *)

LEMMA DiscIs ==
  ASSUME disc \in Discs
  PROVE  /\ disc.trees \in Seq(SUBSET Laid) /\ disc.packs \in Seq(PackType)
         /\ disc.fst \subseteq [path : Path, word : Nat, size : Nat]
         /\ disc.missing \subseteq Host /\ disc.cardFails \in BOOLEAN
  BY DiscsAssumption

LoadedOverlays ==
    /\ disc \in Discs
    /\ overlays = [i \in DOMAIN disc.packs |-> OverlayMappings(disc.packs[i])]

LEMMA MappingsSeq ==
  ASSUME LoadedOverlays
  PROVE  /\ overlays \in Seq(Seq(MappingType)) /\ Len(overlays) = Len(disc.packs)
         /\ \A i \in 0 .. Len(overlays) : Mappings(i) \in Seq(MappingType)
  <1>1. /\ disc.trees \in Seq(SUBSET Laid) /\ disc.packs \in Seq(PackType)
        /\ overlays = [i \in DOMAIN disc.packs |-> OverlayMappings(disc.packs[i])]
    BY DiscIs DEF LoadedOverlays
  <1>2. overlays \in Seq(Seq(MappingType)) /\ Len(overlays) = Len(disc.packs)
    <2>1. \A i \in 1 .. Len(disc.packs) : disc.packs[i] \in PackType
      BY <1>1
    <2>2. \A i \in 1 .. Len(disc.packs) : OverlayMappings(disc.packs[i]) \in Seq(MappingType)
      BY <2>1, OverlayMappingsSeq
    <2>3. DOMAIN disc.packs = 1 .. Len(disc.packs) /\ Len(disc.packs) \in Nat
      BY <1>1
    <2>. QED BY <1>1, <2>2, <2>3
  <1>3. Mappings(0) \in Seq(MappingType)
    <2>1. DOMAIN disc.trees = 1 .. Len(disc.trees) /\ Len(disc.trees) \in Nat
      BY <1>1
    <2>2. \A n \in 1 .. Len(disc.trees) : DiscMapping(disc.trees[n]) \in MappingType
      <3>1. \A n \in 1 .. Len(disc.trees) : disc.trees[n] \in SUBSET Laid
        BY <1>1
      <3>. QED BY <3>1 DEF DiscMapping, MappingType
    <2>3. Mappings(0) = [n \in 1 .. Len(disc.trees) |-> DiscMapping(disc.trees[n])]
      BY <2>1 DEF Mappings
    <2>. QED BY <2>1, <2>2, <2>3
  <1>4. ASSUME NEW i \in 0 .. Len(overlays) PROVE Mappings(i) \in Seq(MappingType)
    <2>1. CASE i # 0
      <3>1. i \in 1 .. Len(overlays)
        BY <1>2, <2>1
      <3>2. overlays[i] \in Seq(MappingType)
        BY <1>2, <3>1
      <3>. QED BY <2>1, <3>2 DEF Mappings
    <2>. QED BY <1>3, <2>1
  <1>. QED BY <1>2, <1>4

\* The pairs of steps whose first one is outranked by its second one.
Rising == {p \in AllSteps \X AllSteps : Outranks(p[2], p[1])}

LEMMA AllStepsAre ==
  ASSUME LoadedOverlays
  PROVE  \A s : s \in AllSteps <=>
            \E i \in 0 .. Len(overlays) : \E n \in 1 .. Len(Mappings(i)) : s = <<i, n>>
  <1>1. \A i \in 0 .. Len(overlays) : DOMAIN Mappings(i) = 1 .. Len(Mappings(i))
    BY MappingsSeq
  <1>. QED BY <1>1 DEF AllSteps

LEMMA StepIs ==
  ASSUME LoadedOverlays, NEW s \in AllSteps
  PROVE  /\ s[1] \in 0 .. Len(overlays) /\ s[2] \in 1 .. Len(Mappings(s[1]))
         /\ s[1] \in Nat /\ s[2] \in Nat /\ Len(overlays) \in Nat
         /\ s = <<s[1], s[2]>>
         /\ Mapping(s) \in MappingType
  <1>1. PICK i \in 0 .. Len(overlays) : \E n \in 1 .. Len(Mappings(i)) : s = <<i, n>>
    BY AllStepsAre
  <1>2. PICK n \in 1 .. Len(Mappings(i)) : s = <<i, n>>
    BY <1>1
  <1>3. s[1] = i /\ s[2] = n /\ s = <<s[1], s[2]>>
    BY <1>2
  <1>4. Mappings(i) \in Seq(MappingType) /\ Len(overlays) \in Nat
    BY MappingsSeq
  <1>5. Mappings(i)[n] \in MappingType /\ Len(Mappings(i)) \in Nat
    BY <1>4
  <1>. QED BY <1>3, <1>4, <1>5 DEF Mapping

LEMMA StepsSeq ==
  ASSUME LoadedOverlays, NEW i \in 0 .. Len(overlays)
  PROVE  /\ Steps(i) \in Seq(AllSteps) /\ Ordered(Steps(i), Rising)
         /\ Range(Steps(i)) = {s \in AllSteps : s[1] = i}
  <1>1. Mappings(i) \in Seq(MappingType) /\ Len(Mappings(i)) \in Nat
        /\ DOMAIN Mappings(i) = 1 .. Len(Mappings(i))
    BY MappingsSeq
  <1>2. Steps(i) = [n \in 1 .. Len(Mappings(i)) |-> <<i, n>>]
    BY <1>1 DEF Steps
  <1>3. \A n \in 1 .. Len(Mappings(i)) : <<i, n>> \in AllSteps
    BY AllStepsAre
  <1>4. Steps(i) \in Seq(AllSteps) /\ DOMAIN Steps(i) = 1 .. Len(Mappings(i))
    BY <1>1, <1>2, <1>3
  <1>5. Ordered(Steps(i), Rising)
    <2>. SUFFICES ASSUME NEW m \in 1 .. Len(Mappings(i)), NEW n \in 1 .. Len(Mappings(i)), m < n
                  PROVE  <<Steps(i)[m], Steps(i)[n]>> \in Rising
      BY <1>4 DEF Ordered
    <2>1. Steps(i)[m] = <<i, m>> /\ Steps(i)[n] = <<i, n>>
      BY <1>2
    <2>2. Outranks(<<i, n>>, <<i, m>>)
      BY <1>1 DEF Outranks
    <2>. QED BY <1>3, <2>1, <2>2 DEF Rising
  <1>6. ASSUME NEW s PROVE s \in Range(Steps(i)) <=> s \in AllSteps /\ s[1] = i
    <2>1. s \in Range(Steps(i)) <=> \E n \in 1 .. Len(Mappings(i)) : s = <<i, n>>
      BY <1>2, <1>4 DEF Range
    <2>2. ASSUME s \in AllSteps, s[1] = i PROVE \E n \in 1 .. Len(Mappings(i)) : s = <<i, n>>
      BY <2>2, StepIs
    <2>. QED BY <1>3, <2>1, <2>2
  <1>. QED BY <1>4, <1>5, <1>6

LEMMA OverlayStepsSeq ==
  ASSUME LoadedOverlays
  PROVE  /\ OverlaySteps \in Seq(AllSteps) /\ Ordered(OverlaySteps, Rising)
         /\ Range(OverlaySteps) = {s \in AllSteps : s[1] # 0}
  <1>. DEFINE L == Len(overlays)
              s == [k \in DOMAIN overlays |-> Steps(L + 1 - k)]
  <1>1. L \in Nat /\ DOMAIN overlays = 1 .. L
    BY MappingsSeq
  <1>2. OverlaySteps = FlattenSeq(s)
    BY DEF OverlaySteps
  <1>. HIDE DEF L
  <1>3. ASSUME NEW k \in 1 .. L PROVE L + 1 - k \in 0 .. L /\ L + 1 - k \in 1 .. L
    BY <1>1
  <1>4. /\ s \in Seq(Seq(AllSteps)) /\ Len(s) = L
        /\ \A k \in 1 .. L : s[k] = Steps(L + 1 - k) /\ Ordered(s[k], Rising)
                             /\ Range(s[k]) = {t \in AllSteps : t[1] = L + 1 - k}
    <2>1. \A i \in 0 .. L : /\ Steps(i) \in Seq(AllSteps) /\ Ordered(Steps(i), Rising)
                            /\ Range(Steps(i)) = {t \in AllSteps : t[1] = i}
      BY StepsSeq DEF L
    <2>2. \A k \in 1 .. L : /\ Steps(L + 1 - k) \in Seq(AllSteps)
                            /\ Ordered(Steps(L + 1 - k), Rising)
                            /\ Range(Steps(L + 1 - k)) = {t \in AllSteps : t[1] = L + 1 - k}
      BY <1>3, <2>1
    <2>3. s = [k \in 1 .. L |-> Steps(L + 1 - k)]
      BY <1>1
    <2>. HIDE DEF s
    <2>4. \A k \in 1 .. L : s[k] = Steps(L + 1 - k)
      BY <2>3
    <2>5. s \in Seq(Seq(AllSteps)) /\ Len(s) = L
      BY <1>1, <2>2, <2>3
    <2>. QED BY <2>2, <2>4, <2>5
  <1>. HIDE DEF s
  <1>5. ASSUME NEW k \in 1 .. L, NEW n \in 1 .. L, k < n, NEW x \in Range(s[k]), NEW y \in Range(s[n])
        PROVE  <<x, y>> \in Rising
    <2>1. x \in AllSteps /\ y \in AllSteps /\ x[1] = L + 1 - k /\ y[1] = L + 1 - n
      BY <1>4
    <2>2. x[1] # y[1] /\ y[1] < x[1] /\ y[1] # 0
      BY <1>1, <1>5, <2>1
    <2>. QED BY <2>1, <2>2 DEF Rising, Outranks
  <1>6. /\ FlattenSeq(s) \in Seq(AllSteps)
        /\ \A e : e \in Range(FlattenSeq(s)) <=> \E n \in 1 .. Len(s) : e \in Range(s[n])
        /\ Ordered(FlattenSeq(s), Rising)
    <2>1. \A n \in 1 .. Len(s) : Ordered(s[n], Rising)
      BY <1>4
    <2>2. \A m, n \in 1 .. Len(s) :
            m < n => \A x \in Range(s[m]), y \in Range(s[n]) : <<x, y>> \in Rising
      BY <1>4, <1>5
    <2>3. s \in Seq(Seq(AllSteps))
      BY <1>4
    <2>. QED BY <2>1, <2>2, <2>3, FlattenedSeq
  <1>7. ASSUME NEW e PROVE e \in Range(OverlaySteps) <=> e \in AllSteps /\ e[1] # 0
    <2>1. ASSUME NEW n \in 1 .. L, e \in Range(s[n]) PROVE e \in AllSteps /\ e[1] # 0
      <3>1. e \in AllSteps /\ e[1] = L + 1 - n
        BY <1>4, <2>1
      <3>. QED BY <1>1, <3>1
    <2>2. ASSUME e \in AllSteps, e[1] # 0 PROVE \E n \in 1 .. L : e \in Range(s[n])
      <3>1. e[1] \in 1 .. L
        <4>1. e[1] \in 0 .. L /\ e[1] \in Nat
          BY <2>2, StepIs DEF L
        <4>. QED BY <1>1, <2>2, <4>1
      <3>. DEFINE n == L + 1 - e[1]
      <3>2. n \in 1 .. L /\ e[1] = L + 1 - n
        BY <1>1, <3>1
      <3>. HIDE DEF n
      <3>3. e \in Range(s[n])
        BY <1>4, <2>2, <3>2
      <3>. QED BY <3>2, <3>3
    <2>. QED BY <1>2, <1>4, <1>6, <2>1, <2>2
  <1>. QED BY <1>2, <1>6, <1>7

LEMMA WholeDisc ==
  ASSUME LoadedOverlays
  PROVE  /\ Steps(0) \o OverlaySteps \in Seq(AllSteps)
         /\ Ordered(Steps(0) \o OverlaySteps, Rising)
         /\ Range(Steps(0) \o OverlaySteps) = AllSteps
  <1>1. 0 \in 0 .. Len(overlays)
    BY MappingsSeq
  <1>2. /\ Steps(0) \in Seq(AllSteps) /\ Ordered(Steps(0), Rising)
        /\ Range(Steps(0)) = {s \in AllSteps : s[1] = 0}
    BY <1>1, StepsSeq
  <1>3. ASSUME NEW x \in Range(Steps(0)), NEW y \in Range(OverlaySteps) PROVE <<x, y>> \in Rising
    <2>1. x \in AllSteps /\ y \in AllSteps /\ x[1] = 0 /\ y[1] # 0
      BY <1>2, OverlayStepsSeq
    <2>. QED BY <2>1 DEF Rising, Outranks
  <1>4. Ordered(Steps(0) \o OverlaySteps, Rising)
    BY <1>2, <1>3, OverlayStepsSeq, JoinOrdered
  <1>5. Range(Steps(0) \o OverlaySteps) = Range(Steps(0)) \cup Range(OverlaySteps)
    BY <1>2, OverlayStepsSeq, RangeConcatenation
  <1>6. Steps(0) \o OverlaySteps \in Seq(AllSteps)
    BY <1>2, OverlayStepsSeq, ConcatProperties
  <1>7. Range(Steps(0)) \cup Range(OverlaySteps) = AllSteps
    <2>1. AllSteps = {s \in AllSteps : s[1] = 0} \cup {s \in AllSteps : s[1] # 0}
      OBVIOUS
    <2>. QED BY <1>2, <2>1, OverlayStepsSeq
  <1>. QED BY <1>4, <1>5, <1>6, <1>7

-----------------------------------------------------------------------------
(* Where files are put on the disc.                                        *)

EntryType == [path : Path, host : Host]

LEMMA LatestIs ==
  ASSUME entries \in Seq(EntryType), NEW p \in Registered
  PROVE  /\ Latest(p) \in DOMAIN entries /\ entries[Latest(p)].path = p
         /\ \A k \in DOMAIN entries : entries[k].path = p => k <= Latest(p)
         /\ p \in Path
  <1>. DEFINE S == {k \in DOMAIN entries : entries[k].path = p}
  <1>1. DOMAIN entries = 1 .. Len(entries) /\ Len(entries) \in Nat
    BY DEF EntryType
  <1>2. S # {} /\ S \in SUBSET Nat /\ \A k \in S : k <= Len(entries)
    BY <1>1 DEF Registered
  <1>3. MaxIn(S) \in S /\ \A k \in S : k <= MaxIn(S)
    <2>. HIDE DEF S
    <2>. QED BY <1>1, <1>2, Greatest
  <1>4. Latest(p) = MaxIn(S)
    BY DEF Latest
  <1>5. entries[MaxIn(S)] \in EntryType
    BY <1>1, <1>3
  <1>. QED BY <1>3, <1>4, <1>5 DEF EntryType

LEMMA RealWordIs ==
  ASSUME disc \in Discs, NEW k
  PROVE  /\ RealWord(k) \in Nat /\ RealWord(k) < Limit
         /\ \/ RealWord(k) = 0
            \/ \E f \in FstFiles : /\ f.path = entries[k].path /\ f.word = RealWord(k)
                                   /\ k = Latest(entries[k].path)
  <1>. DEFINE same == {f \in FstFiles : f.path = entries[k].path}
              one == CHOOSE f \in same : TRUE
  <1>1. Limit \in Nat \ {0} /\ Word \in Nat \ {0}
    BY SizesAssumption
  <1>2. RealWord(k) = IF same # {} /\ k = Latest(entries[k].path) THEN one.word ELSE 0
    BY DEF RealWord
  <1>3. same # {} => one \in same
    OBVIOUS
  <1>4. \A f \in FstFiles : f.word \in Nat /\ f.word < Limit
    <2>. SUFFICES ASSUME NEW f \in FstFiles PROVE f.word \in Nat /\ f.word < Limit
      OBVIOUS
    <2>1. f \in [path : Path, word : Nat, size : Nat] /\ f.word * Word < Limit
      BY DiscIs DEF FstFiles
    <2>2. f.word \in Nat
      BY <2>1
    <2>3. f.word <= f.word * Word /\ f.word * Word \in Nat
      BY <1>1, <2>2
    <2>. QED BY <1>1, <2>1, <2>2, <2>3
  <1>. HIDE DEF one
  <1>5. CASE same # {} /\ k = Latest(entries[k].path)
    BY <1>2, <1>3, <1>4, <1>5
  <1>6. CASE ~(same # {} /\ k = Latest(entries[k].path))
    <2>1. RealWord(k) = 0
      BY <1>2, <1>6
    <2>. QED BY <1>1, <1>6, <2>1
  <1>. QED BY <1>5, <1>6

\* A sequence of naturals has a bound.
LEMMA Bounded ==
  ASSUME NEW n \in Nat, NEW f \in [1 .. n -> Nat]
  PROVE  \E b \in Nat : \A i \in 1 .. n : f[i] <= b
  <1>. DEFINE Has(m) == \E b \in Nat : \A i \in 1 .. m : i <= n => f[i] <= b
              S == {m \in Nat : Has(m)}
  <1>1. 0 \in S
    OBVIOUS
  <1>2. ASSUME NEW m \in S PROVE m + 1 \in S
    <2>1. PICK b \in Nat : \A i \in 1 .. m : i <= n => f[i] <= b
      OBVIOUS
    <2>2. m \in Nat
      OBVIOUS
    <2>. DEFINE c == IF m + 1 <= n /\ b < f[m + 1] THEN f[m + 1] ELSE b
    <2>3. c \in Nat
      BY <2>2
    <2>4. ASSUME NEW i \in 1 .. m + 1, i <= n PROVE f[i] <= c
      <3>1. f[i] \in Nat
        BY <2>2, <2>4
      <3>2. CASE i = m + 1
        BY <2>2, <2>4, <3>1, <3>2
      <3>3. CASE i \in 1 .. m
        <4>1. f[i] <= b /\ b <= c
          <5>1. m + 1 <= n => f[m + 1] \in Nat
            BY <2>2
          <5>. QED BY <2>1, <2>4, <3>3, <5>1
        <4>. HIDE DEF c
        <4>. QED BY <2>3, <3>1, <4>1
      <3>. QED BY <2>2, <3>2, <3>3
    <2>5. Has(m + 1)
      <3>. HIDE DEF c
      <3>. QED BY <2>3, <2>4
    <2>. HIDE DEF Has
    <2>. QED BY <2>2, <2>5
  <1>3. Has(n)
    <2>. HIDE DEF Has
    <2>. QED BY <1>1, <1>2, SetInduction
  <1>. QED BY <1>3

LEMMA RealEndIs ==
  ASSUME disc \in Discs, entries \in Seq(EntryType)
  PROVE  /\ RealEnd \in Nat
         /\ \A f \in FstFiles : FstEnd(f) <= RealEnd
         /\ \A k \in DOMAIN entries :
                RealWord(k) # 0 => RealWord(k) * Word + FileSize[entries[k].host] <= RealEnd
  <1>. DEFINE N == Len(entries)
              e == [k \in 1 .. N |-> RealWord(k) * Word + FileSize[entries[k].host]]
              S == {0} \cup RealEnds
  <1>1. /\ Limit \in Nat \ {0} /\ Word \in Nat \ {0} /\ FileSize \in [Host -> Nat]
        /\ N \in Nat /\ DOMAIN entries = 1 .. N
    BY SizesAssumption
  <1>2. e \in [1 .. N -> Nat]
    <2>1. ASSUME NEW k \in 1 .. N PROVE RealWord(k) * Word + FileSize[entries[k].host] \in Nat
      <3>1. entries[k].host \in Host
        <4>1. entries[k] \in EntryType
          OBVIOUS
        <4>. QED BY <4>1 DEF EntryType
      <3>2. FileSize[entries[k].host] \in Nat /\ RealWord(k) * Word \in Nat
        BY <1>1, <3>1, RealWordIs
      <3>. QED BY <3>2
    <2>. QED BY <2>1
  <1>3. PICK b \in Nat : \A i \in 1 .. N : e[i] <= b
    <2>. HIDE DEF e
    <2>. QED BY <1>1, <1>2, Bounded
  <1>4. \A f \in FstFiles : FstEnd(f) \in Nat /\ FstEnd(f) <= Limit
    <2>. SUFFICES ASSUME NEW f \in FstFiles PROVE FstEnd(f) \in Nat /\ FstEnd(f) <= Limit
      OBVIOUS
    <2>1. f \in [path : Path, word : Nat, size : Nat]
      BY DiscIs DEF FstFiles
    <2>2. f.word * Word + f.size \in Nat
      <3>1. f.word \in Nat /\ f.size \in Nat
        BY <2>1
      <3>2. f.word * Word \in Nat
        BY <1>1, <3>1
      <3>. QED BY <3>1, <3>2
    <2>3. (f.word * Word + f.size) % Limit \in Nat /\ (f.word * Word + f.size) % Limit < Limit
      BY <1>1, <2>2, DivMod
    <2>. QED BY <1>1, <2>3 DEF FstEnd
  <1>5. ASSUME NEW x \in S PROVE x \in Nat /\ x <= Limit + b
    <2>1. CASE x = 0
      BY <1>1, <2>1
    <2>2. ASSUME NEW f \in FstFiles, x = FstEnd(f) PROVE x \in Nat /\ x <= Limit + b
      BY <1>1, <1>4, <2>2
    <2>3. ASSUME NEW k \in DOMAIN entries, x = RealWord(k) * Word + FileSize[entries[k].host]
          PROVE  x \in Nat /\ x <= Limit + b
      <3>1. k \in 1 .. N /\ x = e[k]
        BY <1>1, <2>3
      <3>2. x \in Nat /\ x <= b
        <4>. HIDE DEF e
        <4>. QED BY <1>2, <1>3, <3>1
      <3>. QED BY <1>1, <3>2
    <2>. QED BY <2>1, <2>2, <2>3 DEF RealEnds
  <1>6. MaxIn(S) \in S /\ \A x \in S : x <= MaxIn(S)
    <2>1. S \in SUBSET Nat /\ S # {} /\ Limit + b \in Nat
      <3>1. 0 \in S
        OBVIOUS
      <3>. HIDE DEF S
      <3>. QED BY <1>1, <1>5, <3>1
    <2>. HIDE DEF S
    <2>. QED BY <1>5, <2>1, Greatest
  <1>7. RealEnd = MaxIn(S)
    BY DEF RealEnd
  <1>8. (\A f \in FstFiles : FstEnd(f) \in S)
        /\ \A k \in DOMAIN entries :
                RealWord(k) # 0 => RealWord(k) * Word + FileSize[entries[k].host] \in S
    BY DEF RealEnds
  <1>. HIDE DEF S
  <1>. QED BY <1>5, <1>6, <1>7, <1>8

PlaceType == [next : Nat, word : Nat, fits : BOOLEAN]

\* The place of the k-th entry, after one where the synthetic ranges go on at x.next.
PlaceAfter(x, k) ==
    IF RealWord(k) # 0 THEN [x EXCEPT !.word = RealWord(k)]
    ELSE [next |-> AlignUp(x.next) + Larger(FileSize[entries[k].host], 4),
          word |-> AlignUp(x.next) \div Word,
          fits |-> x.fits /\ AlignUp(x.next) \div Word < Limit]

\* The recursion of Placed.
LEMMA PlacedIs ==
  ASSUME disc \in Discs, entries \in Seq(EntryType)
  PROVE  /\ Placed \in [0 .. Len(entries) -> PlaceType]
         /\ Placed[0] = [next |-> RealEnd, word |-> 0, fits |-> TRUE]
         /\ \A k \in 1 .. Len(entries) : Placed[k] = PlaceAfter(Placed[k - 1], k)
  <1>. DEFINE N == Len(entries)
              V == PlaceType
              base == [next |-> RealEnd, word |-> 0, fits |-> TRUE]
              Body(r, k) == IF k = 0 THEN base ELSE PlaceAfter(r[k - 1], k)
              step == [k \in 1 .. N |-> [x \in V |-> PlaceAfter(x, k)]]
              c == CHOOSE f : f = [k \in 0 .. N |-> Body(f, k)]
  <1>1. N \in Nat /\ base \in V /\ \A k \in 1 .. N : FileSize[entries[k].host] \in Nat
    <2>1. \A k \in 1 .. N : entries[k].host \in Host
      <3>1. \A k \in 1 .. N : entries[k] \in EntryType
        OBVIOUS
      <3>. QED BY <3>1 DEF EntryType
    <2>. QED BY <2>1, RealEndIs, SizesAssumption DEF PlaceType
  <1>2. ASSUME NEW k \in 1 .. N, NEW x \in V PROVE PlaceAfter(x, k) \in V
    <2>1. x.next \in Nat /\ x.fits \in BOOLEAN /\ RealWord(k) \in Nat
      BY RealWordIs DEF PlaceType
    <2>2. AlignUp(x.next) \in Nat /\ (AlignUp(x.next) \div Word) \in Nat
      BY <2>1, AlignUpIs
    <2>3. AlignUp(x.next) + Larger(FileSize[entries[k].host], 4) \in Nat
      BY <1>1, <2>2 DEF Larger
    <2>. QED BY <2>1, <2>2, <2>3 DEF PlaceAfter, PlaceType
  <1>3. step \in [1 .. N -> [V -> V]]
    <2>. HIDE DEF V, N
    <2>. QED BY <1>2
  <1>4. PICK r \in [0 .. N -> V] : Follows(r, V, base, N, step)
    <2>. HIDE DEF step, N, V, base
    <2>. QED BY <1>1, <1>3, Recursion
  <1>5. /\ r[0] = base
        /\ \A k \in 1 .. N : k - 1 \in 0 .. N /\ r[k - 1] \in V /\ r[k] = step[k][r[k - 1]]
    <2>1. \A k \in 1 .. N : k - 1 \in 0 .. N
      BY <1>1
    <2>. HIDE DEF step, N, V, base
    <2>. QED BY <1>4, <2>1 DEF Follows
  <1>6. \A k \in 1 .. N : r[k] = PlaceAfter(r[k - 1], k)
    <2>. HIDE DEF V, N, base
    <2>. QED BY <1>5
  <1>7. r = [k \in 0 .. N |-> Body(r, k)]
    <2>1. \A k \in 0 .. N : k = 0 \/ k \in 1 .. N
      BY <1>1
    <2>2. \A k \in 0 .. N : r[k] = Body(r, k)
      <3>. HIDE DEF N, step, V, base
      <3>. QED BY <1>5, <1>6, <2>1
    <2>. HIDE DEF N, step, V, Body
    <2>. QED BY <1>4, <2>2
  <1>8. c = [k \in 0 .. N |-> Body(c, k)]
    <2>. HIDE DEF N, Body
    <2>. QED BY <1>7
  <1>9. Placed = c
    BY DEF Placed, PlaceAfter
  <1>. HIDE DEF c
  <1>10. c[0] = base /\ \A k \in 1 .. N : c[k] = PlaceAfter(c[k - 1], k)
    <2>1. \A k \in 0 .. N : c[k] = Body(c, k)
      <3>. HIDE DEF Body
      <3>. QED BY <1>8
    <2>2. 0 \in 0 .. N /\ \A k \in 1 .. N : k \in 0 .. N /\ k # 0
      BY <1>1
    <2>. HIDE DEF N, base
    <2>. QED BY <2>1, <2>2
  <1>. DEFINE S == {n \in Nat : n <= N => c[n] \in V}
  <1>11. S = Nat
    <2>. HIDE DEF V, base
    <2>1. 0 \in S
      BY <1>1, <1>10
    <2>2. ASSUME NEW n \in S PROVE n + 1 \in S
      <3>1. n \in Nat /\ n + 1 \in Nat
        OBVIOUS
      <3>2. ASSUME n + 1 <= N PROVE c[n + 1] \in V
        <4>. DEFINE m == n + 1
        <4>1. m \in 1 .. N /\ m - 1 = n /\ n <= N
          BY <1>1, <3>1, <3>2
        <4>2. c[n] \in V
          BY <4>1
        <4>. HIDE DEF m, N, S
        <4>3. c[m] = PlaceAfter(c[m - 1], m)
          BY <1>10, <4>1
        <4>. QED BY <1>2, <4>1, <4>2, <4>3 DEF m
      <3>. QED BY <3>1, <3>2
    <2>. HIDE DEF S
    <2>. QED BY <2>1, <2>2, SetInduction DEF S
  <1>12. ASSUME NEW n \in 0 .. N PROVE c[n] \in V
    <2>1. n \in Nat /\ n <= N
      BY <1>1
    <2>. HIDE DEF V, N
    <2>. QED BY <1>11, <2>1
  <1>13. c \in [0 .. N -> V]
    <2>. HIDE DEF V, N, Body
    <2>. QED BY <1>8, <1>12
  <1>. QED BY <1>9, <1>10, <1>13

\* The synthetic ranges follow one another.
LEMMA PlacesRise ==
  ASSUME disc \in Discs, entries \in Seq(EntryType)
  PROVE  \A j \in 0 .. Len(entries) : \A i \in 0 .. j :
            /\ Placed[i].next <= Placed[j].next
            /\ Placed[j].fits => Placed[i].fits
  <1>. DEFINE N == Len(entries)
              Good(j) == \A i \in 0 .. j : /\ Placed[i].next <= Placed[j].next
                                           /\ Placed[j].fits => Placed[i].fits
              S == {j \in Nat : j <= N => Good(j)}
  <1>1. N \in Nat /\ \A k \in 0 .. N : Placed[k] \in PlaceType
    BY PlacedIs
  <1>2. \A k \in 0 .. N : Placed[k].next \in Nat /\ Placed[k].fits \in BOOLEAN
    <2>. HIDE DEF N
    <2>. QED BY <1>1 DEF PlaceType
  <1>3. ASSUME NEW k \in 1 .. N
        PROVE  Placed[k - 1].next <= Placed[k].next /\ (Placed[k].fits => Placed[k - 1].fits)
    <2>1. k - 1 \in 0 .. N /\ k \in 0 .. N
      BY <1>1
    <2>2. Placed[k] = PlaceAfter(Placed[k - 1], k) /\ Placed[k - 1] \in PlaceType
      BY <1>1, <2>1, PlacedIs
    <2>3. FileSize[entries[k].host] \in Nat
      <3>1. entries[k] \in EntryType
        OBVIOUS
      <3>. QED BY <3>1, SizesAssumption DEF EntryType
    <2>. DEFINE x == Placed[k - 1]
    <2>4. x.next \in Nat /\ AlignUp(x.next) \in Nat /\ x.next <= AlignUp(x.next)
      BY <1>2, <2>1, AlignUpIs
    <2>5. CASE RealWord(k) # 0
      <3>1. Placed[k] = [x EXCEPT !.word = RealWord(k)]
        BY <2>2, <2>5 DEF PlaceAfter
      <3>2. Placed[k].next = x.next /\ Placed[k].fits = x.fits
        <4>. HIDE DEF x
        <4>. QED BY <2>2, <3>1 DEF PlaceType, x
      <3>. QED BY <2>4, <3>2
    <2>6. CASE RealWord(k) = 0
      <3>1. /\ Placed[k].next = AlignUp(x.next) + Larger(FileSize[entries[k].host], 4)
            /\ Placed[k].fits = (x.fits /\ AlignUp(x.next) \div Word < Limit)
        BY <2>2, <2>6 DEF PlaceAfter
      <3>2. Larger(FileSize[entries[k].host], 4) \in Nat
        BY <2>3 DEF Larger
      <3>. HIDE DEF x
      <3>3. x.next <= Placed[k].next
        BY <2>4, <3>1, <3>2
      <3>. QED BY <3>1, <3>3 DEF x
    <2>. QED BY <2>5, <2>6
  <1>4. 0 \in S
    <2>1. Good(0)
      BY <1>1, <1>2
    <2>. HIDE DEF Good
    <2>. QED BY <2>1
  <1>5. ASSUME NEW j \in S PROVE j + 1 \in S
    <2>0. j \in Nat /\ (j <= N => Good(j))
      <3>. HIDE DEF Good
      <3>. QED OBVIOUS
    <2>. SUFFICES ASSUME j + 1 <= N PROVE Good(j + 1)
      <3>. HIDE DEF Good
      <3>. QED BY <2>0
    <2>. DEFINE m == j + 1
    <2>1. m \in 1 .. N /\ m \in 0 .. N /\ m - 1 = j /\ j <= N /\ j \in 0 .. N
      BY <1>1, <2>0
    <2>2. Good(j)
      <3>. HIDE DEF Good
      <3>. QED BY <2>0, <2>1
    <2>3. \A i \in 0 .. m : i = m \/ i \in 0 .. j
      BY <2>0
    <2>4. \A i \in 0 .. j : i \in 0 .. N
      BY <1>1, <2>0, <2>1
    <2>. HIDE DEF m, N, S
    <2>5. Placed[j].next <= Placed[m].next /\ (Placed[m].fits => Placed[j].fits)
      BY <1>3, <2>1
    <2>6. Good(m)
      <3>. SUFFICES ASSUME NEW i \in 0 .. m
                    PROVE  Placed[i].next <= Placed[m].next /\ (Placed[m].fits => Placed[i].fits)
        OBVIOUS
      <3>1. CASE i = m
        BY <1>2, <2>1, <3>1
      <3>2. CASE i \in 0 .. j
        <4>1. Placed[i].next <= Placed[j].next /\ (Placed[j].fits => Placed[i].fits)
          BY <2>2, <3>2
        <4>2. Placed[i].next \in Nat /\ Placed[j].next \in Nat /\ Placed[m].next \in Nat
          BY <1>2, <2>1, <2>4, <3>2
        <4>. QED BY <2>5, <4>1, <4>2
      <3>. QED BY <2>3, <3>1, <3>2
    <2>. QED BY <2>6 DEF m
  <1>6. S = Nat
    <2>. HIDE DEF S
    <2>. QED BY <1>4, <1>5, SetInduction DEF S
  <1>7. ASSUME NEW j \in 0 .. N PROVE Good(j)
    <2>1. j \in Nat /\ j <= N
      BY <1>1
    <2>. HIDE DEF Good, N
    <2>. QED BY <1>6, <2>1
  <1>. QED BY <1>7

-----------------------------------------------------------------------------
(* What is published, and the host files kept open.                        *)

ImageType(image) ==
    /\ DOMAIN image \subseteq Path
    /\ \A p \in DOMAIN image : image[p] \in [host : Host, word : 0 .. Limit - 1]

LEMMA ImageIs ==
  ASSUME disc \in Discs, entries \in Seq(EntryType), Placed[Len(entries)].fits
  PROVE  /\ ImageType(Image(Placed)) /\ DOMAIN Image(Placed) = Registered
         /\ \A p \in Registered : /\ Latest(p) \in 1 .. Len(entries)
                                  /\ Image(Placed)[p].host = entries[Latest(p)].host
                                  /\ Image(Placed)[p].word = Placed[Latest(p)].word
  <1>1. Len(entries) \in Nat /\ DOMAIN entries = 1 .. Len(entries)
    OBVIOUS
  <1>2. Image(Placed) = [p \in Registered |->
                            [host |-> entries[Latest(p)].host, word |-> Placed[Latest(p)].word]]
    BY DEF Image
  <1>3. ASSUME NEW p \in Registered
        PROVE  /\ Latest(p) \in 1 .. Len(entries) /\ p \in Path
               /\ entries[Latest(p)].host \in Host /\ Placed[Latest(p)].word \in 0 .. Limit - 1
    <2>1. Latest(p) \in 1 .. Len(entries) /\ p \in Path
      BY <1>1, LatestIs
    <2>2. entries[Latest(p)] \in EntryType
      BY <2>1
    <2>. DEFINE k == Latest(p)
    <2>3. k \in 1 .. Len(entries)
      BY <2>1
    <2>. HIDE DEF k
    <2>4. k - 1 \in 0 .. Len(entries) /\ k \in 0 .. Len(entries) /\ Len(entries) \in 0 .. Len(entries)
          /\ k \in 0 .. Len(entries)
      BY <1>1, <2>3
    <2>5. /\ Placed[k - 1] \in PlaceType /\ Placed[k] \in PlaceType
          /\ Placed[k] = PlaceAfter(Placed[k - 1], k)
      BY <2>3, <2>4, PlacedIs
    <2>6. Placed[k].fits
      BY <2>4, PlacesRise
    <2>7. Placed[k].word \in Nat /\ Placed[k].word < Limit
      <3>1. CASE RealWord(k) # 0
        <4>1. Placed[k] = [Placed[k - 1] EXCEPT !.word = RealWord(k)]
          BY <2>5, <3>1 DEF PlaceAfter
        <4>2. Placed[k].word = RealWord(k)
          BY <2>5, <4>1 DEF PlaceType
        <4>. QED BY <4>2, RealWordIs
      <3>2. CASE RealWord(k) = 0
        <4>1. /\ Placed[k].word = AlignUp(Placed[k - 1].next) \div Word
              /\ Placed[k].fits = (Placed[k - 1].fits /\ AlignUp(Placed[k - 1].next) \div Word < Limit)
          BY <2>5, <3>2 DEF PlaceAfter
        <4>2. Placed[k].word \in Nat
          BY <2>5 DEF PlaceType
        <4>. QED BY <2>6, <4>1, <4>2
      <3>. QED BY <3>1, <3>2
    <2>8. Placed[k].word \in 0 .. Limit - 1
      BY <2>7, SizesAssumption
    <2>. QED BY <2>1, <2>2, <2>8 DEF EntryType, k
  <1>. QED BY <1>2, <1>3 DEF ImageType

\* The starts and the files that start there.
ExtentsOf(image, e) ==
    /\ DOMAIN e = Starts(image)
    /\ \A s \in DOMAIN e : e[s] \in DOMAIN image /\ image[e[s]].word # 0 /\ Start(image, e[s]) = s

LEMMA ExtentsAre ==
  ASSUME NEW image, NEW last \in Lasts(image)
  PROVE  ExtentsOf(image, [s \in Starts(image) |-> CHOOSE p \in last : Start(image, p) = s])
  <1>1. /\ last \subseteq DOMAIN image
        /\ \A p \in last : image[p].word # 0
        /\ \A s \in Starts(image) : Cardinality({p \in last : Start(image, p) = s}) = 1
    BY DEF Lasts
  <1>2. ASSUME NEW s \in Starts(image) PROVE \E p \in last : Start(image, p) = s
    <2>1. CASE {p \in last : Start(image, p) = s} = {}
      <3>1. Cardinality({}) = 1
        BY <1>1, <2>1
      <3>. QED BY <3>1, FS_EmptySet
    <2>. QED BY <2>1
  <1>. DEFINE e == [s \in Starts(image) |-> CHOOSE p \in last : Start(image, p) = s]
  <1>3. \A s \in Starts(image) : e[s] \in last /\ Start(image, e[s]) = s
    BY <1>2
  <1>4. DOMAIN e = Starts(image)
    OBVIOUS
  <1>. HIDE DEF e
  <1>5. ExtentsOf(image, e)
    BY <1>1, <1>3, <1>4 DEF ExtentsOf
  <1>. QED BY <1>5 DEF e

\* The greatest start at or before a byte.
LEMMA FoundIs ==
  ASSUME NEW byte \in Nat, ImageType(files),
         \A s \in DOMAIN extents : extents[s] \in DOMAIN files /\ Start(files, extents[s]) = s
  PROVE  /\ \A s \in DOMAIN extents : s \in Nat
         /\ \A s \in Found(byte) :
                /\ s \in DOMAIN extents /\ s \in Nat /\ s <= byte
                /\ byte < EndOf(files, extents[s])
                /\ \A t \in DOMAIN extents : t <= byte => t <= s
                /\ Found(byte) = {s}
         /\ \A s \in DOMAIN extents :
                /\ s <= byte /\ byte < EndOf(files, extents[s])
                /\ \A t \in DOMAIN extents : t <= byte => t <= s
                => Found(byte) = {s}
  <1>. DEFINE before == {s \in DOMAIN extents : s <= byte}
  <1>1. ASSUME NEW s \in DOMAIN extents PROVE s \in Nat
    <2>1. extents[s] \in DOMAIN files /\ s = files[extents[s]].word * Word
      BY DEF Start
    <2>2. files[extents[s]].word \in Nat
      BY <2>1, SizesAssumption DEF ImageType
    <2>. QED BY <2>1, <2>2, SizesAssumption
  <1>2. before # {} => MaxIn(before) \in before /\ \A t \in before : t <= MaxIn(before)
    <2>1. before \in SUBSET Nat /\ \A t \in before : t <= byte
      BY <1>1
    <2>. HIDE DEF before
    <2>. QED BY <2>1, Greatest
  <1>3. Found(byte) = IF before # {} /\ byte < EndOf(files, extents[MaxIn(before)])
                      THEN {MaxIn(before)} ELSE {}
    BY DEF Found
  <1>4. \A t : t \in before <=> t \in DOMAIN extents /\ t <= byte
    OBVIOUS
  <1>. HIDE DEF before
  <1>5. ASSUME NEW s \in Found(byte)
        PROVE  /\ s \in DOMAIN extents /\ s \in Nat /\ s <= byte
               /\ byte < EndOf(files, extents[s])
               /\ \A t \in DOMAIN extents : t <= byte => t <= s
               /\ Found(byte) = {s}
    <2>1. before # {} /\ byte < EndOf(files, extents[MaxIn(before)]) /\ s = MaxIn(before)
      BY <1>3
    <2>. QED BY <1>1, <1>2, <1>3, <1>4, <2>1
  <1>6. ASSUME NEW s \in DOMAIN extents, s <= byte, byte < EndOf(files, extents[s]),
               \A t \in DOMAIN extents : t <= byte => t <= s
        PROVE  Found(byte) = {s}
    <2>1. s \in before /\ MaxIn(before) \in DOMAIN extents /\ MaxIn(before) <= s /\ s <= MaxIn(before)
      BY <1>2, <1>4, <1>6
    <2>2. MaxIn(before) = s
      BY <1>1, <2>1
    <2>. QED BY <1>3, <1>6, <2>1, <2>2
  <1>. QED BY <1>1, <1>5, <1>6

\* A sequence in which no element comes twice has as many elements as are in it.
LEMMA InjectiveLen ==
  ASSUME NEW T, NEW s \in Seq(T), IsInjective(s)
  PROVE  Cardinality(Range(s)) = Len(s)
  <1>1. Len(s) \in Nat /\ DOMAIN s = 1 .. Len(s)
    OBVIOUS
  <1>2. s \in [1 .. Len(s) -> Range(s)]
    BY <1>1 DEF Range
  <1>3. s \in Injection(1 .. Len(s), Range(s))
    BY <1>1, <1>2 DEF Injection, IsInjective
  <1>4. s \in Surjection(1 .. Len(s), Range(s))
    BY <1>1, <1>2 DEF Surjection, Range
  <1>5. IsFiniteSet(1 .. Len(s)) /\ Cardinality(1 .. Len(s)) = Len(s)
    BY <1>1, FS_Interval
  <1>. QED BY <1>3, <1>4, <1>5, FS_Surjection

LEMMA AppendNew ==
  ASSUME NEW T, NEW s \in Seq(T), NEW e \in T, IsInjective(s), e \notin Range(s)
  PROVE  IsInjective(Append(s, e))
  <1>1. /\ Len(Append(s, e)) = Len(s) + 1 /\ Len(s) \in Nat
        /\ \A i \in 1 .. Len(s) : Append(s, e)[i] = s[i]
        /\ Append(s, e)[Len(s) + 1] = e
        /\ DOMAIN Append(s, e) = 1 .. Len(s) + 1 /\ DOMAIN s = 1 .. Len(s)
    OBVIOUS
  <1>2. \A i \in 1 .. Len(s) : s[i] # e
    BY <1>1 DEF Range
  <1>3. \A i \in 1 .. Len(s) + 1 : i \in 1 .. Len(s) \/ i = Len(s) + 1
    BY <1>1
  <1>4. ASSUME NEW i \in 1 .. Len(s) + 1, NEW j \in 1 .. Len(s) + 1,
               Append(s, e)[i] = Append(s, e)[j]
        PROVE  i = j
    <2>1. CASE i \in 1 .. Len(s) /\ j \in 1 .. Len(s)
      BY <1>1, <1>4, <2>1 DEF IsInjective
    <2>2. CASE i = Len(s) + 1 /\ j \in 1 .. Len(s)
      BY <1>1, <1>2, <1>4, <2>2
    <2>3. CASE i \in 1 .. Len(s) /\ j = Len(s) + 1
      BY <1>1, <1>2, <1>4, <2>3
    <2>. QED BY <1>3, <2>1, <2>2, <2>3
  <1>. QED BY <1>1, <1>4 DEF IsInjective

OpenType(o) == o \in Seq(Host) /\ Len(o) <= MaxOpen /\ IsInjective(o)

LEMMA NowOpenIs ==
  ASSUME OpenType(open), NEW h \in Host
  PROVE  OpenType(NowOpen(h))
  <1>1. open \in Seq(Host) /\ Len(open) <= MaxOpen /\ IsInjective(open) /\ Len(open) \in Nat
        /\ MaxOpen \in Nat \ {0}
    BY SizesAssumption DEF OpenType
  <1>2. CASE h \in Range(open)
    <2>. DEFINE k == Kept(open, Host \ {h})
    <2>1. k \in Seq(Host) /\ Range(k) = Range(open) \cap (Host \ {h}) /\ IsInjective(k)
      BY <1>1, KeptSeq
    <2>2. NowOpen(h) = Append(k, h)
      BY <1>2 DEF NowOpen
    <2>. HIDE DEF k
    <2>3. IsInjective(Append(k, h)) /\ Append(k, h) \in Seq(Host)
      BY <2>1, AppendNew
    <2>4. Range(Append(k, h)) = Range(open)
      <3>1. Range(Append(k, h)) = Range(k) \cup {h}
        <4>. DEFINE t == <<h>>
        <4>1. t \in Seq(Host) /\ Range(t) = {h} /\ Append(k, h) = k \o t
          BY <2>1, AppendIsConcat DEF Range
        <4>. HIDE DEF t
        <4>2. Range(k \o t) = Range(k) \cup Range(t)
          BY <2>1, <4>1, RangeConcatenation
        <4>. QED BY <4>1, <4>2
      <3>2. Range(open) \subseteq Host
        BY <1>1, RangeOfSeq
      <3>. QED BY <1>2, <2>1, <3>1, <3>2
    <2>5. Len(Append(k, h)) = Len(open)
      <3>1. Cardinality(Range(Append(k, h))) = Len(Append(k, h))
        BY <2>3, InjectiveLen
      <3>2. Cardinality(Range(open)) = Len(open)
        BY <1>1, InjectiveLen
      <3>. QED BY <2>4, <3>1, <3>2
    <2>. QED BY <1>1, <2>2, <2>3, <2>5 DEF OpenType
  <1>3. CASE h \notin Range(open) /\ Len(open) >= MaxOpen
    <2>1. open # << >>
      BY <1>1, <1>3
    <2>. DEFINE t == Tail(open)
    <2>2. /\ t \in Seq(Host) /\ Len(t) = Len(open) - 1
          /\ \A i \in 1 .. Len(t) : t[i] = open[i + 1]
      BY <1>1, <2>1, HeadTailProperties
    <2>3. NowOpen(h) = Append(t, h)
      BY <1>3 DEF NowOpen
    <2>. HIDE DEF t
    <2>4. Len(t) \in Nat /\ DOMAIN t = 1 .. Len(t) /\ DOMAIN open = 1 .. Len(open)
          /\ \A i \in 1 .. Len(t) : i + 1 \in 1 .. Len(open) /\ i \in Nat
      BY <1>1, <2>2
    <2>5. IsInjective(t)
      <3>. SUFFICES ASSUME NEW i \in 1 .. Len(t), NEW j \in 1 .. Len(t), t[i] = t[j]
                    PROVE  i = j
        BY <2>4 DEF IsInjective
      <3>1. open[i + 1] = open[j + 1] /\ i + 1 \in DOMAIN open /\ j + 1 \in DOMAIN open
        BY <2>2, <2>4
      <3>2. i + 1 = j + 1
        BY <1>1, <3>1 DEF IsInjective
      <3>. QED BY <2>4, <3>2
    <2>6. h \notin Range(t)
      BY <1>3, <2>2, <2>4 DEF Range
    <2>7. IsInjective(Append(t, h)) /\ Append(t, h) \in Seq(Host) /\ Len(Append(t, h)) = Len(t) + 1
      BY <2>2, <2>5, <2>6, AppendNew
    <2>. QED BY <1>1, <2>2, <2>3, <2>7 DEF OpenType
  <1>4. CASE h \notin Range(open) /\ ~(Len(open) >= MaxOpen)
    <2>1. NowOpen(h) = Append(open, h)
      BY <1>4 DEF NowOpen
    <2>2. IsInjective(Append(open, h)) /\ Append(open, h) \in Seq(Host)
          /\ Len(Append(open, h)) = Len(open) + 1
      BY <1>1, <1>4, AppendNew
    <2>. QED BY <1>1, <1>4, <2>1, <2>2 DEF OpenType
  <1>. QED BY <1>2, <1>3, <1>4

-----------------------------------------------------------------------------
(* The types.                                                              *)

HostType == host \in [Host -> [there : BOOLEAN, size : Nat]]
            /\ \A h \in Host : host[h].size <= FileSize[h]

\* The files that the mapping being applied still has, and the mappings after it.
LayingOut ==
    /\ pending \in Seq(AllSteps)
    /\ left \subseteq IF pending = << >> THEN {} ELSE Mapping(Head(pending)).files

IndexInv ==
    /\ LoadedOverlays
    /\ stage \in {"off", "prescan", "prescanned", "scan", "ready", "failed"}
    /\ fast \in BOOLEAN
    /\ LayingOut
    /\ entries \in Seq(EntryType) /\ known \in 0 .. Len(entries)
    /\ ImageType(files) /\ ExtentsOf(files, extents)
    /\ HostType
    /\ OpenType(open)

LEMMA IndexInvTypes ==
  ASSUME IndexInv
  PROVE  TypeOK
  <1>1. Cardinality(Range(open)) = Len(open)
    BY InjectiveLen DEF IndexInv, OpenType
  <1>2. \A h \in Host : host[h].there \in BOOLEAN /\ host[h].size \in 0 .. FileSize[h]
    BY SizesAssumption DEF IndexInv, HostType
  <1>3. \A s \in DOMAIN extents : extents[s] \in DOMAIN files /\ Start(files, extents[s]) = s
    BY DEF IndexInv, ExtentsOf
  <1>. QED BY <1>1, <1>2, <1>3 DEF IndexInv, TypeOK, LoadedOverlays, ImageType, OpenType, EntryType

LEMMA IndexInvInit ==
  ASSUME Init
  PROVE  IndexInv
  <1>1. LoadedOverlays
    BY DEF Init, LoadedOverlays
  <1>2. LayingOut /\ entries \in Seq(EntryType) /\ known \in 0 .. Len(entries)
    BY DEF Init, LayingOut
  <1>3. ImageType(files) /\ ExtentsOf(files, extents)
    BY DEF Init, ImageType, ExtentsOf, Starts
  <1>4. HostType
    BY SizesAssumption DEF Init, HostType
  <1>5. OpenType(open)
    BY SizesAssumption DEF Init, OpenType, IsInjective
  <1>. QED BY <1>1, <1>2, <1>3, <1>4, <1>5 DEF Init, IndexInv

LEMMA SameDisc ==
  ASSUME LoadedOverlays, disc' = disc, overlays' = overlays
  PROVE  /\ LoadedOverlays' /\ AllSteps' = AllSteps
         /\ \A s : (Mapping(s).files)' = Mapping(s).files
         /\ \A i : Steps(i)' = Steps(i)
  <1>1. LoadedOverlays'
    BY DEF LoadedOverlays
  <1>2. AllSteps' = AllSteps
    BY DEF AllSteps, Mappings, DiscMapping
  <1>3. \A s : (Mapping(s).files)' = Mapping(s).files
    BY DEF Mapping, Mappings, DiscMapping
  <1>4. \A i : Steps(i)' = Steps(i)
    BY DEF Steps, Mappings, DiscMapping
  <1>. QED BY <1>1, <1>2, <1>3, <1>4

\* A mapping is begun.
LEMMA BegunIs ==
  ASSUME LoadedOverlays, disc' = disc, overlays' = overlays,
         NEW steps \in Seq(AllSteps), Begun(steps)
  PROVE  LayingOut'
  <1>1. /\ pending' = steps
        /\ left' = IF steps = << >> THEN {} ELSE Mapping(Head(steps)).files
    BY DEF Begun
  <1>2. pending' \in Seq(AllSteps)'
    BY <1>1, SameDisc
  <1>3. steps # << >> => (Mapping(Head(pending)).files)' = Mapping(Head(steps)).files
    BY <1>1 DEF Mapping, Mappings, DiscMapping
  <1>4. left' \subseteq IF pending' = << >> THEN {} ELSE (Mapping(Head(pending)).files)'
    BY <1>1, <1>3
  <1>. QED BY <1>2, <1>4 DEF LayingOut

\* Where the files of a mapping go.
LEMMA TargetsSeq ==
  ASSUME LoadedOverlays, LayingOut, entries \in Seq(EntryType), known \in 0 .. Len(entries),
         NEW file \in left
  PROVE  /\ Targets(Mapping(Head(pending)), file) \in Seq(Path) /\ file.host \in Host
         /\ pending # << >> /\ Head(pending) \in AllSteps
         /\ file \in Mapping(Head(pending)).files
  <1>. DEFINE s == Head(pending)
              m == Mapping(s)
  <1>1. pending # << >> /\ s \in AllSteps /\ file \in m.files
    BY DEF LayingOut
  <1>2. m \in MappingType
    BY <1>1, StepIs
  <1>. HIDE DEF m
  <1>3. file.host \in Host /\ (m.kind # "by name" => file.at \in Path)
    <2>1. CASE m \in [kind : {"file", "folder"}, create : BOOLEAN, files : SUBSET Laid]
      BY <1>1, <2>1 DEF Laid
    <2>2. CASE m \in [kind : {"by name"}, create : BOOLEAN,
                      files : SUBSET [at : STRING, host : Host]]
      BY <1>1, <2>2
    <2>. QED BY <1>2, <2>1, <2>2 DEF MappingType
  <1>4. Targets(m, file) \in Seq(Path)
    <2>1. CASE m.kind = "by name"
      <3>. DEFINE t == [k \in 1 .. known |-> entries[k].path]
                  S == {p \in Path : NameOf[p] = file.at}
      <3>1. t \in Seq(Path)
        <4>1. \A k \in 1 .. known : entries[k].path \in Path
          <5>1. \A k \in 1 .. known : entries[k] \in EntryType
            OBVIOUS
          <5>. QED BY <5>1 DEF EntryType
        <4>2. known \in Nat
          OBVIOUS
        <4>. QED BY <4>1, <4>2
      <3>2. Targets(m, file) = Kept(t, S)
        BY <2>1 DEF Targets
      <3>. HIDE DEF t, S
      <3>. QED BY <3>1, <3>2, KeptSeq
    <2>2. CASE m.kind # "by name"
      <3>1. Targets(m, file) = IF m.create \/ file.at \in Registered THEN <<file.at>> ELSE << >>
        BY <2>2 DEF Targets
      <3>2. <<file.at>> \in Seq(Path) /\ << >> \in Seq(Path)
        <4>1. \A a \in Path : <<a>> \in Seq(Path)
          OBVIOUS
        <4>2. << >> \in Seq(Path)
          OBVIOUS
        <4>3. file.at \in Path
          BY <1>3, <2>2
        <4>. DEFINE a == file.at
        <4>. HIDE DEF a
        <4>4. <<a>> \in Seq(Path)
          BY <4>1, <4>3 DEF a
        <4>. QED BY <4>2, <4>4 DEF a
      <3>. QED BY <3>1, <3>2
    <2>. QED BY <2>1, <2>2
  <1>. QED BY <1>1, <1>3, <1>4 DEF m

LEMMA VisitTypes ==
  ASSUME IndexInv, Visit
  PROVE  LayingOut' /\ entries' \in Seq(EntryType) /\ known' \in 0 .. Len(entries')
  <1>1. PICK file \in left :
            LET paths == IF host[file.host].there
                         THEN Targets(Mapping(Head(pending)), file) ELSE << >>
            IN  /\ left' = left \ {file}
                /\ entries' = entries \o [k \in DOMAIN paths |->
                                            [path |-> paths[k], host |-> file.host]]
    BY DEF Visit
  <1>. DEFINE paths == IF host[file.host].there
                       THEN Targets(Mapping(Head(pending)), file) ELSE << >>
              added == [k \in DOMAIN paths |-> [path |-> paths[k], host |-> file.host]]
  <1>2. disc' = disc /\ overlays' = overlays /\ pending' = pending /\ known' = known
    BY DEF Visit
  <1>3. /\ LoadedOverlays /\ LayingOut /\ entries \in Seq(EntryType) /\ known \in 0 .. Len(entries)
    BY DEF IndexInv
  <1>4. paths \in Seq(Path) /\ file.host \in Host
    BY <1>3, TargetsSeq
  <1>5. left' = left \ {file} /\ entries' = entries \o added
    BY <1>1
  <1>. HIDE DEF paths
  <1>6. added \in Seq(EntryType)
    <2>1. DOMAIN paths = 1 .. Len(paths) /\ Len(paths) \in Nat
      BY <1>4
    <2>2. \A k \in 1 .. Len(paths) : [path |-> paths[k], host |-> file.host] \in EntryType
      BY <1>4 DEF EntryType
    <2>. QED BY <2>1, <2>2
  <1>. HIDE DEF added
  <1>7. entries' \in Seq(EntryType) /\ Len(entries') = Len(entries) + Len(added)
        /\ Len(added) \in Nat /\ Len(entries) \in Nat
    BY <1>3, <1>5, <1>6, ConcatProperties
  <1>8. LayingOut'
    <2>1. pending' \in Seq(AllSteps)'
      BY <1>2, <1>3, SameDisc DEF LayingOut
    <2>2. (Mapping(Head(pending)).files)' = Mapping(Head(pending)).files
      BY <1>2 DEF Mapping, Mappings, DiscMapping
    <2>3. left' \subseteq IF pending' = << >> THEN {} ELSE (Mapping(Head(pending)).files)'
      BY <1>2, <1>3, <1>5, <2>2 DEF LayingOut
    <2>. QED BY <2>1, <2>3 DEF LayingOut
  <1>. QED BY <1>2, <1>3, <1>7, <1>8

Listing == \/ PrescanDisc \/ DVDInit \/ Visit \/ NextMapping \/ ListingStops
           \/ FastListingFails \/ PrescanEnds

LEMMA ListingKeeps ==
  ASSUME Listing
  PROVE  UNCHANGED <<disc, overlays, files, extents, host, open, reply>>
  BY DEF Listing, PrescanDisc, DVDInit, Visit, NextMapping, ListingStops, FastListingFails, PrescanEnds

LEMMA IndexInvListing ==
  ASSUME IndexInv, Listing
  PROVE  IndexInv'
  <1>1. /\ LoadedOverlays /\ LayingOut /\ entries \in Seq(EntryType) /\ known \in 0 .. Len(entries)
        /\ Len(entries) \in Nat
    BY DEF IndexInv
  <1>2. disc' = disc /\ overlays' = overlays /\ LoadedOverlays'
    BY <1>1, ListingKeeps, SameDisc
  <1>3. Steps(0) \in Seq(AllSteps)
    <2>1. 0 \in 0 .. Len(overlays)
      BY <1>1, MappingsSeq
    <2>. QED BY <1>1, <2>1, StepsSeq
  <1>. DEFINE Stages == {"off", "prescan", "prescanned", "scan", "ready", "failed"}
              Right == /\ LayingOut' /\ entries' \in Seq(EntryType) /\ known' \in 0 .. Len(entries')
                       /\ stage' \in Stages /\ fast' \in BOOLEAN
  <1>0. stage \in Stages /\ fast \in BOOLEAN /\ known \in Nat
    BY <1>1 DEF IndexInv
  <1>4. ASSUME PrescanDisc PROVE Right
    <2>1. LayingOut'
      BY <1>1, <1>2, <1>3, <1>4, BegunIs DEF PrescanDisc
    <2>2. stage' = "prescan" /\ fast' = TRUE /\ known' = 0 /\ entries' = entries
      BY <1>4 DEF PrescanDisc
    <2>. QED BY <1>1, <2>1, <2>2
  <1>5. ASSUME DVDInit PROVE Right
    <2>1. PICK steps \in Seq(AllSteps) : Begun(steps)
      <3>1. << >> \o OverlaySteps \in Seq(AllSteps)
        BY <1>1, OverlayStepsSeq, ConcatProperties
      <3>2. Steps(0) \o OverlaySteps \in Seq(AllSteps)
        BY <1>1, WholeDisc
      <3>3. Begun((IF stage = "off" THEN Steps(0) ELSE << >>) \o OverlaySteps)
        BY <1>5 DEF DVDInit
      <3>4. CASE stage = "off"
        BY <3>2, <3>3, <3>4
      <3>5. CASE stage # "off"
        BY <3>1, <3>3, <3>5
      <3>. QED BY <3>4, <3>5
    <2>2. LayingOut'
      BY <1>1, <1>2, <2>1, BegunIs
    <2>3. stage' = "scan" /\ fast' = FALSE /\ known' = Len(entries) /\ entries' = entries
      BY <1>5 DEF DVDInit
    <2>4. entries' \in Seq(EntryType) /\ known' \in 0 .. Len(entries')
      BY <1>1, <2>3
    <2>. QED BY <2>2, <2>3, <2>4
  <1>6. ASSUME Visit PROVE Right
    <2>1. stage' = stage /\ fast' = fast
      BY <1>6 DEF Visit
    <2>2. LayingOut' /\ entries' \in Seq(EntryType) /\ known' \in 0 .. Len(entries')
      BY <1>6, VisitTypes
    <2>. QED BY <1>0, <2>1, <2>2
  <1>7. ASSUME NextMapping PROVE Right
    <2>1. Tail(pending) \in Seq(AllSteps) /\ Begun(Tail(pending))
      BY <1>1, <1>7, HeadTailProperties DEF NextMapping, LayingOut
    <2>2. LayingOut'
      BY <1>1, <1>2, <2>1, BegunIs
    <2>3. stage' = stage /\ fast' = fast /\ known' = Len(entries) /\ entries' = entries
      BY <1>7 DEF NextMapping
    <2>. QED BY <1>0, <1>1, <2>2, <2>3
  <1>8. ASSUME ListingStops PROVE Right
    <2>1. pending' = pending /\ left' = {}
      BY <1>8 DEF ListingStops
    <2>2. LayingOut'
      BY <1>1, <1>2, <2>1, SameDisc DEF LayingOut
    <2>3. stage' = stage /\ fast' = fast /\ known' = known /\ entries' = entries
      BY <1>8 DEF ListingStops
    <2>. QED BY <1>0, <1>1, <2>2, <2>3
  <1>9. ASSUME FastListingFails PROVE Right
    <2>1. LayingOut'
      BY <1>1, <1>2, <1>3, <1>9, BegunIs DEF FastListingFails
    <2>2. stage' = stage /\ fast' = FALSE /\ known' = 0 /\ entries' = << >>
      BY <1>9 DEF FastListingFails
    <2>3. entries' \in Seq(EntryType) /\ known' \in 0 .. Len(entries')
      BY <2>2
    <2>. QED BY <1>0, <2>1, <2>2, <2>3
  <1>10. ASSUME PrescanEnds PROVE Right
    <2>1. pending' = pending /\ left' = left
      BY <1>10 DEF PrescanEnds
    <2>2. LayingOut'
      <3>1. pending # << >> => (Mapping(Head(pending)).files)' = Mapping(Head(pending)).files
        BY <1>2, <2>1 DEF Mapping, Mappings, DiscMapping
      <3>2. pending' \in Seq(AllSteps)'
        BY <1>1, <1>2, <2>1, SameDisc DEF LayingOut
      <3>3. left' \subseteq IF pending' = << >> THEN {} ELSE (Mapping(Head(pending)).files)'
        BY <1>1, <2>1, <3>1 DEF LayingOut
      <3>. QED BY <3>2, <3>3 DEF LayingOut
    <2>3. stage' = "prescanned" /\ fast' = fast /\ known' = known /\ entries' = entries
      BY <1>10 DEF PrescanEnds
    <2>. QED BY <1>0, <1>1, <2>2, <2>3
  <1>11. Right
    <2>. HIDE DEF Right
    <2>. QED BY <1>4, <1>5, <1>6, <1>7, <1>8, <1>9, <1>10 DEF Listing
  <1>12. /\ ImageType(files)' /\ ExtentsOf(files, extents)' /\ HostType' /\ OpenType(open)'
    BY ListingKeeps DEF IndexInv, ImageType, ExtentsOf, Starts, Start, HostType, OpenType
  <1>. QED BY <1>2, <1>11, <1>12 DEF IndexInv

LEMMA IndexInvPublish ==
  ASSUME IndexInv, BuildAndPublishRuntimeFst
  PROVE  IndexInv'
  <1>1. /\ LoadedOverlays /\ LayingOut /\ entries \in Seq(EntryType) /\ known \in 0 .. Len(entries)
        /\ ImageType(files) /\ ExtentsOf(files, extents) /\ disc \in Discs
    BY DEF IndexInv, LoadedOverlays
  <1>2. UNCHANGED <<disc, overlays, fast, pending, left, unlisted, host, open, reply>>
    BY DEF BuildAndPublishRuntimeFst
  <1>3. LoadedOverlays'
    BY <1>1, <1>2, SameDisc
  <1>4. LayingOut'
    <2>1. pending # << >> => (Mapping(Head(pending)).files)' = Mapping(Head(pending)).files
      BY <1>2 DEF Mapping, Mappings, DiscMapping
    <2>2. pending' \in Seq(AllSteps)'
      BY <1>1, <1>2, SameDisc DEF LayingOut
    <2>3. left' \subseteq IF pending' = << >> THEN {} ELSE (Mapping(Head(pending)).files)'
      BY <1>1, <1>2, <2>1 DEF LayingOut
    <2>. QED BY <2>2, <2>3 DEF LayingOut
  <1>5. HostType' /\ OpenType(open)' /\ fast' \in BOOLEAN
    BY <1>2 DEF IndexInv, HostType, OpenType
  <1>6. CASE stage' = "failed" /\ UNCHANGED <<entries, known, files, extents>>
    BY <1>1, <1>3, <1>4, <1>5, <1>6 DEF IndexInv, ImageType, ExtentsOf, Starts, Start
  <1>7. CASE /\ Placed[Len(entries)].fits /\ stage' = "ready" /\ files' = Image(Placed)
             /\ entries' = << >> /\ known' = 0
             /\ \E last \in Lasts(Image(Placed)) :
                    extents' = [s \in Starts(Image(Placed)) |->
                                    CHOOSE p \in last : Start(Image(Placed), p) = s]
    <2>1. ImageType(files')
      BY <1>1, <1>7, ImageIs
    <2>2. ExtentsOf(files', extents')
      <3>1. PICK last \in Lasts(Image(Placed)) :
                    extents' = [s \in Starts(Image(Placed)) |->
                                    CHOOSE p \in last : Start(Image(Placed), p) = s]
        BY <1>7
      <3>. DEFINE image == Image(Placed)
      <3>2. last \in Lasts(image) /\ files' = image /\
            extents' = [s \in Starts(image) |-> CHOOSE p \in last : Start(image, p) = s]
        BY <1>7, <3>1
      <3>. HIDE DEF image
      <3>. QED BY <3>2, ExtentsAre
    <2>3. ImageType(files)' /\ ExtentsOf(files, extents)'
      BY <2>1, <2>2 DEF ImageType, ExtentsOf, Starts, Start
    <2>4. entries' \in Seq(EntryType) /\ known' \in 0 .. Len(entries')
      BY <1>7
    <2>. QED BY <1>3, <1>4, <1>5, <1>7, <2>3, <2>4 DEF IndexInv
  <1>8. \/ stage' = "failed" /\ UNCHANGED <<entries, known, files, extents>>
        \/ /\ Placed[Len(entries)].fits /\ stage' = "ready" /\ files' = Image(Placed)
           /\ entries' = << >> /\ known' = 0
           /\ \E last \in Lasts(Image(Placed)) :
                  extents' = [s \in Starts(Image(Placed)) |->
                                  CHOOSE p \in last : Start(Image(Placed), p) = s]
    BY DEF BuildAndPublishRuntimeFst
  <1>. QED BY <1>6, <1>7, <1>8

\* A read by handle opens a host file or leaves the open ones alone.
LEMMA ReadHandleOpens ==
  ASSUME IndexInv, NEW asked, NEW word \in Nat, NEW inMemory, ReadHandle(asked, word, inMemory)
  PROVE  open' = open \/ \E h \in Host : open' = NowOpen(h)
  <1>. DEFINE found == Found(word * Word)
              start == CHOOSE s \in found : TRUE
              h == files[extents[start]].host
              from == word * Word - start + asked.offset
              bytes == Least(asked.length, FileSize[h] - from)
  <1>1. CASE found = {}
    <2>1. Fatal(asked)
      BY <1>1 DEF ReadHandle
    <2>. QED BY <2>1 DEF Fatal
  <1>2. CASE found # {}
    <2>1. start \in found
      BY <1>2
    <2>2. word * Word \in Nat
      BY SizesAssumption
    <2>. HIDE DEF start
    <2>3. start \in DOMAIN extents
      <3>1. ImageType(files) /\ ExtentsOf(files, extents)
        BY DEF IndexInv
      <3>. QED BY <2>1, <2>2, <3>1, FoundIs DEF ExtentsOf
    <2>4. files[extents[start]] \in [host : Host, word : 0 .. Limit - 1]
      BY <2>3 DEF IndexInv, ExtentsOf, ImageType
    <2>5. h \in Host
      BY <2>4
    <2>6. Fatal(asked) \/ DvdReadNow(asked, h, from, bytes)
      BY DEF ReadHandle, start
    <2>. HIDE DEF h, from, bytes
    <2>7. ASSUME DvdReadNow(asked, h, from, bytes) PROVE open' = open \/ open' = NowOpen(h)
      BY <2>7 DEF DvdReadNow, Fatal
    <2>. QED BY <2>5, <2>6, <2>7 DEF Fatal
  <1>. QED BY <1>1, <1>2

Reading == ReadFile \/ ReadInsideFile \/ ReadAbsAsyncPrio \/ DVDLowRead \/ GoesOn

LEMMA ReadingKeeps ==
  ASSUME IndexInv, Reading
  PROVE  /\ UNCHANGED <<disc, overlays, index, host>>
         /\ open' = open \/ \E h \in Host : open' = NowOpen(h)
  <1>1. \A p \in DOMAIN files : files[p].word \in Nat
    BY SizesAssumption DEF IndexInv, ImageType
  <1>2. CASE ReadFile
    <2>1. PICK p \in DOMAIN files, offset \in Offset, length \in Length, inMemory \in BOOLEAN :
            ReadHandle([by |-> "handle", path |-> p, offset |-> offset, length |-> length],
                       files[p].word, inMemory)
      BY <1>2 DEF ReadFile
    <2>2. open' = open \/ \E h \in Host : open' = NowOpen(h)
      BY <1>1, <2>1, ReadHandleOpens
    <2>. QED BY <1>2, <2>2 DEF ReadFile
  <1>3. CASE ReadInsideFile
    <2>1. PICK p \in DOMAIN files, length \in Length, bias \in Bias :
            ReadHandle([by |-> "handle", path |-> NoPath, offset |-> 0, length |-> length],
                       files[p].word + bias, TRUE)
      BY <1>3 DEF ReadInsideFile
    <2>2. files[p].word + bias \in Nat
      BY <1>1, ReadsAssumption
    <2>3. open' = open \/ \E h \in Host : open' = NowOpen(h)
      BY <2>1, <2>2, ReadHandleOpens
    <2>. QED BY <1>3, <2>3 DEF ReadInsideFile
  <1>4. CASE ReadAbsAsyncPrio
    BY <1>4 DEF ReadAbsAsyncPrio
  <1>5. CASE DVDLowRead
    BY <1>5 DEF DVDLowRead
  <1>6. CASE GoesOn
    BY <1>6 DEF GoesOn
  <1>. QED BY <1>2, <1>3, <1>4, <1>5, <1>6 DEF Reading

\* While the index stays, so does what is known of it.
LEMMA IndexInvSame ==
  ASSUME IndexInv, UNCHANGED <<disc, overlays, index>>, HostType', OpenType(open')
  PROVE  IndexInv'
  <1>1. /\ LoadedOverlays /\ LayingOut /\ entries \in Seq(EntryType) /\ known \in 0 .. Len(entries)
        /\ ImageType(files) /\ ExtentsOf(files, extents)
        /\ stage \in {"off", "prescan", "prescanned", "scan", "ready", "failed"} /\ fast \in BOOLEAN
    BY DEF IndexInv
  <1>2. /\ disc' = disc /\ overlays' = overlays /\ stage' = stage /\ fast' = fast
        /\ pending' = pending /\ left' = left /\ known' = known /\ entries' = entries
        /\ files' = files /\ extents' = extents
    BY DEF index
  <1>3. LoadedOverlays'
    BY <1>1, <1>2, SameDisc
  <1>4. LayingOut'
    <2>1. pending # << >> => (Mapping(Head(pending)).files)' = Mapping(Head(pending)).files
      BY <1>2 DEF Mapping, Mappings, DiscMapping
    <2>2. pending' \in Seq(AllSteps)'
      BY <1>1, <1>2, SameDisc DEF LayingOut
    <2>3. left' \subseteq IF pending' = << >> THEN {} ELSE (Mapping(Head(pending)).files)'
      BY <1>1, <1>2, <2>1 DEF LayingOut
    <2>. QED BY <2>2, <2>3 DEF LayingOut
  <1>5. ImageType(files)' /\ ExtentsOf(files, extents)'
    BY <1>1, <1>2 DEF ImageType, ExtentsOf, Starts, Start
  <1>6. OpenType(open)'
    BY DEF OpenType
  <1>7. /\ stage' \in {"off", "prescan", "prescanned", "scan", "ready", "failed"} /\ fast' \in BOOLEAN
        /\ entries' \in Seq(EntryType) /\ known' \in 0 .. Len(entries')
    BY <1>1, <1>2
  <1>. QED BY <1>3, <1>4, <1>5, <1>6, <1>7 DEF IndexInv

LEMMA IndexInvReading ==
  ASSUME IndexInv, Reading
  PROVE  IndexInv'
  <1>1. UNCHANGED <<disc, overlays, index, host>> /\ (open' = open \/ \E h \in Host : open' = NowOpen(h))
    BY ReadingKeeps
  <1>2. OpenType(open')
    <2>1. OpenType(open)
      BY DEF IndexInv
    <2>. QED BY <1>1, <2>1, NowOpenIs
  <1>3. HostType'
    BY <1>1 DEF IndexInv, HostType
  <1>. QED BY <1>1, <1>2, <1>3, IndexInvSame

LEMMA HostTypeChanges ==
  ASSUME HostType, HostChanges
  PROVE  HostType'
  <1>1. PICK h \in Fragile :
            /\ host[h].there
            /\ \/ host[h].size = FileSize[h] /\ FileSize[h] > 0
                  /\ host' = [host EXCEPT ![h].size = @ - 1]
               \/ host' = [host EXCEPT ![h].there = FALSE]
    BY DEF HostChanges
  <1>2. h \in Host /\ host[h] \in [there : BOOLEAN, size : Nat] /\ FileSize[h] \in Nat
    BY ReadsAssumption, SizesAssumption DEF HostType
  <1>3. \E r \in [there : BOOLEAN, size : Nat] : host' = [host EXCEPT ![h] = r] /\ r.size <= FileSize[h]
    <2>1. CASE host[h].size = FileSize[h] /\ FileSize[h] > 0 /\ host' = [host EXCEPT ![h].size = @ - 1]
      <3>. DEFINE r == [host[h] EXCEPT !.size = host[h].size - 1]
      <3>1. host' = [host EXCEPT ![h] = r]
        BY <2>1
      <3>2. r \in [there : BOOLEAN, size : Nat] /\ r.size <= FileSize[h]
        BY <1>2, <2>1
      <3>. HIDE DEF r
      <3>. QED BY <3>1, <3>2
    <2>2. CASE host' = [host EXCEPT ![h].there = FALSE]
      <3>. DEFINE r == [host[h] EXCEPT !.there = FALSE]
      <3>1. host' = [host EXCEPT ![h] = r]
        BY <2>2
      <3>2. r \in [there : BOOLEAN, size : Nat] /\ r.size <= FileSize[h]
        BY <1>2 DEF HostType
      <3>. HIDE DEF r
      <3>. QED BY <3>1, <3>2
    <2>. QED BY <1>1, <2>1, <2>2
  <1>4. PICK r \in [there : BOOLEAN, size : Nat] : host' = [host EXCEPT ![h] = r] /\ r.size <= FileSize[h]
    BY <1>3
  <1>5. host' \in [Host -> [there : BOOLEAN, size : Nat]]
    BY <1>4 DEF HostType
  <1>6. ASSUME NEW g \in Host PROVE host'[g].size <= FileSize[g]
    BY <1>4 DEF HostType
  <1>. QED BY <1>5, <1>6 DEF HostType

LEMMA IndexInvHost ==
  ASSUME IndexInv, HostChanges
  PROVE  IndexInv'
  <1>1. UNCHANGED <<disc, overlays, index, open>>
    BY DEF HostChanges
  <1>2. OpenType(open')
    BY <1>1 DEF IndexInv
  <1>. QED BY <1>1, <1>2, HostTypeChanges, IndexInvSame DEF IndexInv

LEMMA NextIs ==
  Next <=> Listing \/ BuildAndPublishRuntimeFst \/ Reading \/ HostChanges
  BY DEF Next, Listing, Reading

LEMMA IndexInvNext ==
  ASSUME IndexInv, [Next]_vars
  PROVE  IndexInv'
  <1>1. CASE Next
    BY <1>1, NextIs, IndexInvListing, IndexInvPublish, IndexInvReading, IndexInvHost
  <1>2. CASE UNCHANGED vars
    <2>1. UNCHANGED <<disc, overlays, index>> /\ host' = host /\ open' = open
      BY <1>2 DEF vars
    <2>2. HostType' /\ OpenType(open')
      BY <2>1 DEF IndexInv, HostType
    <2>. QED BY <2>1, <2>2, IndexInvSame
  <1>. QED BY <1>1, <1>2

\* What the index, the tables and the open files are made of.
THEOREM IndexInvariant == Spec => []IndexInv
  <1>1. Init => IndexInv
    BY IndexInvInit
  <1>2. IndexInv /\ [Next]_vars => IndexInv'
    BY IndexInvNext
  <1>. QED BY <1>1, <1>2, PTL DEF Spec

THEOREM DiscTypeOK == Spec => []TypeOK
  <1>1. IndexInv => TypeOK
    BY IndexInvTypes
  <1>. QED BY <1>1, IndexInvariant, PTL

-----------------------------------------------------------------------------
(* The synthetic ranges.                                                   *)

LEMMA BeforeRealEnd ==
  ASSUME disc \in Discs, entries \in Seq(EntryType), FstFiles # {}, TableInOrder(disc),
         disc.trees # << >> \/ disc.packs # << >>
  PROVE  /\ \A f \in FstFiles : f.word \in Nat /\ f.word * Word \in Nat /\ f.word * Word < RealEnd
         /\ RealEnd \in Nat /\ 0 < RealEnd
  <1>1. Limit \in Nat \ {0} /\ Word \in Nat \ {0} /\ RealEnd \in Nat
    BY SizesAssumption, RealEndIs
  <1>2. \A f \in FstFiles : \E g \in FstFiles : /\ f.word * Word < g.word * Word + g.size
                                                /\ g.word * Word + g.size < Limit
    BY DEF TableInOrder, FstFiles
  <1>3. \A f \in FstFiles : f.word \in Nat /\ f.size \in Nat
    BY DiscIs DEF FstFiles
  <1>4. ASSUME NEW f \in FstFiles
        PROVE  f.word \in Nat /\ f.word * Word \in Nat /\ f.word * Word < RealEnd
    <2>1. PICK g \in FstFiles : /\ f.word * Word < g.word * Word + g.size
                                /\ g.word * Word + g.size < Limit
      BY <1>2
    <2>. DEFINE end == g.word * Word + g.size
    <2>2. f.word * Word \in Nat /\ end \in Nat
      <3>1. f.word * Word \in Nat /\ g.word * Word \in Nat /\ g.size \in Nat
        BY <1>1, <1>3
      <3>. QED BY <3>1
    <2>3. FstEnd(g) = end % Limit /\ FstEnd(g) <= RealEnd
      BY RealEndIs DEF FstEnd
    <2>. HIDE DEF end
    <2>4. end < Limit /\ f.word * Word < end
      BY <2>1 DEF end
    <2>5. end % Limit = end
      BY <1>1, <2>2, <2>4
    <2>. QED BY <1>1, <1>3, <2>2, <2>3, <2>4, <2>5
  <1>5. 0 < RealEnd
    <2>1. PICK f \in FstFiles : TRUE
      OBVIOUS
    <2>2. f.word * Word \in Nat /\ f.word * Word < RealEnd
      BY <1>4
    <2>. QED BY <1>1, <2>2
  <1>. QED BY <1>1, <1>4, <1>5

\* The range of an entry: of one with a word of the real disc it ends where the real disc
\* does, and of the others it lies between two steps of the synthetic ranges.
LEMMA RangeOfEntry ==
  ASSUME disc \in Discs, entries \in Seq(EntryType), Placed[Len(entries)].fits,
         FstFiles # {}, TableInOrder(disc), disc.trees # << >> \/ disc.packs # << >>,
         NEW p \in Registered
  PROVE  LET im == Image(Placed)
             k == Latest(p)
         IN  /\ k \in 1 .. Len(entries) /\ k - 1 \in 0 .. Len(entries) /\ entries[k].path = p
             /\ Start(im, p) \in Nat /\ EndOf(im, p) \in Nat /\ Start(im, p) < EndOf(im, p)
             /\ IF RealWord(k) # 0
                THEN EndOf(im, p) <= RealEnd /\ OnRealDisc(p)
                ELSE /\ Placed[k - 1].next <= Start(im, p) /\ EndOf(im, p) <= Placed[k].next
                     /\ im[p].word # 0
  <1>. DEFINE im == Image(Placed)
              k == Latest(p)
              size == FileSize[entries[k].host]
  <1>1. /\ k \in 1 .. Len(entries) /\ entries[k].path = p
        /\ im[p].host = entries[k].host /\ im[p].word = Placed[k].word
    <2>1. DOMAIN entries = 1 .. Len(entries)
      OBVIOUS
    <2>. QED BY <2>1, ImageIs, LatestIs
  <1>. HIDE DEF k, im
  <1>2. k \in Nat /\ k - 1 \in 0 .. Len(entries) /\ k \in 0 .. Len(entries) /\ 0 \in 0 .. k - 1
        /\ 0 \in 0 .. Len(entries) /\ Len(entries) \in Nat
    BY <1>1
  <1>3. size \in Nat
    <2>1. entries[k] \in EntryType
      BY <1>1
    <2>. QED BY <2>1, SizesAssumption DEF EntryType
  <1>. HIDE DEF size
  <1>4. /\ Placed[k - 1] \in PlaceType /\ Placed[k] \in PlaceType
        /\ Placed[k] = PlaceAfter(Placed[k - 1], k)
        /\ Placed[0].next = RealEnd
    BY <1>1, <1>2, PlacedIs
  <1>5. RealEnd <= Placed[k - 1].next
    BY <1>2, <1>4, PlacesRise
  <1>6. /\ Start(im, p) = Placed[k].word * Word
        /\ EndOf(im, p) = Placed[k].word * Word + Larger(size, 1)
    BY <1>1 DEF Start, EndOf, size
  <1>7. Larger(size, 1) \in Nat /\ 0 < Larger(size, 1) /\ Larger(size, 1) <= Larger(size, 4)
        /\ Larger(size, 4) \in Nat
    BY <1>3, LargerIs
  <1>8. /\ RealEnd \in Nat /\ 0 < RealEnd
        /\ \A f \in FstFiles : f.word \in Nat /\ f.word * Word \in Nat /\ f.word * Word < RealEnd
    BY BeforeRealEnd
  <1>. DEFINE Goal == /\ Start(im, p) \in Nat /\ EndOf(im, p) \in Nat /\ Start(im, p) < EndOf(im, p)
                      /\ IF RealWord(k) # 0
                         THEN EndOf(im, p) <= RealEnd /\ OnRealDisc(p)
                         ELSE /\ Placed[k - 1].next <= Start(im, p) /\ EndOf(im, p) <= Placed[k].next
                              /\ im[p].word # 0
  <1>9. ASSUME RealWord(k) # 0 PROVE Goal
    <2>1. PICK f \in FstFiles : f.path = p /\ f.word = RealWord(k)
      BY <1>1, <1>9, RealWordIs
    <2>2. Placed[k].word = RealWord(k)
      <3>1. Placed[k] = [Placed[k - 1] EXCEPT !.word = RealWord(k)]
        BY <1>4, <1>9 DEF PlaceAfter
      <3>. QED BY <1>4, <3>1 DEF PlaceType
    <2>. DEFINE at == RealWord(k) * Word
    <2>3. at \in Nat /\ at < RealEnd
      BY <1>8, <2>1
    <2>4. at + size <= RealEnd
      <3>1. k \in DOMAIN entries
        BY <1>1
      <3>. QED BY <1>9, <3>1, RealEndIs DEF size
    <2>5. OnRealDisc(p)
      BY <2>1 DEF OnRealDisc, FstFiles
    <2>6. Start(im, p) = at /\ EndOf(im, p) = at + Larger(size, 1)
      BY <1>6, <2>2
    <2>. HIDE DEF at
    <2>7. at + Larger(size, 1) <= RealEnd
      BY <1>3, <1>8, <2>3, <2>4 DEF Larger
    <2>. QED BY <1>7, <1>8, <1>9, <2>3, <2>5, <2>6, <2>7
  <1>10. ASSUME RealWord(k) = 0 PROVE Goal
    <2>. DEFINE next == Placed[k - 1].next
                at == AlignUp(next)
    <2>1. /\ Placed[k].word = at \div Word
          /\ Placed[k].next = at + Larger(size, 4)
      BY <1>4, <1>10 DEF PlaceAfter, size
    <2>2. next \in Nat
      BY <1>4 DEF PlaceType
    <2>. HIDE DEF next
    <2>3. at \in Nat /\ next <= at /\ (at \div Word) * Word = at /\ (at \div Word) \in Nat
      BY <2>2, AlignUpIs
    <2>. HIDE DEF at
    <2>4. Start(im, p) = at /\ EndOf(im, p) = at + Larger(size, 1)
      BY <1>6, <2>1, <2>3
    <2>5. next <= at /\ 0 < at
      BY <1>5, <1>8, <2>2, <2>3 DEF next
    <2>6. (at \div Word) # 0
      BY <2>3, <2>5, SizesAssumption
    <2>7. im[p].word # 0
      BY <1>1, <2>1, <2>6
    <2>8. EndOf(im, p) <= Placed[k].next
      BY <1>7, <2>1, <2>3, <2>4
    <2>. QED BY <1>7, <1>10, <2>3, <2>4, <2>5, <2>7, <2>8 DEF next
  <1>11. Goal
    BY <1>9, <1>10
  <1>. QED BY <1>1, <1>2, <1>11 DEF im, k

\* The ranges of the files that are not on the real disc, in the table of the entries.
Apart(image) ==
    \A p \in {r \in DOMAIN image : ~OnRealDisc(r)} :
        /\ image[p].word # 0
        /\ \A q \in DOMAIN image \ {p} : \/ EndOf(image, p) <= Start(image, q)
                                         \/ EndOf(image, q) <= Start(image, p)

LEMMA ImageApart ==
  ASSUME disc \in Discs, entries \in Seq(EntryType), Placed[Len(entries)].fits,
         FstFiles # {}, TableInOrder(disc), disc.trees # << >> \/ disc.packs # << >>
  PROVE  Apart(Image(Placed))
  <1>. DEFINE im == Image(Placed)
              N == Len(entries)
  <1>1. DOMAIN im = Registered /\ N \in Nat
    BY ImageIs
  <1>2. ASSUME NEW p \in Registered
        PROVE  /\ Latest(p) \in 1 .. N /\ Latest(p) - 1 \in 0 .. N /\ entries[Latest(p)].path = p
               /\ Start(im, p) \in Nat /\ EndOf(im, p) \in Nat /\ Start(im, p) < EndOf(im, p)
               /\ RealWord(Latest(p)) # 0 => EndOf(im, p) <= RealEnd /\ OnRealDisc(p)
               /\ RealWord(Latest(p)) = 0 =>
                    /\ Placed[Latest(p) - 1].next <= Start(im, p)
                    /\ EndOf(im, p) <= Placed[Latest(p)].next
                    /\ im[p].word # 0
    BY RangeOfEntry
  <1>. HIDE DEF im, N
  <1>3. /\ \A k \in 0 .. N : Placed[k].next \in Nat
        /\ Placed[0].next = RealEnd /\ RealEnd \in Nat
    BY PlacedIs, RealEndIs DEF N, PlaceType
  <1>4. \A j \in 0 .. N : \A i \in 0 .. j : Placed[i].next <= Placed[j].next
    BY PlacesRise DEF N
  \* A synthetic range lies after that of every entry before it.
  <1>5. ASSUME NEW p \in Registered, NEW q \in Registered, RealWord(Latest(p)) = 0,
               RealWord(Latest(q)) = 0, Latest(q) < Latest(p)
        PROVE  EndOf(im, q) <= Start(im, p)
    <2>. DEFINE k == Latest(p)
                j == Latest(q)
    <2>1. /\ k \in 1 .. N /\ j \in 1 .. N /\ k - 1 \in 0 .. N /\ j \in 0 .. N
          /\ Placed[k - 1].next <= Start(im, p) /\ EndOf(im, q) <= Placed[j].next
          /\ Start(im, p) \in Nat /\ EndOf(im, q) \in Nat
      BY <1>1, <1>2, <1>5
    <2>2. j < k
      BY <1>5
    <2>. HIDE DEF k, j
    <2>3. j \in 0 .. k - 1
      BY <1>1, <2>1, <2>2
    <2>4. Placed[j].next <= Placed[k - 1].next
      BY <1>4, <2>1, <2>3
    <2>5. Placed[j].next \in Nat /\ Placed[k - 1].next \in Nat
      BY <1>3, <2>1
    <2>. QED BY <2>1, <2>4, <2>5
  <1>6. ASSUME NEW p \in Registered, NEW q \in Registered, RealWord(Latest(p)) = 0,
               RealWord(Latest(q)) # 0
        PROVE  EndOf(im, q) <= Start(im, p)
    <2>. DEFINE k == Latest(p)
    <2>1. /\ k - 1 \in 0 .. N /\ Placed[k - 1].next <= Start(im, p) /\ EndOf(im, q) <= RealEnd
          /\ Start(im, p) \in Nat /\ EndOf(im, q) \in Nat
      BY <1>2, <1>6
    <2>. HIDE DEF k
    <2>2. 0 \in 0 .. k - 1
      BY <1>1, <2>1
    <2>3. Placed[0].next <= Placed[k - 1].next /\ Placed[k - 1].next \in Nat
      BY <1>3, <1>4, <2>1, <2>2
    <2>. QED BY <1>3, <2>1, <2>3
  <1>7. ASSUME NEW p \in Registered, ~OnRealDisc(p), NEW q \in Registered, q # p
        PROVE  EndOf(im, p) <= Start(im, q) \/ EndOf(im, q) <= Start(im, p)
    <2>1. RealWord(Latest(p)) = 0
      BY <1>2, <1>7
    <2>2. Latest(p) # Latest(q) /\ Latest(p) \in Nat /\ Latest(q) \in Nat
      BY <1>1, <1>2, <1>7
    <2>3. CASE RealWord(Latest(q)) # 0
      BY <1>6, <2>1, <2>3
    <2>4. CASE RealWord(Latest(q)) = 0 /\ Latest(q) < Latest(p)
      BY <1>5, <2>1, <2>4
    <2>5. CASE RealWord(Latest(q)) = 0 /\ Latest(p) < Latest(q)
      BY <1>5, <2>1, <2>5
    <2>. QED BY <2>2, <2>3, <2>4, <2>5
  <1>8. ASSUME NEW p \in Registered, ~OnRealDisc(p) PROVE im[p].word # 0
    BY <1>2, <1>8
  <1>. QED BY <1>1, <1>7, <1>8 DEF Apart, im

\* What is known of the tables once they are published, and of the entries of no disc.
ApartInv ==
    /\ stage = "ready" => Apart(files)
    /\ disc.trees = << >> /\ disc.packs = << >> => entries = << >>

LEMMA NoSteps ==
  ASSUME LoadedOverlays, disc.trees = << >>, disc.packs = << >>
  PROVE  AllSteps = {}
  <1>1. Len(overlays) = 0
    BY MappingsSeq
  <1>2. Mappings(0) = << >>
    BY DEF Mappings
  <1>3. \A i \in 0 .. Len(overlays) : i = 0
    BY <1>1
  <1>. QED BY <1>2, <1>3 DEF AllSteps

LEMMA ApartInvNext ==
  ASSUME IndexInv, ApartInv, \A d \in Discs : TableInOrder(d), [Next]_vars
  PROVE  ApartInv'
  <1>1. LoadedOverlays /\ LayingOut /\ entries \in Seq(EntryType) /\ disc \in Discs
    BY DEF IndexInv, LoadedOverlays
  <1>2. CASE Listing
    <2>1. /\ disc' = disc /\ files' = files
      BY <1>2, ListingKeeps
    <2>2. stage' = "ready" => stage = "ready"
      BY <1>2 DEF Listing, PrescanDisc, DVDInit, Visit, NextMapping, ListingStops,
                  FastListingFails, PrescanEnds
    <2>3. Apart(files) => Apart(files)'
      BY <2>1 DEF Apart, OnRealDisc, Start, EndOf
    <2>4. ASSUME disc.trees = << >>, disc.packs = << >> PROVE entries' = << >>
      <3>1. entries = << >> /\ AllSteps = {}
        BY <1>1, <2>4, NoSteps DEF ApartInv
      <3>2. pending = << >>
        BY <1>1, <3>1 DEF LayingOut
      <3>3. ~Visit
        BY <1>1, <3>2 DEF Visit, LayingOut
      <3>. QED BY <1>2, <3>1, <3>3 DEF Listing, PrescanDisc, DVDInit, NextMapping, ListingStops,
                                       FastListingFails, PrescanEnds
    <2>. QED BY <2>1, <2>2, <2>3, <2>4 DEF ApartInv
  <1>3. CASE BuildAndPublishRuntimeFst
    <2>1. disc' = disc
      BY <1>3 DEF BuildAndPublishRuntimeFst
    <2>2. \/ stage' = "failed" /\ entries' = entries
          \/ /\ Placed[Len(entries)].fits /\ stage' = "ready" /\ files' = Image(Placed)
             /\ entries' = << >>
      BY <1>3 DEF BuildAndPublishRuntimeFst
    <2>3. CASE stage' = "failed" /\ entries' = entries
      BY <2>1, <2>3 DEF ApartInv
    <2>4. CASE /\ Placed[Len(entries)].fits /\ stage' = "ready" /\ files' = Image(Placed)
               /\ entries' = << >>
      <3>1. Apart(Image(Placed))
        <4>1. CASE disc.trees = << >> /\ disc.packs = << >>
          <5>1. Registered = {}
            BY <4>1 DEF ApartInv, Registered
          <5>2. DOMAIN Image(Placed) = {}
            BY <5>1 DEF Image
          <5>. QED BY <5>2 DEF Apart
        <4>2. CASE ~(disc.trees = << >> /\ disc.packs = << >>)
          <5>1. TableInOrder(disc) /\ FstFiles # {}
            BY <1>1, <4>2 DEF TableInOrder, FstFiles
          <5>. QED BY <1>1, <2>4, <4>2, <5>1, ImageApart
        <4>. QED BY <4>1, <4>2
      <3>. DEFINE im == Image(Placed)
      <3>2. files' = im /\ Apart(im)
        BY <2>4, <3>1
      <3>. HIDE DEF im
      <3>3. Apart(files)'
        BY <2>1, <3>2 DEF Apart, OnRealDisc, Start, EndOf
      <3>. QED BY <2>4, <3>3 DEF ApartInv
    <2>. QED BY <2>2, <2>3, <2>4
  <1>4. CASE Reading \/ HostChanges \/ UNCHANGED vars
    <2>1. UNCHANGED <<disc, overlays, index>>
      BY <1>4, ReadingKeeps DEF HostChanges, vars
    <2>2. disc' = disc /\ files' = files /\ stage' = stage /\ entries' = entries
      BY <2>1 DEF index
    <2>3. Apart(files) => Apart(files)'
      BY <2>2 DEF Apart, OnRealDisc, Start, EndOf
    <2>. QED BY <2>2, <2>3 DEF ApartInv
  <1>. QED BY <1>2, <1>3, <1>4, NextIs

LEMMA ApartIs ==
  ASSUME IndexInv, ApartInv
  PROVE  SyntheticApart
  <1>1. ImageType(files) /\ ExtentsOf(files, extents)
    BY DEF IndexInv
  <1>2. SUFFICES ASSUME stage = "ready", NEW p \in DOMAIN files, ~OnRealDisc(p)
                 PROVE  /\ Found(Start(files, p)) # {} /\ extents[Start(files, p)] = p
                        /\ \A q \in DOMAIN files \ {p} :
                            \/ EndOf(files, p) <= Start(files, q)
                            \/ EndOf(files, q) <= Start(files, p)
    BY DEF SyntheticApart, Idle
  <1>3. /\ files[p].word # 0
        /\ \A q \in DOMAIN files \ {p} : \/ EndOf(files, p) <= Start(files, q)
                                         \/ EndOf(files, q) <= Start(files, p)
    BY <1>2 DEF ApartInv, Apart
  <1>4. ASSUME NEW q \in DOMAIN files
        PROVE  Start(files, q) \in Nat /\ EndOf(files, q) \in Nat /\ Start(files, q) < EndOf(files, q)
    <2>1. files[q].word \in Nat /\ files[q].host \in Host
      BY <1>1, SizesAssumption DEF ImageType
    <2>2. Start(files, q) \in Nat
      BY <2>1, SizesAssumption DEF Start
    <2>3. Larger(FileSize[files[q].host], 1) \in Nat /\ 0 < Larger(FileSize[files[q].host], 1)
      BY <2>1, SizesAssumption DEF Larger
    <2>. QED BY <2>2, <2>3 DEF EndOf
  <1>. DEFINE s == Start(files, p)
              q == extents[s]
  <1>5. s \in DOMAIN extents
    BY <1>1, <1>3 DEF ExtentsOf, Starts
  <1>6. q \in DOMAIN files /\ Start(files, q) = s
    BY <1>1, <1>5 DEF ExtentsOf
  <1>7. q = p
    <2>1. CASE q # p
      <3>1. EndOf(files, p) <= Start(files, q) \/ EndOf(files, q) <= Start(files, p)
        BY <1>3, <1>6, <2>1
      <3>. HIDE DEF q
      <3>. QED BY <1>4, <1>6, <3>1
    <2>. QED BY <2>1
  <1>8. Found(s) = {s}
    <2>1. s \in Nat /\ s < EndOf(files, extents[s]) /\ s <= s
      BY <1>4, <1>7
    <2>2. \A t \in DOMAIN extents : extents[t] \in DOMAIN files /\ Start(files, extents[t]) = t
      BY <1>1 DEF ExtentsOf
    <2>. HIDE DEF s
    <2>. QED BY <1>1, <1>5, <2>1, <2>2, FoundIs
  <1>. QED BY <1>3, <1>7, <1>8

\* Where the disc's own table is in order, no range that a mod's file is given meets another's.
THEOREM SyntheticRangesApart ==
  ASSUME \A d \in Discs : TableInOrder(d)
  PROVE  Spec => []SyntheticApart
  <1>1. Init => ApartInv
    BY DEF Init, ApartInv
  <1>2. IndexInv /\ ApartInv /\ [Next]_vars => ApartInv'
    BY ApartInvNext
  <1>3. IndexInv /\ ApartInv => SyntheticApart
    BY ApartIs
  <1>. QED BY <1>1, <1>2, <1>3, IndexInvariant, PTL DEF Spec

-----------------------------------------------------------------------------
(* The index as a drive.                                                   *)

\* Every file of a table has a word of its own.
OwnWords(image) ==
    /\ \A p \in DOMAIN image : image[p].word # 0
    /\ \A p, q \in DOMAIN image : image[p].word = image[q].word => p = q

LEMMA ImageOwnWords ==
  ASSUME disc \in Discs, entries \in Seq(EntryType), Placed[Len(entries)].fits,
         FstFiles # {}, TableInOrder(disc), disc.trees # << >> \/ disc.packs # << >>,
         WordsApart(disc)
  PROVE  OwnWords(Image(Placed))
  <1>. DEFINE im == Image(Placed)
              N == Len(entries)
  <1>1. DOMAIN im = Registered /\ N \in Nat
    BY ImageIs
  <1>2. ASSUME NEW p \in Registered
        PROVE  /\ Latest(p) \in 1 .. N /\ Latest(p) - 1 \in 0 .. N /\ entries[Latest(p)].path = p
               /\ Start(im, p) \in Nat /\ EndOf(im, p) \in Nat /\ Start(im, p) < EndOf(im, p)
               /\ RealWord(Latest(p)) # 0 => EndOf(im, p) <= RealEnd /\ OnRealDisc(p)
               /\ RealWord(Latest(p)) = 0 =>
                    /\ Placed[Latest(p) - 1].next <= Start(im, p)
                    /\ EndOf(im, p) <= Placed[Latest(p)].next
                    /\ im[p].word # 0
    BY RangeOfEntry
  <1>3. ASSUME NEW p \in Registered PROVE im[p].word = Placed[Latest(p)].word
    BY ImageIs
  <1>4. ASSUME NEW p \in Registered, RealWord(Latest(p)) # 0
        PROVE  im[p].word = RealWord(Latest(p))
    <2>. DEFINE k == Latest(p)
    <2>1. k \in 1 .. N /\ k - 1 \in 0 .. N
      BY <1>2
    <2>. HIDE DEF k
    <2>2. Placed[k - 1] \in PlaceType /\ Placed[k] = PlaceAfter(Placed[k - 1], k)
      BY <2>1, PlacedIs
    <2>3. Placed[k] = [Placed[k - 1] EXCEPT !.word = RealWord(k)]
      BY <1>4, <2>2 DEF PlaceAfter, k
    <2>4. Placed[k].word = RealWord(k)
      BY <2>2, <2>3 DEF PlaceType
    <2>. QED BY <1>3, <2>4 DEF k
  <1>. HIDE DEF im, N
  <1>5. /\ \A k \in 0 .. N : Placed[k].next \in Nat
        /\ Placed[0].next = RealEnd /\ RealEnd \in Nat
    BY PlacedIs, RealEndIs DEF N, PlaceType
  <1>6. \A j \in 0 .. N : \A i \in 0 .. j : Placed[i].next <= Placed[j].next
    BY PlacesRise DEF N
  \* Two files that start together.
  <1>7. ASSUME NEW p \in Registered, NEW q \in Registered, Start(im, p) = Start(im, q)
        PROVE  ~(RealWord(Latest(p)) = 0 /\ Latest(q) < Latest(p))
    <2>. SUFFICES ASSUME RealWord(Latest(p)) = 0, Latest(q) < Latest(p) PROVE FALSE
      OBVIOUS
    <2>. DEFINE k == Latest(p)
                j == Latest(q)
    <2>1. /\ k \in 1 .. N /\ j \in 1 .. N /\ k - 1 \in 0 .. N /\ j \in 0 .. N /\ j < k
          /\ Placed[k - 1].next <= Start(im, p)
          /\ Start(im, p) \in Nat /\ EndOf(im, q) \in Nat /\ Start(im, q) < EndOf(im, q)
          /\ RealWord(j) # 0 => EndOf(im, q) <= RealEnd
          /\ RealWord(j) = 0 => EndOf(im, q) <= Placed[j].next
      BY <1>1, <1>2
    <2>. HIDE DEF k, j
    <2>2. j \in 0 .. k - 1 /\ 0 \in 0 .. k - 1
      BY <1>1, <2>1
    <2>3. Placed[j].next <= Placed[k - 1].next /\ RealEnd <= Placed[k - 1].next
      BY <1>5, <1>6, <2>1, <2>2
    <2>4. Placed[j].next \in Nat /\ Placed[k - 1].next \in Nat /\ RealEnd \in Nat
      BY <1>5, <2>1
    <2>5. EndOf(im, q) <= Placed[k - 1].next
      BY <2>1, <2>3, <2>4
    <2>. QED BY <1>7, <2>1, <2>4, <2>5
  <1>8. ASSUME NEW p \in Registered, NEW q \in Registered, Start(im, p) = Start(im, q)
        PROVE  ~(RealWord(Latest(p)) = 0 /\ RealWord(Latest(q)) # 0)
    <2>. SUFFICES ASSUME RealWord(Latest(p)) = 0, RealWord(Latest(q)) # 0 PROVE FALSE
      OBVIOUS
    <2>. DEFINE k == Latest(p)
    <2>1. /\ k \in 1 .. N /\ k - 1 \in 0 .. N /\ Placed[k - 1].next <= Start(im, p)
          /\ Start(im, p) \in Nat /\ EndOf(im, q) \in Nat /\ Start(im, q) < EndOf(im, q)
          /\ EndOf(im, q) <= RealEnd
      BY <1>2
    <2>. HIDE DEF k
    <2>2. 0 \in 0 .. k - 1
      BY <1>1, <2>1
    <2>3. RealEnd <= Placed[k - 1].next /\ Placed[k - 1].next \in Nat
      BY <1>5, <1>6, <2>1, <2>2
    <2>. QED BY <1>5, <1>8, <2>1, <2>3
  <1>9. ASSUME NEW p \in Registered, NEW q \in Registered, im[p].word = im[q].word
        PROVE  p = q
    <2>1. Start(im, p) = Start(im, q)
      BY <1>9 DEF Start
    <2>2. Latest(p) \in Nat /\ Latest(q) \in Nat /\ entries[Latest(p)].path = p
          /\ entries[Latest(q)].path = q
      BY <1>1, <1>2
    <2>3. CASE RealWord(Latest(p)) = 0
      <3>1. RealWord(Latest(q)) = 0
        BY <1>8, <2>1, <2>3
      <3>2. Latest(p) = Latest(q)
        <4>1. ~(Latest(q) < Latest(p)) /\ ~(Latest(p) < Latest(q))
          BY <1>7, <2>1, <2>3, <3>1
        <4>. QED BY <2>2, <4>1
      <3>. QED BY <2>2, <3>2
    <2>4. CASE RealWord(Latest(p)) # 0
      <3>1. RealWord(Latest(q)) # 0
        BY <1>8, <2>1, <2>4
      <3>2. RealWord(Latest(p)) = RealWord(Latest(q))
        BY <1>4, <1>9, <2>4, <3>1
      <3>3. PICK f \in FstFiles : f.path = p /\ f.word = RealWord(Latest(p))
        BY <2>2, <2>4, RealWordIs
      <3>4. PICK g \in FstFiles : g.path = q /\ g.word = RealWord(Latest(q))
        BY <2>2, <3>1, RealWordIs
      <3>. QED BY <2>4, <3>2, <3>3, <3>4 DEF WordsApart, FstFiles
    <2>. QED BY <2>3, <2>4
  <1>10. ASSUME NEW p \in Registered PROVE im[p].word # 0
    <2>1. CASE RealWord(Latest(p)) = 0
      BY <1>2, <2>1
    <2>2. CASE RealWord(Latest(p)) # 0
      BY <1>4, <2>2
    <2>. QED BY <2>1, <2>2
  <1>. QED BY <1>1, <1>9, <1>10 DEF OwnWords, im

DriveInv ==
    /\ stage = "ready" => pending = << >> /\ OwnWords(files)
    /\ reply # << >> => stage = "ready"
    /\ \A h \in Host : FileSize[h] <= host[h].size + 1

LEMMA DriveInvNext ==
  ASSUME IndexInv, ApartInv, DriveInv, \A d \in Discs : TableInOrder(d) /\ WordsApart(d),
         [Next]_vars
  PROVE  DriveInv'
  <1>1. LoadedOverlays /\ LayingOut /\ entries \in Seq(EntryType) /\ disc \in Discs
    BY DEF IndexInv, LoadedOverlays
  <1>2. CASE Listing
    <2>1. files' = files /\ host' = host /\ reply' = reply
      BY <1>2, ListingKeeps
    <2>2. stage' = "ready" => stage = "ready"
      BY <1>2 DEF Listing, PrescanDisc, DVDInit, Visit, NextMapping, ListingStops,
                  FastListingFails, PrescanEnds
    <2>3. stage = "ready" => stage' = "ready" /\ pending' = pending
      <3>1. ASSUME stage = "ready" PROVE stage' = "ready" /\ pending' = pending
        <4>1. pending = << >>
          BY <3>1 DEF DriveInv
        <4>. QED BY <1>2, <3>1, <4>1 DEF Listing, PrescanDisc, DVDInit, Visit, NextMapping,
                    ListingStops, FastListingFails, PrescanEnds
      <3>. QED BY <3>1
    <2>. QED BY <2>1, <2>2, <2>3 DEF DriveInv, OwnWords
  <1>3. CASE BuildAndPublishRuntimeFst
    <2>1. host' = host /\ reply' = reply /\ pending' = pending /\ pending = << >> /\ stage = "scan"
      BY <1>3 DEF BuildAndPublishRuntimeFst
    <2>2. \/ stage' = "failed"
          \/ Placed[Len(entries)].fits /\ stage' = "ready" /\ files' = Image(Placed)
      BY <1>3 DEF BuildAndPublishRuntimeFst
    <2>3. CASE stage' = "failed"
      BY <2>1, <2>3 DEF DriveInv
    <2>4. CASE Placed[Len(entries)].fits /\ stage' = "ready" /\ files' = Image(Placed)
      <3>1. OwnWords(Image(Placed))
        <4>1. CASE disc.trees = << >> /\ disc.packs = << >>
          <5>1. Registered = {}
            BY <4>1 DEF ApartInv, Registered
          <5>2. DOMAIN Image(Placed) = {}
            BY <5>1 DEF Image
          <5>. QED BY <5>2 DEF OwnWords
        <4>2. CASE ~(disc.trees = << >> /\ disc.packs = << >>)
          <5>1. TableInOrder(disc) /\ FstFiles # {} /\ WordsApart(disc)
            BY <1>1, <4>2 DEF TableInOrder, FstFiles
          <5>. QED BY <1>1, <2>4, <4>2, <5>1, ImageOwnWords
        <4>. QED BY <4>1, <4>2
      <3>. DEFINE im == Image(Placed)
      <3>2. files' = im /\ OwnWords(im)
        BY <2>4, <3>1
      <3>. HIDE DEF im
      <3>. QED BY <2>1, <2>4, <3>2 DEF DriveInv, OwnWords
    <2>. QED BY <2>2, <2>3, <2>4
  <1>4. CASE Reading
    <2>1. UNCHANGED <<disc, overlays, index, host>>
      BY <1>4, ReadingKeeps
    <2>2. reply' # << >> => stage = "ready"
      BY <1>4 DEF Reading, ReadFile, ReadInsideFile, ReadAbsAsyncPrio, DVDLowRead, GoesOn, Idle
    <2>. QED BY <2>1, <2>2 DEF DriveInv, OwnWords, index
  <1>5. CASE HostChanges
    <2>1. UNCHANGED <<disc, overlays, index, open, reply>>
      BY <1>5 DEF HostChanges
    <2>2. ASSUME NEW g \in Host PROVE FileSize[g] <= host'[g].size + 1
      <3>1. PICK h \in Fragile :
            /\ host[h].there
            /\ \/ host[h].size = FileSize[h] /\ FileSize[h] > 0
                  /\ host' = [host EXCEPT ![h].size = @ - 1]
               \/ host' = [host EXCEPT ![h].there = FALSE]
        BY <1>5 DEF HostChanges
      <3>2. /\ host \in [Host -> [there : BOOLEAN, size : Nat]] /\ FileSize[g] \in Nat
            /\ FileSize[g] <= host[g].size + 1 /\ h \in Host
        BY ReadsAssumption, SizesAssumption DEF IndexInv, HostType, DriveInv
      <3>3. CASE g # h
        <4>1. host'[g] = host[g]
          BY <3>1, <3>2, <3>3
        <4>. QED BY <3>2, <4>1
      <3>4. CASE g = h
        <4>1. host[g] \in [there : BOOLEAN, size : Nat]
          BY <3>2
        <4>2. \/ host[g].size = FileSize[g] /\ host'[g].size = host[g].size - 1
              \/ host'[g].size = host[g].size
          BY <3>1, <3>2, <3>4, <4>1
        <4>. QED BY <3>2, <4>1, <4>2
      <3>. QED BY <3>3, <3>4
    <2>. QED BY <2>1, <2>2 DEF DriveInv, OwnWords, index
  <1>6. CASE UNCHANGED vars
    BY <1>6 DEF DriveInv, OwnWords, vars, index
  <1>. QED BY <1>2, <1>3, <1>4, <1>5, <1>6, NextIs

LEMMA DriveInvInit ==
  ASSUME Init
  PROVE  DriveInv
  <1>1. \A h \in Host : host[h].size = FileSize[h] /\ FileSize[h] \in Nat
    BY SizesAssumption DEF Init
  <1>. QED BY <1>1 DEF Init, DriveInv

\* What Drive sees of the index.
DriveContents == IF stage = "ready" THEN [p \in DOMAIN files |-> files[p].host]
            ELSE [p \in Registered |-> entries[Latest(p)].host]
Seen == <<stage = "ready", DriveContents, host, reply>>

LEMMA SeenStutters ==
  ASSUME UNCHANGED Seen
  PROVE  UNCHANGED D!vars
  BY DEF Seen, DriveContents, D!vars

LEMMA DriveInit ==
  ASSUME Init
  PROVE  D!Init
  <1>1. stage = "off" /\ entries = << >> /\ reply = << >>
    BY DEF Init
  <1>2. Registered = {}
    BY <1>1 DEF Registered
  <1>3. [p \in Registered |-> entries[Latest(p)].host] = << >>
    BY <1>2
  <1>. QED BY <1>1, <1>3 DEF D!Init

\* Whether there are entries of a path, and the last of them.
Names(e, p) == \E k \in DOMAIN e : e[k].path = p
LastIn(e, p) == MaxIn({k \in DOMAIN e : e[k].path = p})

LEMMA LastOf ==
  ASSUME NEW e \in Seq(EntryType), NEW p, Names(e, p)
  PROVE  /\ LastIn(e, p) \in DOMAIN e /\ e[LastIn(e, p)].path = p
         /\ \A k \in DOMAIN e : e[k].path = p => k <= LastIn(e, p)
  <1>. DEFINE S == {k \in DOMAIN e : e[k].path = p}
  <1>1. DOMAIN e = 1 .. Len(e) /\ Len(e) \in Nat
    OBVIOUS
  <1>2. S # {} /\ S \in SUBSET Nat /\ \A k \in S : k <= Len(e)
    BY <1>1 DEF Names
  <1>3. MaxIn(S) \in S /\ \A k \in S : k <= MaxIn(S)
    <2>. HIDE DEF S
    <2>. QED BY <1>1, <1>2, Greatest
  <1>. QED BY <1>3 DEF LastIn

\* Entries of one host file take the place of what was at their paths.
LEMMA LastAfter ==
  ASSUME NEW e \in Seq(EntryType), NEW a \in Seq(EntryType), NEW h,
         \A k \in DOMAIN a : a[k].host = h, NEW p
  PROVE  /\ Names(e \o a, p) <=> Names(e, p) \/ Names(a, p)
         /\ Names(a, p) => (e \o a)[LastIn(e \o a, p)].host = h
         /\ Names(e, p) /\ ~Names(a, p) => (e \o a)[LastIn(e \o a, p)].host = e[LastIn(e, p)].host
  <1>. DEFINE c == e \o a
  <1>1. /\ c \in Seq(EntryType) /\ Len(c) = Len(e) + Len(a) /\ Len(e) \in Nat /\ Len(a) \in Nat
        /\ DOMAIN c = 1 .. Len(e) + Len(a) /\ DOMAIN e = 1 .. Len(e) /\ DOMAIN a = 1 .. Len(a)
    BY ConcatProperties
  <1>2. /\ \A i \in 1 .. Len(e) : c[i] = e[i] /\ i \in DOMAIN c
        /\ \A i \in 1 .. Len(a) : c[Len(e) + i] = a[i] /\ Len(e) + i \in DOMAIN c
        /\ \A k \in DOMAIN c : k \in 1 .. Len(e) \/ \E i \in 1 .. Len(a) : k = Len(e) + i
    <2>1. \A i \in 1 .. Len(e) : c[i] = e[i] /\ i \in DOMAIN c
      BY <1>1, ConcatProperties
    <2>2. ASSUME NEW i \in 1 .. Len(a) PROVE c[Len(e) + i] = a[i] /\ Len(e) + i \in DOMAIN c
      <3>. DEFINE k == Len(e) + i
      <3>1. k \in 1 .. Len(e) + Len(a) /\ k > Len(e) /\ k - Len(e) = i
        BY <1>1
      <3>. QED BY <1>1, <3>1, ConcatProperties
    <2>3. ASSUME NEW k \in DOMAIN c
          PROVE  k \in 1 .. Len(e) \/ \E i \in 1 .. Len(a) : k = Len(e) + i
      <3>1. CASE k > Len(e)
        <4>1. k - Len(e) \in 1 .. Len(a) /\ k = Len(e) + (k - Len(e))
          BY <1>1, <3>1
        <4>. QED BY <4>1
      <3>2. CASE k <= Len(e)
        BY <1>1, <3>2
      <3>. QED BY <1>1, <3>1, <3>2
    <2>. QED BY <2>1, <2>2, <2>3
  <1>. HIDE DEF c
  <1>3. Names(c, p) <=> Names(e, p) \/ Names(a, p)
    <2>1. ASSUME NEW k \in DOMAIN c, c[k].path = p PROVE Names(e, p) \/ Names(a, p)
      <3>1. CASE k \in 1 .. Len(e)
        BY <1>1, <1>2, <2>1, <3>1 DEF Names
      <3>2. ASSUME NEW i \in 1 .. Len(a), k = Len(e) + i PROVE Names(a, p)
        <4>1. a[i].path = p /\ i \in DOMAIN a
          BY <1>1, <1>2, <2>1, <3>2
        <4>. QED BY <4>1 DEF Names
      <3>. QED BY <1>2, <3>1, <3>2
    <2>2. Names(e, p) => Names(c, p)
      BY <1>1, <1>2 DEF Names
    <2>3. Names(a, p) => Names(c, p)
      BY <1>1, <1>2 DEF Names
    <2>. QED BY <2>1, <2>2, <2>3 DEF Names
  <1>4. ASSUME Names(c, p)
        PROVE  LastIn(c, p) \in DOMAIN c /\ c[LastIn(c, p)].path = p
               /\ \A k \in DOMAIN c : c[k].path = p => k <= LastIn(c, p)
    BY <1>1, <1>4, LastOf
  <1>5. ASSUME Names(e, p)
        PROVE  LastIn(e, p) \in DOMAIN e /\ e[LastIn(e, p)].path = p
               /\ \A k \in DOMAIN e : e[k].path = p => k <= LastIn(e, p)
    BY <1>5, LastOf
  <1>6. ASSUME Names(a, p) PROVE c[LastIn(c, p)].host = h
    <2>1. PICK i \in 1 .. Len(a) : a[i].path = p
      BY <1>1, <1>6 DEF Names
    <2>2. Len(e) + i \in DOMAIN c /\ c[Len(e) + i].path = p
      BY <1>2, <2>1
    <2>3. LastIn(c, p) \in DOMAIN c /\ Len(e) + i <= LastIn(c, p)
      BY <1>3, <1>4, <1>6, <2>2
    <2>4. LastIn(c, p) \notin 1 .. Len(e)
      BY <1>1, <2>3
    <2>5. PICK j \in 1 .. Len(a) : LastIn(c, p) = Len(e) + j
      BY <1>2, <2>3, <2>4
    <2>. QED BY <1>1, <1>2, <2>5
  <1>7. ASSUME Names(e, p), ~Names(a, p) PROVE c[LastIn(c, p)].host = e[LastIn(e, p)].host
    <2>1. LastIn(c, p) \in DOMAIN c /\ c[LastIn(c, p)].path = p /\ LastIn(e, p) \in DOMAIN e
          /\ e[LastIn(e, p)].path = p
      BY <1>3, <1>4, <1>5, <1>7
    <2>2. LastIn(c, p) \in 1 .. Len(e)
      BY <1>1, <1>2, <1>7, <2>1 DEF Names
    <2>3. LastIn(c, p) <= LastIn(e, p)
      BY <1>1, <1>2, <1>5, <1>7, <2>1, <2>2
    <2>4. LastIn(e, p) <= LastIn(c, p)
      BY <1>1, <1>2, <1>3, <1>4, <1>7, <2>1
    <2>5. LastIn(c, p) = LastIn(e, p)
      BY <1>1, <2>1, <2>2, <2>3, <2>4
    <2>. QED BY <1>2, <2>2, <2>5
  <1>. QED BY <1>3, <1>6, <1>7 DEF c

LEMMA DriveVisit ==
  ASSUME IndexInv, DriveInv, Visit
  PROVE  D!Put
  <1>1. PICK file \in left :
            LET paths == IF host[file.host].there
                         THEN Targets(Mapping(Head(pending)), file) ELSE << >>
            IN  /\ left' = left \ {file}
                /\ entries' = entries \o [k \in DOMAIN paths |->
                                            [path |-> paths[k], host |-> file.host]]
    BY DEF Visit
  <1>. DEFINE paths == IF host[file.host].there
                       THEN Targets(Mapping(Head(pending)), file) ELSE << >>
              h == file.host
              added == [k \in DOMAIN paths |-> [path |-> paths[k], host |-> h]]
  <1>2. stage' = stage /\ host' = host /\ reply' = reply
    BY DEF Visit
  <1>3. /\ LoadedOverlays /\ LayingOut /\ entries \in Seq(EntryType) /\ known \in 0 .. Len(entries)
    BY DEF IndexInv
  <1>4. paths \in Seq(Path) /\ h \in Host /\ stage # "ready"
    BY <1>3, TargetsSeq DEF DriveInv
  <1>5. entries' = entries \o added
    BY <1>1
  <1>. HIDE DEF paths, h
  <1>6. /\ added \in Seq(EntryType)
        /\ \A k \in DOMAIN added : added[k].host = h
        /\ \A p : (\E k \in DOMAIN added : added[k].path = p) <=> p \in Range(paths)
    <2>1. DOMAIN paths = 1 .. Len(paths) /\ Len(paths) \in Nat
      BY <1>4
    <2>2. \A k \in 1 .. Len(paths) : [path |-> paths[k], host |-> h] \in EntryType
      BY <1>4 DEF EntryType
    <2>3. added \in Seq(EntryType)
      BY <2>1, <2>2
    <2>. QED BY <2>3 DEF Range
  <1>7. Range(paths) \in SUBSET Path
    BY <1>4, RangeOfSeq
  <1>. HIDE DEF added
  <1>. DEFINE Before == [p \in Registered |-> entries[Latest(p)].host]
  <1>8. [p \in Registered |-> entries[Latest(p)].host]'
            = [p \in DOMAIN Before \cup Range(paths) |-> IF p \in Range(paths) THEN h ELSE Before[p]]
    <2>. DEFINE e == entries \o added
    <2>1. [p \in Registered |-> entries[Latest(p)].host]'
            = [p \in {e[k].path : k \in DOMAIN e} |-> e[LastIn(e, p)].host]
      BY <1>5 DEF Registered, Latest, LastIn
    <2>2. \A p : p \in {e[k].path : k \in DOMAIN e} <=> Names(e, p)
      BY DEF Names
    <2>3. \A p : p \in Registered <=> Names(entries, p)
      BY DEF Registered, Names
    <2>4. \A p \in Registered : Before[p] = entries[LastIn(entries, p)].host
      BY DEF Latest, LastIn
    <2>5. ASSUME NEW p
          PROVE  /\ Names(e, p) <=> Names(entries, p) \/ Names(added, p)
                 /\ Names(added, p) => e[LastIn(e, p)].host = h
                 /\ Names(entries, p) /\ ~Names(added, p) => e[LastIn(e, p)].host = entries[LastIn(entries, p)].host
      BY <1>3, <1>6, LastAfter
    <2>6. \A p : Names(added, p) <=> p \in Range(paths)
      BY <1>6 DEF Names
    <2>7. DOMAIN Before = Registered
      OBVIOUS
    <2>. HIDE DEF e, Before
    <2>. QED BY <2>1, <2>2, <2>3, <2>4, <2>5, <2>6, <2>7
  <1>9. (IF stage = "ready" THEN [p \in DOMAIN files |-> files[p].host]
         ELSE [p \in Registered |-> entries[Latest(p)].host]) = Before
    BY <1>4
  <1>10. (IF stage = "ready" THEN [p \in DOMAIN files |-> files[p].host]
          ELSE [p \in Registered |-> entries[Latest(p)].host])'
            = [p \in DOMAIN Before \cup Range(paths) |-> IF p \in Range(paths) THEN h ELSE Before[p]]
    BY <1>2, <1>4, <1>8
  <1>. HIDE DEF Before
  <1>. QED BY <1>2, <1>4, <1>7, <1>9, <1>10 DEF D!Put

LEMMA DriveListing ==
  ASSUME IndexInv, DriveInv, Listing
  PROVE  D!Next \/ UNCHANGED D!vars
  <1>1. host' = host /\ reply' = reply /\ files' = files
    BY ListingKeeps
  <1>2. CASE Visit
    BY <1>2, DriveVisit DEF D!Next
  <1>3. CASE FastListingFails
    <2>1. entries' = << >> /\ stage # "ready" /\ stage' = stage
      BY <1>3 DEF FastListingFails
    <2>2. Registered' = {}
      BY <2>1 DEF Registered
    <2>3. [p \in Registered |-> entries[Latest(p)].host]' = << >>
      BY <2>2
    <2>4. D!Empty
      BY <1>1, <2>1, <2>3 DEF D!Empty
    <2>. QED BY <2>4 DEF D!Next
  <1>4. CASE Listing /\ ~Visit /\ ~FastListingFails
    <2>1. entries' = entries
      BY <1>4 DEF Listing, PrescanDisc, DVDInit, NextMapping, ListingStops, PrescanEnds
    <2>2. (stage = "ready")' = (stage = "ready")
      BY <1>4 DEF Listing, PrescanDisc, DVDInit, NextMapping, ListingStops, PrescanEnds
    <2>3. [p \in Registered |-> entries[Latest(p)].host]' = [p \in Registered |-> entries[Latest(p)].host]
      BY <2>1 DEF Registered, Latest
    <2>4. DriveContents' = DriveContents
      BY <1>1, <2>2, <2>3 DEF DriveContents
    <2>. QED BY <1>1, <2>2, <2>4, SeenStutters DEF Seen
  <1>. QED BY <1>2, <1>3, <1>4

LEMMA DrivePublish ==
  ASSUME IndexInv, BuildAndPublishRuntimeFst
  PROVE  D!Next \/ UNCHANGED D!vars
  <1>1. host' = host /\ reply' = reply /\ stage = "scan"
    BY DEF BuildAndPublishRuntimeFst
  <1>2. \/ stage' = "failed" /\ entries' = entries /\ files' = files
        \/ /\ Placed[Len(entries)].fits /\ stage' = "ready" /\ files' = Image(Placed)
           /\ entries' = << >>
    BY DEF BuildAndPublishRuntimeFst
  <1>3. CASE stage' = "failed" /\ entries' = entries /\ files' = files
    <2>1. DriveContents' = DriveContents
      BY <1>1, <1>3 DEF DriveContents, Registered, Latest
    <2>. QED BY <1>1, <1>3, <2>1, SeenStutters DEF Seen
  <1>4. CASE /\ Placed[Len(entries)].fits /\ stage' = "ready" /\ files' = Image(Placed)
             /\ entries' = << >>
    <2>1. /\ DOMAIN Image(Placed) = Registered
          /\ \A p \in Registered : Image(Placed)[p].host = entries[Latest(p)].host
      BY <1>4, ImageIs DEF IndexInv, LoadedOverlays
    <2>2. [p \in DOMAIN files' |-> files'[p].host] = [p \in Registered |-> entries[Latest(p)].host]
      BY <1>4, <2>1
    <2>3. D!Mount
      BY <1>1, <1>4, <2>2 DEF D!Mount
    <2>. QED BY <2>3 DEF D!Next
  <1>. QED BY <1>2, <1>3, <1>4

\* While the disc is mounted, what Drive sees of it is the files' hosts.
LEMMA ReadingSeen ==
  ASSUME IndexInv, Reading, stage = "ready"
  PROVE  /\ DriveContents = [p \in DOMAIN files |-> files[p].host]
         /\ DriveContents' = DriveContents /\ stage' = "ready" /\ host' = host
  <1>1. UNCHANGED <<disc, overlays, index, host>>
    BY ReadingKeeps
  <1>. QED BY <1>1 DEF DriveContents, index, Registered, Latest

\* A read that delivers does so of a file that is there.
LEMMA HandleReads ==
  ASSUME IndexInv, DriveInv, NEW asked, asked.length \in Int, asked.offset \in Int,
         NEW word \in Nat, NEW inMemory \in BOOLEAN, ReadHandle(asked, word, inMemory)
  PROVE  \/ Found(word * Word) = {} /\ Ended(asked, "fatal", Nothing)
         \/ \E s \in Found(word * Word) :
                LET h == files[extents[s]].host
                    from == word * Word - s + asked.offset
                    bytes == Least(asked.length, FileSize[h] - from)
                IN  \/ /\ \/ asked.offset < 0 \/ asked.length < 0
                          \/ from >= FileSize[h]
                          \/ bytes # 0 /\ ~inMemory
                       /\ Ended(asked, "fatal", Nothing)
                    \/ /\ asked.offset >= 0 /\ asked.length >= 0 /\ from < FileSize[h]
                       /\ bytes = 0 \/ inMemory
                       /\ \/ /\ host[h].size >= from + bytes
                             /\ Delivers(asked, h, from, bytes)
                          \/ /\ ~host[h].there \/ host[h].size < from + bytes
                             /\ Ended(asked, "fatal", Nothing)
  <1>. DEFINE found == Found(word * Word)
              start == CHOOSE s \in found : TRUE
              h == files[extents[start]].host
              from == word * Word - start + asked.offset
              bytes == Least(asked.length, FileSize[h] - from)
  <1>1. CASE found = {}
    <2>1. Fatal(asked)
      BY <1>1 DEF ReadHandle
    <2>. QED BY <1>1, <2>1 DEF Fatal
  <1>2. CASE found # {}
    <2>1. start \in found
      BY <1>2
    <2>2. word * Word \in Nat
      BY SizesAssumption
    <2>3. IF \/ found = {}
             \/ asked.offset < 0 \/ asked.length < 0
             \/ from >= FileSize[h]
             \/ bytes # 0 /\ ~inMemory
          THEN Fatal(asked)
          ELSE DvdReadNow(asked, h, from, bytes)
      BY DEF ReadHandle
    <2>. HIDE DEF start
    <2>4. start \in DOMAIN extents /\ start \in Nat /\ start <= word * Word
      <3>1. ImageType(files) /\ ExtentsOf(files, extents)
        BY DEF IndexInv
      <3>. QED BY <2>1, <2>2, <3>1, FoundIs DEF ExtentsOf
    <2>5. files[extents[start]] \in [host : Host, word : 0 .. Limit - 1]
      BY <2>4 DEF IndexInv, ExtentsOf, ImageType
    <2>6. h \in Host
      BY <2>5
    <2>7. /\ FileSize[h] \in Nat /\ host[h].size \in Nat /\ host[h].there \in BOOLEAN
          /\ FileSize[h] <= host[h].size + 1
      BY <2>6, SizesAssumption DEF IndexInv, HostType, DriveInv
    <2>8. from \in Int
      BY <2>2, <2>4
    <2>. HIDE DEF h, from
    <2>9. bytes \in Int
      BY <2>7, <2>8 DEF Least
    <2>. HIDE DEF bytes, found
    <2>10. CASE \/ asked.offset < 0 \/ asked.length < 0
                \/ from >= FileSize[h]
                \/ bytes # 0 /\ ~inMemory
      <3>1. Ended(asked, "fatal", Nothing)
        BY <2>3, <2>10 DEF Fatal
      <3>. QED BY <2>1, <2>10, <3>1 DEF h, from, bytes, found
    <2>11. CASE ~(\/ asked.offset < 0 \/ asked.length < 0
                  \/ from >= FileSize[h]
                  \/ bytes # 0 /\ ~inMemory)
      <3>1. DvdReadNow(asked, h, from, bytes)
        BY <1>2, <2>3, <2>11 DEF found
      <3>2. asked.offset >= 0 /\ asked.length >= 0 /\ from < FileSize[h] /\ (bytes = 0 \/ inMemory)
        BY <2>7, <2>8, <2>11
      <3>3. \/ host[h].size >= from + bytes /\ Delivers(asked, h, from, bytes)
            \/ (~host[h].there \/ host[h].size < from + bytes) /\ Ended(asked, "fatal", Nothing)
        <4>1. CASE h \notin Range(open) /\ ~host[h].there
          BY <3>1, <4>1 DEF DvdReadNow, Fatal
        <4>2. CASE ~(h \notin Range(open) /\ ~host[h].there)
          <5>1. IF bytes = 0 \/ from + bytes <= host[h].size
                THEN Delivers(asked, h, from, bytes)
                ELSE Ended(asked, "fatal", Nothing)
            BY <3>1, <4>2 DEF DvdReadNow
          <5>2. bytes = 0 => from + bytes <= host[h].size
            BY <2>7, <2>8, <3>2
          <5>. QED BY <2>7, <2>8, <2>9, <5>1, <5>2
        <4>. QED BY <4>1, <4>2
      <3>. QED BY <2>1, <3>2, <3>3 DEF h, from, bytes, found
    <2>. QED BY <2>10, <2>11
  <1>. QED BY <1>1, <1>2

\* A file is found from its first byte.
LEMMA FoundAtStart ==
  ASSUME IndexInv, OwnWords(files), NEW p \in DOMAIN files
  PROVE  /\ Found(files[p].word * Word) = {Start(files, p)} /\ extents[Start(files, p)] = p
         /\ files[p].word * Word \in Nat /\ files[p].word \in Nat /\ files[p].host \in Host
         /\ Start(files, p) = files[p].word * Word
  <1>. DEFINE byte == files[p].word * Word
              s == Start(files, p)
  <1>1. ImageType(files) /\ ExtentsOf(files, extents)
    BY DEF IndexInv
  <1>2. ASSUME NEW q \in DOMAIN files
        PROVE  files[q].word \in Nat /\ files[q].host \in Host
    <2>1. files[q] \in [host : Host, word : 0 .. Limit - 1]
      BY <1>1 DEF ImageType
    <2>. QED BY <2>1, SizesAssumption
  <1>3. s = byte /\ byte \in Nat
    BY <1>2, SizesAssumption DEF Start
  <1>4. s \in DOMAIN extents
    BY <1>1 DEF OwnWords, ExtentsOf, Starts
  <1>5. extents[s] \in DOMAIN files /\ Start(files, extents[s]) = s
    BY <1>1, <1>4 DEF ExtentsOf
  <1>6. extents[s] = p
    <2>. DEFINE q == extents[s]
    <2>1. files[q].word * Word = files[p].word * Word /\ q \in DOMAIN files
      BY <1>5 DEF Start
    <2>. HIDE DEF q
    <2>2. files[q].word = files[p].word
      <3>1. files[q].word \in Nat /\ files[p].word \in Nat /\ Word \in Nat \ {0}
        BY <1>2, <2>1, SizesAssumption
      <3>. DEFINE m == files[q].word
                  n == files[p].word
      <3>2. m \in Nat /\ n \in Nat /\ m * Word = n * Word
        BY <2>1, <3>1
      <3>. HIDE DEF m, n
      <3>3. m = n
        BY <3>1, <3>2
      <3>. QED BY <3>3 DEF m, n
    <2>3. q = p
      BY <2>1, <2>2 DEF OwnWords
    <2>. QED BY <2>3 DEF q
  <1>7. s < EndOf(files, p)
    <2>1. FileSize[files[p].host] \in Nat
      BY <1>2, SizesAssumption
    <2>. HIDE DEF s
    <2>2. EndOf(files, p) = s + Larger(FileSize[files[p].host], 1)
      BY DEF EndOf, s
    <2>. QED BY <1>3, <2>1, <2>2 DEF Larger
  <1>8. \A t \in DOMAIN extents : t \in Nat
    BY <1>1, <1>3, FoundIs DEF ExtentsOf
  <1>9. Found(byte) = {s}
    <2>. HIDE DEF s, byte
    <2>. QED BY <1>1, <1>3, <1>4, <1>6, <1>7, FoundIs DEF ExtentsOf
  <1>. QED BY <1>2, <1>3, <1>6, <1>9

LEMMA DriveReadFile ==
  ASSUME IndexInv, DriveInv, ReadFile
  PROVE  D!Reads
  <1>1. PICK p \in DOMAIN files, offset \in Offset, length \in Length, inMemory \in BOOLEAN :
            ReadHandle([by |-> "handle", path |-> p, offset |-> offset, length |-> length],
                       files[p].word, inMemory)
    BY DEF ReadFile
  <1>2. stage = "ready" /\ reply = << >>
    BY DEF ReadFile, Idle
  <1>3. DriveContents = [q \in DOMAIN files |-> files[q].host] /\ UNCHANGED <<stage = "ready", DriveContents, host>>
    BY <1>2, ReadingSeen DEF Reading
  <1>. DEFINE asked == [by |-> "handle", path |-> p, offset |-> offset, length |-> length]
              h == files[p].host
              bytes == Least(length, FileSize[h] - offset)
              word == files[p].word
  <1>4. /\ Found(word * Word) = {Start(files, p)} /\ extents[Start(files, p)] = p
        /\ word * Word \in Nat /\ word \in Nat /\ h \in Host /\ Start(files, p) = word * Word
    BY <1>2, FoundAtStart DEF DriveInv
  <1>5. asked.length \in Int /\ asked.offset \in Int /\ asked.offset = offset /\ asked.length = length
        /\ length \in Int /\ offset \in Int
    BY ReadsAssumption
  <1>6. ReadHandle(asked, word, inMemory)
    BY <1>1
  <1>. HIDE DEF asked, word
  <1>. DEFINE Outcome(s) ==
                LET g == files[extents[s]].host
                    from == word * Word - s + asked.offset
                    b == Least(asked.length, FileSize[g] - from)
                IN  \/ /\ \/ asked.offset < 0 \/ asked.length < 0
                          \/ from >= FileSize[g]
                          \/ b # 0 /\ ~inMemory
                       /\ Ended(asked, "fatal", Nothing)
                    \/ /\ asked.offset >= 0 /\ asked.length >= 0 /\ from < FileSize[g]
                       /\ b = 0 \/ inMemory
                       /\ \/ /\ host[g].size >= from + b
                             /\ Delivers(asked, g, from, b)
                          \/ /\ ~host[g].there \/ host[g].size < from + b
                             /\ Ended(asked, "fatal", Nothing)
  <1>7. \/ Found(word * Word) = {} /\ Ended(asked, "fatal", Nothing)
        \/ \E s \in Found(word * Word) : Outcome(s)
    BY <1>4, <1>5, <1>6, HandleReads
  <1>8. Outcome(Start(files, p))
    <2>. HIDE DEF Outcome
    <2>. QED BY <1>4, <1>7
  <1>9. word * Word - Start(files, p) + asked.offset = offset
    BY <1>4, <1>5
  <1>10. \/ /\ \/ offset < 0 \/ length < 0 \/ offset >= FileSize[h] \/ (bytes # 0 /\ ~inMemory)
            /\ Ended(asked, "fatal", Nothing)
         \/ /\ offset >= 0 /\ length >= 0 /\ offset < FileSize[h]
            /\ bytes = 0 \/ inMemory
            /\ \/ /\ host[h].size >= offset + bytes
                  /\ Delivers(asked, h, offset, bytes)
               \/ /\ ~host[h].there \/ host[h].size < offset + bytes
                  /\ Ended(asked, "fatal", Nothing)
    <2>. DEFINE s0 == Start(files, p)
    <2>1. files[extents[s0]].host = h /\ word * Word - s0 + asked.offset = offset
      BY <1>4, <1>9
    <2>2. asked.length = length /\ asked.offset = offset
      BY <1>5
    <2>3. Outcome(s0)
      BY <1>8
    <2>. HIDE DEF s0, h
    <2>. QED BY <2>1, <2>2, <2>3
  <1>11. FileSize[h] \in Nat /\ bytes = D!Least(length, FileSize[h] - offset)
    BY <1>4, SizesAssumption DEF Least, D!Least
  <1>. DEFINE there == host[h].there
              size == host[h].size
  <1>12. \/ /\ ~(offset \in 0 .. FileSize[h] - 1 /\ length >= 0 /\ (inMemory \/ bytes = 0))
            /\ Ended(asked, "fatal", Nothing)
         \/ /\ offset \in 0 .. FileSize[h] - 1 /\ length >= 0 /\ (inMemory \/ bytes = 0)
            /\ \/ size >= offset + bytes /\ Delivers(asked, h, offset, bytes)
               \/ (~there \/ size < offset + bytes) /\ Ended(asked, "fatal", Nothing)
    <2>1. offset \in 0 .. FileSize[h] - 1 <=> offset >= 0 /\ offset < FileSize[h]
      BY <1>5, <1>11
    <2>. HIDE DEF h, bytes
    <2>2. length < 0 <=> ~(length >= 0)
      BY <1>5
    <2>3. offset >= FileSize[h] \/ offset < 0 <=> ~(offset >= 0 /\ offset < FileSize[h])
      BY <1>5, <1>11
    <2>. QED BY <1>10, <2>1, <2>2, <2>3
  <1>13. D!Read(p, offset, length, inMemory)
    <2>1. [q \in DOMAIN files |-> files[q].host][p] = h
      OBVIOUS
    <2>. HIDE DEF h, bytes
    <2>2. (IF stage = "ready" THEN [q \in DOMAIN files |-> files[q].host]
           ELSE [q \in Registered |-> entries[Latest(q)].host])[p] = h
      BY <1>2, <2>1
    <2>. QED BY <1>11, <1>12, <2>2
             DEF D!Read, D!Ended, D!Nothing, D!Delivers, D!Lacks, Ended, Nothing, Delivers, asked
  <1>. QED BY <1>2, <1>3, <1>13 DEF D!Reads, DriveContents

\* A read that names no file delivers of one that is there, if it delivers.
LEMMA DriveAnywhere ==
  ASSUME IndexInv, stage = "ready", reply = << >>, UNCHANGED <<stage = "ready", DriveContents, host>>,
         NEW by \in {"handle", "place"}, NEW length \in Length,
         NEW asked, asked = [by |-> by, path |-> NoPath, offset |-> 0, length |-> length],
         \/ Ended(asked, "fatal", Nothing)
         \/ by = "place" /\ length = 0 /\ Ended(asked, "end", Nothing)
         \/ by = "place" /\ Ended(asked, "end", [host |-> {"header"}, from |-> 0, bytes |-> length])
         \/ /\ length >= 0
            /\ \E p \in DOMAIN files : \E from \in 0 .. FileSize[files[p].host], bytes \in Int :
                /\ bytes = IF by = "handle" THEN Least(length, FileSize[files[p].host] - from)
                           ELSE IF length = 0 THEN FileSize[files[p].host] - from ELSE length
                /\ host[files[p].host].size >= from + bytes
                /\ Delivers(asked, files[p].host, from, bytes)
  PROVE  D!Reads
  <1>. DEFINE C == IF stage = "ready" THEN [p \in DOMAIN files |-> files[p].host]
                   ELSE [p \in Registered |-> entries[Latest(p)].host]
  <1>1. C = [p \in DOMAIN files |-> files[p].host]
    OBVIOUS
  <1>2. D!ReadAnywhere(by, length)
    <2>1. CASE \/ Ended(asked, "fatal", Nothing)
               \/ by = "place" /\ length = 0 /\ Ended(asked, "end", Nothing)
               \/ by = "place" /\ Ended(asked, "end", [host |-> {"header"}, from |-> 0, bytes |-> length])
      BY <2>1 DEF D!ReadAnywhere, D!Ended, D!Nothing, Ended, Nothing
    <2>2. ASSUME length >= 0, NEW p \in DOMAIN files, NEW from \in 0 .. FileSize[files[p].host],
                 NEW bytes \in Int,
                 bytes = IF by = "handle" THEN Least(length, FileSize[files[p].host] - from)
                         ELSE IF length = 0 THEN FileSize[files[p].host] - from ELSE length,
                 host[files[p].host].size >= from + bytes,
                 Delivers(asked, files[p].host, from, bytes)
          PROVE  D!ReadAnywhere(by, length)
      <3>. DEFINE h == files[p].host
      <3>1. p \in DOMAIN C /\ C[p] = h
        BY <1>1
      <3>. DEFINE b == IF by = "handle" THEN D!Least(length, FileSize[h] - from)
                       ELSE IF length = 0 THEN FileSize[h] - from ELSE length
      <3>2. b = bytes
        BY <2>2 DEF Least, D!Least
      <3>3. D!Delivers(asked, h, from, b)
        <4>. HIDE DEF h, b
        <4>. QED BY <2>2, <3>2 DEF h, D!Delivers, Delivers, D!Ended, Ended, D!Nothing, Nothing
      <3>4. D!Delivers(asked, C[p], from, IF by = "handle" THEN D!Least(length, FileSize[C[p]] - from)
                       ELSE IF length = 0 THEN FileSize[C[p]] - from ELSE length)
        <4>. HIDE DEF C, h
        <4>. QED BY <3>1, <3>3
      <3>5. from \in 0 .. FileSize[C[p]]
        BY <3>1
      <3>6. \E q \in DOMAIN C : \E f \in 0 .. FileSize[C[q]] :
                D!Delivers(asked, C[q], f,
                    IF by = "handle" THEN D!Least(length, FileSize[C[q]] - f)
                    ELSE IF length = 0 THEN FileSize[C[q]] - f ELSE length)
        <4>. HIDE DEF C, h
        <4>. QED BY <3>1, <3>4, <3>5
      <3>. HIDE DEF h
      <3>. QED BY <2>2, <3>6 DEF D!ReadAnywhere
    <2>. QED BY <2>1, <2>2
  <1>. QED BY <1>2 DEF D!Reads, DriveContents

LEMMA DriveReadInside ==
  ASSUME IndexInv, DriveInv, ReadInsideFile
  PROVE  D!Reads
  <1>1. PICK p \in DOMAIN files, length \in Length, bias \in Bias :
            ReadHandle([by |-> "handle", path |-> NoPath, offset |-> 0, length |-> length],
                       files[p].word + bias, TRUE)
    BY DEF ReadInsideFile
  <1>2. stage = "ready" /\ reply = << >>
    BY DEF ReadInsideFile, Idle
  <1>3. UNCHANGED <<stage = "ready", DriveContents, host>>
    BY <1>2, ReadingSeen DEF Reading
  <1>. DEFINE asked == [by |-> "handle", path |-> NoPath, offset |-> 0, length |-> length]
              word == files[p].word + bias
  <1>4. ImageType(files) /\ ExtentsOf(files, extents)
    BY DEF IndexInv
  <1>5. word \in Nat
    BY <1>4, SizesAssumption, ReadsAssumption DEF ImageType
  <1>6. asked.length = length /\ asked.offset = 0 /\ length \in Int
    BY ReadsAssumption
  <1>7. ReadHandle(asked, word, TRUE)
    BY <1>1
  <1>8. asked = [by |-> "handle", path |-> NoPath, offset |-> 0, length |-> length]
    OBVIOUS
  <1>. HIDE DEF asked, word
  <1>9. word * Word \in Nat
    BY <1>5, SizesAssumption
  <1>. DEFINE byte == word * Word
  <1>10. \/ Ended(asked, "fatal", Nothing)
         \/ \E s \in Found(byte) :
                LET h == files[extents[s]].host
                    from == byte - s
                    bytes == Least(length, FileSize[h] - from)
                IN  \/ Ended(asked, "fatal", Nothing)
                    \/ /\ length >= 0 /\ from < FileSize[h]
                       /\ host[h].size >= from + bytes
                       /\ Delivers(asked, h, from, bytes)
    <2>1. asked.length \in Int /\ asked.offset \in Int
      BY <1>6
    <2>2. ASSUME NEW s \in Found(byte) PROVE byte - s + asked.offset = byte - s
      <3>1. s \in Nat
        BY <1>4, <1>9, FoundIs DEF ExtentsOf
      <3>. HIDE DEF byte
      <3>. QED BY <1>6, <1>9, <3>1 DEF byte
    <2>. DEFINE O(h, from, bytes) ==
                    \/ /\ \/ asked.offset < 0 \/ asked.length < 0
                          \/ from >= FileSize[h]
                          \/ bytes # 0 /\ ~TRUE
                       /\ Ended(asked, "fatal", Nothing)
                    \/ /\ asked.offset >= 0 /\ asked.length >= 0 /\ from < FileSize[h]
                       /\ bytes = 0 \/ TRUE
                       /\ \/ /\ host[h].size >= from + bytes
                             /\ Delivers(asked, h, from, bytes)
                          \/ /\ ~host[h].there \/ host[h].size < from + bytes
                             /\ Ended(asked, "fatal", Nothing)
    <2>3. \/ Found(byte) = {} /\ Ended(asked, "fatal", Nothing)
          \/ \E s \in Found(byte) : O(files[extents[s]].host, byte - s + asked.offset,
                    Least(asked.length, FileSize[files[extents[s]].host] - (byte - s + asked.offset)))
      BY <1>5, <1>7, <2>1, HandleReads
    <2>4. \A h, from, bytes : O(h, from, bytes) =>
                    \/ Ended(asked, "fatal", Nothing)
                    \/ /\ length >= 0 /\ from < FileSize[h]
                       /\ host[h].size >= from + bytes
                       /\ Delivers(asked, h, from, bytes)
      BY <1>6
    <2>. HIDE DEF O, byte
    <2>. QED BY <1>6, <2>2, <2>3, <2>4
  <1>11. CASE Ended(asked, "fatal", Nothing)
    BY <1>2, <1>3, <1>8, <1>11, DriveAnywhere
  <1>12. ASSUME NEW s \in Found(byte), length >= 0, byte - s < FileSize[files[extents[s]].host],
                host[files[extents[s]].host].size
                    >= byte - s + Least(length, FileSize[files[extents[s]].host] - (byte - s)),
                Delivers(asked, files[extents[s]].host, byte - s,
                         Least(length, FileSize[files[extents[s]].host] - (byte - s)))
         PROVE  D!Reads
    <2>. DEFINE q == extents[s]
                from == byte - s
                bytes == Least(length, FileSize[files[q].host] - from)
    <2>1. s \in DOMAIN extents /\ s \in Nat /\ s <= byte
      BY <1>4, <1>9, FoundIs DEF ExtentsOf
    <2>2. q \in DOMAIN files
      BY <1>4, <2>1 DEF ExtentsOf
    <2>3. FileSize[files[q].host] \in Nat
      BY <1>4, <2>2, SizesAssumption DEF ImageType
    <2>4. from \in 0 .. FileSize[files[q].host]
      <3>. HIDE DEF byte, q
      <3>. QED BY <1>9, <1>12, <2>1, <2>3 DEF byte, q
    <2>. HIDE DEF q, from
    <2>5. bytes \in Int
      BY <1>6, <2>3, <2>4 DEF Least
    <2>6. host[files[q].host].size >= from + bytes /\ Delivers(asked, files[q].host, from, bytes)
      BY <1>12 DEF q, from
    <2>. QED BY <1>2, <1>3, <1>8, <1>12, <2>2, <2>4, <2>5, <2>6, DriveAnywhere
  <1>. HIDE DEF byte
  <1>. QED BY <1>10, <1>11, <1>12

LEMMA DriveReadPlace ==
  ASSUME IndexInv, DriveInv, ReadAbsAsyncPrio \/ DVDLowRead
  PROVE  D!Reads
  <1>1. stage = "ready" /\ reply = << >>
    BY DEF ReadAbsAsyncPrio, DVDLowRead, Idle
  <1>2. UNCHANGED <<stage = "ready", DriveContents, host>>
    BY <1>1, ReadingSeen DEF Reading
  <1>3. PICK place \in Place, length \in Length, inMemory \in BOOLEAN :
            \/ Ended(AtPlace(length), "fatal", Nothing)
            \/ length = 0 /\ Ended(AtPlace(length), "end", Nothing)
            \/ Ended(AtPlace(length), "end", [host |-> {"header"}, from |-> 0, bytes |-> length])
            \/ length >= 0 /\ ReadAbs(place, length, inMemory)
    <2>1. CASE ReadAbsAsyncPrio
      <3>1. \A length \in Length : length < 0 \/ length >= 0
        BY ReadsAssumption
      <3>. QED BY <2>1, <3>1 DEF ReadAbsAsyncPrio
    <2>2. CASE DVDLowRead
      BY <2>2 DEF DVDLowRead
    <2>. QED BY <2>1, <2>2
  <1>. DEFINE asked == AtPlace(length)
  <1>4. asked = [by |-> "place", path |-> NoPath, offset |-> 0, length |-> length] /\ length \in Int
        /\ "place" # "handle"
    BY ReadsAssumption DEF AtPlace
  <1>5. ImageType(files) /\ ExtentsOf(files, extents) /\ HostType
    BY DEF IndexInv
  <1>6. Effective(place) \in Nat
    BY SizesAssumption, ReadsAssumption DEF Effective
  <1>. DEFINE byte == Effective(place)
              found == Found(byte)
              start == CHOOSE s \in found : TRUE
              h == files[extents[start]].host
              from == byte - start
              rest == FileSize[h] - from
              bytes == IF length = 0 \/ length > rest THEN rest ELSE length
  <1>7. CASE length >= 0 /\ ReadAbs(place, length, inMemory)
    <2>1. \/ Ended(asked, "fatal", Nothing)
          \/ /\ found # {} /\ (length = 0 \/ bytes = length)
             /\ ~(from >= host[h].size) /\ ~(from + bytes > host[h].size)
             /\ Delivers(asked, h, from, bytes)
      BY <1>7 DEF ReadAbs
    <2>2. CASE Ended(asked, "fatal", Nothing)
      <3>. HIDE DEF asked
      <3>. QED BY <1>1, <1>2, <1>4, <2>2, DriveAnywhere
    <2>3. CASE /\ found # {} /\ (length = 0 \/ bytes = length)
               /\ ~(from >= host[h].size) /\ ~(from + bytes > host[h].size)
               /\ Delivers(asked, h, from, bytes)
      <3>1. start \in found
        BY <2>3
      <3>. DEFINE q == extents[start]
      <3>. HIDE DEF start, byte
      <3>2. start \in DOMAIN extents /\ start \in Nat /\ start <= byte /\ byte \in Nat
        BY <1>5, <1>6, <3>1, FoundIs DEF ExtentsOf, byte
      <3>3. q \in DOMAIN files
        BY <1>5, <3>2 DEF ExtentsOf
      <3>4. h \in Host
        BY <1>5, <3>3 DEF ImageType
      <3>5. FileSize[h] \in Nat /\ host[h].size \in Nat /\ host[h].size <= FileSize[h]
        BY <1>5, <3>4, SizesAssumption DEF HostType
      <3>6. h = files[q].host
        OBVIOUS
      <3>. HIDE DEF q, h, found, asked
      <3>7. from \in 0 .. FileSize[h] /\ rest \in Int
        BY <2>3, <3>2, <3>5
      <3>. HIDE DEF from
      <3>8. bytes \in Int /\ bytes = IF length = 0 THEN FileSize[h] - from ELSE length
        BY <1>4, <2>3, <3>5, <3>7
      <3>. HIDE DEF bytes
      <3>9. host[h].size >= from + bytes
        BY <2>3, <3>5, <3>7, <3>8
      <3>10. \E p \in DOMAIN files : \E f \in 0 .. FileSize[files[p].host], b \in Int :
                /\ b = IF "place" = "handle" THEN Least(length, FileSize[files[p].host] - f)
                       ELSE IF length = 0 THEN FileSize[files[p].host] - f ELSE length
                /\ host[files[p].host].size >= f + b
                /\ Delivers(asked, files[p].host, f, b)
        BY <2>3, <3>3, <3>6, <3>7, <3>8, <3>9, <1>4
      <3>. QED BY <1>1, <1>2, <1>4, <1>7, <3>10, DriveAnywhere
    <2>. QED BY <2>1, <2>2, <2>3
  <1>8. CASE \/ Ended(asked, "fatal", Nothing)
             \/ length = 0 /\ Ended(asked, "end", Nothing)
             \/ Ended(asked, "end", [host |-> {"header"}, from |-> 0, bytes |-> length])
    <2>. HIDE DEF asked
    <2>. QED BY <1>1, <1>2, <1>4, <1>8, DriveAnywhere
  <1>. QED BY <1>3, <1>7, <1>8

\* Every step of the index is a step of a drive, or one it does not see.
LEMMA DriveNext ==
  ASSUME IndexInv, DriveInv, [Next]_vars
  PROVE  [D!Next]_(D!vars)
  <1>1. CASE Listing
    BY <1>1, DriveListing
  <1>2. CASE BuildAndPublishRuntimeFst
    BY <1>2, DrivePublish
  <1>3. CASE ReadFile \/ ReadInsideFile \/ ReadAbsAsyncPrio \/ DVDLowRead
    BY <1>3, DriveReadFile, DriveReadInside, DriveReadPlace DEF D!Next
  <1>4. CASE GoesOn
    <2>1. stage = "ready" /\ reply' = << >>
      BY <1>4 DEF GoesOn, DriveInv
    <2>2. UNCHANGED <<stage = "ready", DriveContents, host>>
      BY <1>4, <2>1, ReadingSeen DEF Reading
    <2>3. D!GoesOn
      BY <2>1, <2>2 DEF D!GoesOn, DriveContents
    <2>. QED BY <2>3 DEF D!Next
  <1>5. CASE HostChanges
    <2>1. UNCHANGED <<index, reply>>
      BY <1>5 DEF HostChanges
    <2>2. stage = "ready"
      BY <1>5 DEF HostChanges, Idle
    <2>3. D!HostChanges
      BY <2>1, <2>2 DEF D!HostChanges, index
    <2>. QED BY <2>3 DEF D!Next
  <1>6. CASE UNCHANGED vars
    <2>1. UNCHANGED Seen
      BY <1>6 DEF vars, index, Seen, DriveContents, Registered, Latest
    <2>. QED BY <2>1, SeenStutters
  <1>. QED BY <1>1, <1>2, <1>3, <1>4, <1>5, <1>6, NextIs DEF Reading

THEOREM DrivePromises ==
  ASSUME \A d \in Discs : TableInOrder(d) /\ WordsApart(d)
  PROVE  Spec => ImplementsDrive
  <1>1. Init => ApartInv /\ DriveInv /\ D!Init
    BY DriveInvInit, DriveInit DEF Init, ApartInv
  <1>2. IndexInv /\ ApartInv /\ DriveInv /\ [Next]_vars => (ApartInv /\ DriveInv)'
    BY ApartInvNext, DriveInvNext
  <1>3. IndexInv /\ DriveInv /\ [Next]_vars => [D!Next]_(D!vars)
    BY DriveNext
  <1>. QED BY <1>1, <1>2, <1>3, IndexInvariant, PTL DEF Spec, ImplementsDrive, D!Spec

-----------------------------------------------------------------------------
(* What outranks what.                                                     *)

\* For mappings L by step, host files m that are missing and files u that were not listed:
\* the files of a step for a path, whether it may put new paths on the disc, and where a path
\* gets a file from.
GivesIn(L, m, u, s, p) ==
    {g \in L[s].files : /\ g.at = IF L[s].kind = "by name" THEN NameOf[p] ELSE p
                        /\ g.host \notin m
                        /\ <<s[1], s[2], g>> \notin u}
HostsIn(L, m, u, s, p) == {g.host : g \in GivesIn(L, m, u, s, p)}
Adds(L, s) == L[s].create /\ L[s].kind # "by name"
SourcesIn(L, m, u, p) ==
    {s \in DOMAIN L : /\ GivesIn(L, m, u, s, p) # {}
                      /\ \/ Adds(L, s)
                         \/ \E t \in DOMAIN L : /\ Outranks(s, t) /\ Adds(L, t)
                                                /\ GivesIn(L, m, u, t, p) # {}}

\* Steps that outrank one another the one way only; and what is done is below the rest.
Ranked(L) ==
    \A s \in DOMAIN L : s = <<s[1], s[2]>> /\ \A t \in DOMAIN L : ~(Outranks(s, t) /\ Outranks(t, s))
Lower(L, done) == done \subseteq DOMAIN L /\ \A s \in done, t \in DOMAIN L \ done : Outranks(t, s)

Among(e, i, j, p) == \E k \in i .. j : e[k].path = p
LastAmong(e, n, p, k) ==
    k \in 1 .. n /\ e[k].path = p /\ \A j \in 1 .. n : e[j].path = p => j <= k
Best(S, s) == s \in S /\ \A t \in S \ {s} : Outranks(s, t)

\* The first n entries are what the steps that are done come to.
Settles(L, m, u, done, e, n) ==
    \A p \in Path :
        /\ Among(e, 1, n, p) <=> SourcesIn(L, m, u, p) \cap done # {}
        /\ Among(e, 1, n, p) =>
            \E s, k : /\ Best(SourcesIn(L, m, u, p) \cap done, s)
                      /\ LastAmong(e, n, p, k) /\ e[k].host \in HostsIn(L, m, u, s, p)

\* The entries after them are what the step s has come to so far, with l left.
Works(L, m, u, s, l, e, n) ==
    /\ \A k \in n + 1 .. Len(e) :
        /\ \E f \in GivesIn(L, m, u, s, e[k].path) \ l : f.host = e[k].host
        /\ Adds(L, s) \/ Among(e, 1, n, e[k].path)
    /\ \A p \in Path :
        /\ GivesIn(L, m, u, s, p) \ l # {}
        /\ Adds(L, s) \/ Among(e, 1, n, p)
        => Among(e, n + 1, Len(e), p)

\* What is done is all that counts for the paths there are.
LEMMA AmongDone ==
  ASSUME NEW L, NEW m, NEW u, NEW done, NEW e, NEW n, NEW p \in Path,
         Ranked(L), Lower(L, done), Settles(L, m, u, done, e, n)
  PROVE  Among(e, 1, n, p) <=> \E t \in done : Adds(L, t) /\ GivesIn(L, m, u, t, p) # {}
  <1>1. Among(e, 1, n, p) <=> SourcesIn(L, m, u, p) \cap done # {}
    BY DEF Settles
  <1>2. ASSUME NEW t \in done, Adds(L, t), GivesIn(L, m, u, t, p) # {}
        PROVE  t \in SourcesIn(L, m, u, p)
    BY <1>2 DEF SourcesIn, Lower
  <1>3. ASSUME NEW s \in SourcesIn(L, m, u, p) \cap done
        PROVE  \E t \in done : Adds(L, t) /\ GivesIn(L, m, u, t, p) # {}
    <2>1. CASE Adds(L, s)
      BY <2>1 DEF SourcesIn
    <2>2. CASE ~Adds(L, s)
      <3>1. PICK t \in DOMAIN L : Outranks(s, t) /\ Adds(L, t) /\ GivesIn(L, m, u, t, p) # {}
        BY <2>2 DEF SourcesIn
      <3>2. t \in done
        BY <3>1 DEF Ranked, Lower
      <3>. QED BY <3>1, <3>2
    <2>. QED BY <2>1, <2>2
  <1>. QED BY <1>1, <1>2, <1>3

\* A step that is through is done.
LEMMA StepDone ==
  ASSUME NEW L, NEW m, NEW u, NEW done, NEW e \in Seq(EntryType), NEW n \in 0 .. Len(e),
         NEW s \in DOMAIN L \ done, Ranked(L), Lower(L, done),
         \A t \in DOMAIN L \ (done \cup {s}) : Outranks(t, s),
         Settles(L, m, u, done, e, n), Works(L, m, u, s, {}, e, n)
  PROVE  Lower(L, done \cup {s}) /\ Settles(L, m, u, done \cup {s}, e, Len(e))
  <1>. DEFINE N == Len(e)
  <1>0. N \in Nat /\ n \in Nat /\ n <= N
    OBVIOUS
  <1>1. Lower(L, done \cup {s})
    BY DEF Lower
  <1>2. SUFFICES ASSUME NEW p \in Path
        PROVE /\ Among(e, 1, N, p) <=> SourcesIn(L, m, u, p) \cap (done \cup {s}) # {}
              /\ Among(e, 1, N, p) =>
                    \E x, k : /\ Best(SourcesIn(L, m, u, p) \cap (done \cup {s}), x)
                              /\ LastAmong(e, N, p, k) /\ e[k].host \in HostsIn(L, m, u, x, p)
    BY <1>1 DEF Settles
  <1>. DEFINE S == SourcesIn(L, m, u, p)
  <1>3. Among(e, 1, N, p) <=> Among(e, 1, n, p) \/ Among(e, n + 1, N, p)
    <2>1. \A k : k \in 1 .. N <=> k \in 1 .. n \/ k \in n + 1 .. N
      BY <1>0
    <2>. HIDE DEF N
    <2>. QED BY <2>1 DEF Among
  <1>4. s \in S <=> GivesIn(L, m, u, s, p) # {} /\ (Adds(L, s) \/ Among(e, 1, n, p))
    <2>1. Among(e, 1, n, p) <=> \E t \in done : Adds(L, t) /\ GivesIn(L, m, u, t, p) # {}
      BY AmongDone
    <2>2. \A t \in DOMAIN L : Outranks(s, t) <=> t \in done
      BY DEF Lower, Ranked
    <2>3. s \in S <=> /\ GivesIn(L, m, u, s, p) # {}
                      /\ \/ Adds(L, s)
                         \/ \E t \in DOMAIN L : /\ Outranks(s, t) /\ Adds(L, t)
                                                /\ GivesIn(L, m, u, t, p) # {}
      BY DEF SourcesIn
    <2>4. done \subseteq DOMAIN L
      BY DEF Lower
    <2>. HIDE DEF S
    <2>. QED BY <2>1, <2>2, <2>3, <2>4
  <1>5. Among(e, n + 1, N, p) <=> s \in S
    <2>1. ASSUME Among(e, n + 1, N, p)
          PROVE  GivesIn(L, m, u, s, p) # {} /\ (Adds(L, s) \/ Among(e, 1, n, p))
      <3>1. PICK k \in n + 1 .. N : e[k].path = p
        BY <2>1 DEF Among
      <3>. QED BY <3>1 DEF Works
    <2>2. ASSUME GivesIn(L, m, u, s, p) # {}, Adds(L, s) \/ Among(e, 1, n, p)
          PROVE  Among(e, n + 1, N, p)
      BY <2>2 DEF Works
    <2>. HIDE DEF S, N
    <2>. QED BY <1>4, <2>1, <2>2
  <1>6. Among(e, 1, n, p) <=> S \cap done # {}
    BY DEF Settles
  <1>7. ASSUME s \in S
        PROVE  \E x, k : /\ Best(S \cap (done \cup {s}), x)
                         /\ LastAmong(e, N, p, k) /\ e[k].host \in HostsIn(L, m, u, x, p)
    <2>1. Best(S \cap (done \cup {s}), s)
      BY <1>7 DEF Best, Lower
    <2>. DEFINE K == {k \in 1 .. N : e[k].path = p}
    <2>2. K # {} /\ K \in SUBSET Nat /\ \A k \in K : k <= N
      BY <1>0, <1>3, <1>5, <1>7 DEF Among
    <2>3. MaxIn(K) \in K /\ \A k \in K : k <= MaxIn(K)
      <3>. HIDE DEF K, N
      <3>. QED BY <1>0, <2>2, Greatest
    <2>. DEFINE k == MaxIn(K)
    <2>4. LastAmong(e, N, p, k)
      BY <2>3 DEF LastAmong
    <2>5. k \in n + 1 .. N
      <3>1. PICK j \in n + 1 .. N : e[j].path = p
        BY <1>5, <1>7 DEF Among
      <3>2. j \in K
        BY <1>0, <3>1
      <3>3. j <= k /\ k \in Nat /\ k <= N
        BY <2>2, <2>3, <3>2
      <3>. HIDE DEF k, K, N
      <3>. QED BY <1>0, <3>1, <3>3
    <2>6. e[k].path = p
      BY <2>4 DEF LastAmong
    <2>. HIDE DEF k, K
    <2>7. e[k].host \in HostsIn(L, m, u, s, p)
      BY <2>5, <2>6 DEF Works, HostsIn
    <2>. HIDE DEF S, N
    <2>. QED BY <2>1, <2>4, <2>7
  <1>8. ASSUME s \notin S, Among(e, 1, n, p)
        PROVE  \E x, k : /\ Best(S \cap (done \cup {s}), x)
                         /\ LastAmong(e, N, p, k) /\ e[k].host \in HostsIn(L, m, u, x, p)
    <2>1. PICK x, k : /\ Best(S \cap done, x)
                      /\ LastAmong(e, n, p, k) /\ e[k].host \in HostsIn(L, m, u, x, p)
      BY <1>8 DEF Settles
    <2>2. S \cap (done \cup {s}) = S \cap done
      BY <1>8
    <2>3. LastAmong(e, N, p, k)
      <3>1. ASSUME NEW j \in 1 .. N, e[j].path = p PROVE j \in 1 .. n
        <4>1. ~(j \in n + 1 .. N)
          BY <1>5, <1>8, <3>1 DEF Among
        <4>. QED BY <1>0, <4>1
      <3>2. k \in 1 .. N
        BY <1>0, <2>1 DEF LastAmong
      <3>. HIDE DEF N
      <3>. QED BY <2>1, <3>1, <3>2 DEF LastAmong
    <2>. HIDE DEF S, N
    <2>. QED BY <2>1, <2>2, <2>3
  <1>. HIDE DEF S, N
  <1>. QED BY <1>3, <1>5, <1>6, <1>7, <1>8 DEF S

\* Where entries begin the same, the steps that are done come to the same; so they do
\* when files of other steps were not listed.
LEMMA SettlesSame ==
  ASSUME NEW L, NEW m, NEW u, NEW v, NEW done, NEW e, NEW a, NEW n \in Nat,
         Ranked(L), Lower(L, done), Settles(L, m, u, done, e, n),
         \A k \in 1 .. n : a[k] = e[k],
         \A t \in done : \A f : <<t[1], t[2], f>> \in u <=> <<t[1], t[2], f>> \in v
  PROVE  Settles(L, m, v, done, a, n)
  <1>1. ASSUME NEW t \in done, NEW p PROVE GivesIn(L, m, u, t, p) = GivesIn(L, m, v, t, p)
    BY DEF GivesIn
  <1>2. ASSUME NEW s \in done, NEW t \in DOMAIN L, Outranks(s, t) PROVE t \in done
    BY <1>2 DEF Ranked, Lower
  <1>3. ASSUME NEW p PROVE SourcesIn(L, m, u, p) \cap done = SourcesIn(L, m, v, p) \cap done
    <2>1. ASSUME NEW s \in done
          PROVE  s \in SourcesIn(L, m, u, p) <=> s \in SourcesIn(L, m, v, p)
      BY <1>1, <1>2 DEF SourcesIn
    <2>. QED BY <2>1
  <1>4. ASSUME NEW p
        PROVE  /\ Among(a, 1, n, p) <=> Among(e, 1, n, p)
               /\ \A k : LastAmong(a, n, p, k) <=> LastAmong(e, n, p, k)
    <2>1. Among(a, 1, n, p) <=> Among(e, 1, n, p)
      BY DEF Among
    <2>2. ASSUME NEW k PROVE LastAmong(a, n, p, k) <=> LastAmong(e, n, p, k)
      BY DEF LastAmong
    <2>. QED BY <2>1, <2>2
  <1>5. SUFFICES ASSUME NEW p \in Path
        PROVE /\ Among(a, 1, n, p) <=> SourcesIn(L, m, v, p) \cap done # {}
              /\ Among(a, 1, n, p) =>
                    \E s, k : /\ Best(SourcesIn(L, m, v, p) \cap done, s)
                              /\ LastAmong(a, n, p, k) /\ a[k].host \in HostsIn(L, m, v, s, p)
    BY DEF Settles
  <1>6. Among(a, 1, n, p) <=> SourcesIn(L, m, v, p) \cap done # {}
    BY <1>3, <1>4 DEF Settles
  <1>7. ASSUME Among(a, 1, n, p)
        PROVE  \E s, k : /\ Best(SourcesIn(L, m, v, p) \cap done, s)
                         /\ LastAmong(a, n, p, k) /\ a[k].host \in HostsIn(L, m, v, s, p)
    <2>1. PICK s, k : /\ Best(SourcesIn(L, m, u, p) \cap done, s)
                      /\ LastAmong(e, n, p, k) /\ e[k].host \in HostsIn(L, m, u, s, p)
      BY <1>4, <1>7 DEF Settles
    <2>2. s \in done
      BY <2>1 DEF Best
    <2>3. HostsIn(L, m, u, s, p) = HostsIn(L, m, v, s, p)
      BY <1>1, <2>2 DEF HostsIn
    <2>4. a[k] = e[k]
      BY <2>1 DEF LastAmong
    <2>. QED BY <1>3, <1>4, <2>1, <2>3, <2>4
  <1>. QED BY <1>6, <1>7

\* A step that begins has come to nothing so far.
LEMMA WorkBegins ==
  ASSUME NEW L, NEW m, NEW u, NEW s, NEW e \in Seq(EntryType)
  PROVE  Works(L, m, u, s, L[s].files, e, Len(e))
  <1>1. ~(\E k : k \in Len(e) + 1 .. Len(e))
    <2>1. Len(e) \in Nat
      OBVIOUS
    <2>. QED BY <2>1
  <1>2. \A p : GivesIn(L, m, u, s, p) \ L[s].files = {}
    BY DEF GivesIn
  <1>. QED BY <1>1, <1>2 DEF Works

\* The entries that a file adds: one for each path that it is for.
Adding(L, m, u, s, f, e, n, a) ==
    /\ \A k \in DOMAIN a : a[k].host = f.host
    /\ \A p \in Path :
        Names(a, p) <=> f \in GivesIn(L, m, u, s, p) /\ (Adds(L, s) \/ Among(e, 1, n, p))

LEMMA WorkGoesOn ==
  ASSUME NEW L, NEW m, NEW u, NEW s, NEW l, NEW f \in l, NEW e \in Seq(EntryType),
         NEW n \in 0 .. Len(e), NEW a \in Seq(EntryType),
         Works(L, m, u, s, l, e, n), Adding(L, m, u, s, f, e, n, a)
  PROVE  /\ Works(L, m, u, s, l \ {f}, e \o a, n)
         /\ \A k \in 1 .. n : (e \o a)[k] = e[k]
  <1>. DEFINE b == e \o a
              N == Len(e)
              M == Len(b)
  <1>1. /\ b \in Seq(EntryType) /\ M = N + Len(a) /\ N \in Nat /\ M \in Nat /\ N <= M
        /\ n \in Nat /\ n <= N /\ Len(a) \in Nat
        /\ \A k \in 1 .. N : b[k] = e[k]
        /\ \A k \in 1 .. M : k \notin 1 .. N => k - N \in DOMAIN a /\ b[k] = a[k - N]
        /\ \A k \in DOMAIN a : N + k \in 1 .. M /\ N < N + k /\ b[N + k] = a[k]
    OBVIOUS
  <1>2. \A k \in 1 .. n : b[k] = e[k]
    BY <1>1
  <1>3. \A k \in n + 1 .. M : b[k] \in EntryType /\ b[k].path \in Path
    <2>1. \A k \in n + 1 .. M : k \in 1 .. M
      BY <1>1
    <2>2. \A k \in 1 .. M : b[k] \in EntryType
      BY <1>1
    <2>. HIDE DEF b, M
    <2>. QED BY <2>1, <2>2 DEF EntryType
  <1>. HIDE DEF b, N, M
  <1>4. \A p : Among(b, 1, n, p) <=> Among(e, 1, n, p)
    BY <1>2 DEF Among
  <1>5. ASSUME NEW k \in n + 1 .. M
        PROVE  /\ \E g \in GivesIn(L, m, u, s, b[k].path) \ (l \ {f}) : g.host = b[k].host
               /\ Adds(L, s) \/ Among(b, 1, n, b[k].path)
    <2>1. CASE k \in 1 .. N
      <3>1. k \in n + 1 .. N /\ b[k] = e[k]
        BY <1>1, <2>1
      <3>2. /\ \E g \in GivesIn(L, m, u, s, e[k].path) \ l : g.host = e[k].host
            /\ Adds(L, s) \/ Among(e, 1, n, e[k].path)
        BY <3>1 DEF Works, N
      <3>. QED BY <1>4, <3>1, <3>2
    <2>2. CASE k \notin 1 .. N
      <3>. DEFINE i == k - N
      <3>1. i \in DOMAIN a /\ b[k] = a[i]
        BY <1>1, <2>2
      <3>. HIDE DEF i
      <3>2. Names(a, b[k].path) /\ b[k].host = f.host
        BY <3>1 DEF Names, Adding
      <3>. QED BY <1>3, <1>4, <3>2 DEF Adding
    <2>. QED BY <2>1, <2>2
  <1>6. ASSUME NEW p \in Path, GivesIn(L, m, u, s, p) \ (l \ {f}) # {},
               Adds(L, s) \/ Among(b, 1, n, p)
        PROVE  Among(b, n + 1, M, p)
    <2>1. CASE GivesIn(L, m, u, s, p) \ l # {}
      <3>1. Among(e, n + 1, N, p)
        BY <1>4, <1>6, <2>1 DEF Works, N
      <3>2. PICK k \in n + 1 .. N : e[k].path = p
        BY <3>1 DEF Among
      <3>3. k \in n + 1 .. M /\ b[k] = e[k]
        BY <1>1, <3>2
      <3>. QED BY <3>2, <3>3 DEF Among
    <2>2. CASE f \in GivesIn(L, m, u, s, p)
      <3>1. Names(a, p)
        BY <1>4, <1>6, <2>2 DEF Adding
      <3>2. PICK i \in DOMAIN a : a[i].path = p
        BY <3>1 DEF Names
      <3>. DEFINE k == N + i
      <3>3. k \in 1 .. M /\ N < k /\ b[k] = a[i]
        BY <1>1, <3>2
      <3>. HIDE DEF k
      <3>4. k \in n + 1 .. M
        BY <1>1, <3>3
      <3>. QED BY <3>2, <3>3, <3>4 DEF Among
    <2>. QED BY <1>6, <2>1, <2>2
  <1>7. Works(L, m, u, s, l \ {f}, b, n)
    BY <1>5, <1>6 DEF Works, M
  <1>. QED BY <1>2, <1>7 DEF b

\* The card fails to list what is left of a step.
LEMMA WorkStops ==
  ASSUME NEW L, NEW m, NEW u, NEW v, NEW s, NEW l, NEW e, NEW n,
         v = u \cup {<<s[1], s[2], f>> : f \in l}, Works(L, m, u, s, l, e, n)
  PROVE  Works(L, m, v, s, {}, e, n)
  <1>1. ASSUME NEW p PROVE GivesIn(L, m, v, s, p) = GivesIn(L, m, u, s, p) \ l
    <2>1. ASSUME NEW g PROVE <<s[1], s[2], g>> \in v <=> <<s[1], s[2], g>> \in u \/ g \in l
      OBVIOUS
    <2>. QED BY <2>1 DEF GivesIn
  <1>2. ASSUME NEW p PROVE GivesIn(L, m, v, s, p) \ {} = GivesIn(L, m, u, s, p) \ l
    BY <1>1
  <1>. QED BY <1>2 DEF Works

-----------------------------------------------------------------------------
(* How the listing of a disc goes on.                                      *)

\* The steps to apply come in their order; those that are not through; and no file of
\* them that was not listed, but of the one being applied.
Rises(steps) == \A i, j \in DOMAIN steps : i < j => Outranks(steps[j], steps[i])
OfOverlays(L) == {s \in DOMAIN L : s[1] # 0}
ToDo(L, st, steps) ==
    IF st = "off" THEN DOMAIN L
    ELSE Range(steps) \cup (IF st \in {"prescan", "prescanned"} THEN OfOverlays(L) ELSE {})
Unseen(u, todo, steps, l) ==
    \A t \in todo : \A f : <<t[1], t[2], f>> \in u => /\ steps # << >> /\ t = Head(steps)
                                                      /\ f \notin l

\* Where the listing stands: what is through is settled, and what is begun is under way.
LaidSoFar(L, m, u, st, steps, l, e, n) ==
    /\ steps \in Seq(DOMAIN L) /\ Rises(steps)
    /\ st \in {"off", "prescanned"} => steps = << >>
    /\ st = "prescan" => \A s \in Range(steps) : s[1] = 0
    /\ st = "off" => e = << >>
    /\ Unseen(u, ToDo(L, st, steps), steps, l)
    /\ Lower(L, DOMAIN L \ ToDo(L, st, steps))
    /\ Settles(L, m, u, DOMAIN L \ ToDo(L, st, steps), e, n)
    /\ IF steps = << >> THEN n = Len(e) ELSE Works(L, m, u, Head(steps), l, e, n)

FilesOf(L, steps) == IF steps = << >> THEN {} ELSE L[Head(steps)].files

\* Steps are begun.
LEMMA LayBegins ==
  ASSUME NEW L, NEW m, NEW u, NEW st \in {"prescan", "scan"}, NEW steps \in Seq(DOMAIN L),
         NEW e \in Seq(EntryType), Rises(steps),
         st = "prescan" => \A s \in Range(steps) : s[1] = 0,
         \A t \in ToDo(L, st, steps) : \A f : <<t[1], t[2], f>> \notin u,
         Lower(L, DOMAIN L \ ToDo(L, st, steps)),
         Settles(L, m, u, DOMAIN L \ ToDo(L, st, steps), e, Len(e))
  PROVE  LaidSoFar(L, m, u, st, steps, FilesOf(L, steps), e, Len(e))
  <1>1. Unseen(u, ToDo(L, st, steps), steps, FilesOf(L, steps))
    BY DEF Unseen
  <1>2. steps # << >> => Works(L, m, u, Head(steps), FilesOf(L, steps), e, Len(e))
    BY WorkBegins DEF FilesOf
  <1>. QED BY <1>1, <1>2 DEF LaidSoFar

\* Nothing is through, and there is nothing.
LEMMA NothingLaid ==
  ASSUME NEW L, NEW m, NEW u
  PROVE  Lower(L, {}) /\ Settles(L, m, u, {}, << >>, 0)
  <1>1. \A p : ~Among(<< >>, 1, 0, p)
    BY DEF Among
  <1>. QED BY <1>1 DEF Lower, Settles

\* The first of the steps, and those after it.
LEMMA FirstStep ==
  ASSUME NEW T, NEW steps \in Seq(T), steps # << >>, Rises(steps)
  PROVE  /\ Head(steps) \in T /\ Tail(steps) \in Seq(T) /\ Rises(Tail(steps))
         /\ Range(steps) = {Head(steps)} \cup Range(Tail(steps))
         /\ \A t \in Range(Tail(steps)) : Outranks(t, Head(steps))
         /\ Head(steps) \in Range(steps)
  <1>. DEFINE N == Len(steps)
              r == Tail(steps)
  <1>1. /\ N \in Nat /\ 1 <= N /\ DOMAIN steps = 1 .. N /\ r \in Seq(T) /\ DOMAIN r = 1 .. N - 1
        /\ Head(steps) = steps[1] /\ steps[1] \in T
        /\ \A i \in 1 .. N - 1 : r[i] = steps[i + 1] /\ i + 1 \in 1 .. N
    OBVIOUS
  <1>2. \A i \in 1 .. N : i = 1 \/ i - 1 \in 1 .. N - 1
    BY <1>1
  <1>3. \A i \in 1 .. N : i # 1 => steps[i] = r[i - 1]
    <2>1. ASSUME NEW i \in 1 .. N, i # 1 PROVE r[i - 1] = steps[(i - 1) + 1] /\ (i - 1) + 1 = i
      BY <1>1, <1>2, <2>1
    <2>. QED BY <2>1
  <1>. HIDE DEF N, r
  <1>4. \A i \in DOMAIN r : r[i] \in Range(r)
    BY DEF Range
  <1>5. Rises(r)
    <2>1. SUFFICES ASSUME NEW i \in DOMAIN r, NEW j \in DOMAIN r, i < j PROVE Outranks(r[j], r[i])
      BY DEF Rises
    <2>2. /\ i + 1 \in DOMAIN steps /\ j + 1 \in DOMAIN steps /\ i + 1 < j + 1
          /\ r[i] = steps[i + 1] /\ r[j] = steps[j + 1]
      BY <1>1, <2>1
    <2>. DEFINE x == i + 1
                y == j + 1
    <2>. HIDE DEF x, y
    <2>3. /\ x \in DOMAIN steps /\ y \in DOMAIN steps /\ x < y
          /\ r[i] = steps[x] /\ r[j] = steps[y]
      BY <2>2 DEF x, y
    <2>. QED BY <2>3 DEF Rises
  <1>6. ASSUME NEW t \in Range(r) PROVE Outranks(t, Head(steps)) /\ t \in Range(steps)
    <2>1. PICK i \in DOMAIN r : r[i] = t
      BY DEF Range
    <2>2. i + 1 \in DOMAIN steps /\ 1 \in DOMAIN steps /\ 1 < i + 1 /\ t = steps[i + 1]
      BY <1>1, <2>1
    <2>. DEFINE x == i + 1
    <2>. HIDE DEF x
    <2>3. x \in DOMAIN steps /\ 1 \in DOMAIN steps /\ 1 < x /\ t = steps[x]
      BY <2>2 DEF x
    <2>. QED BY <1>1, <2>3 DEF Rises, Range
  <1>7. Head(steps) \in Range(steps)
    <2>1. 1 \in DOMAIN steps
      BY <1>1
    <2>. QED BY <1>1, <2>1 DEF Range
  <1>8. ASSUME NEW t \in Range(steps) PROVE t = Head(steps) \/ t \in Range(r)
    <2>1. PICK i \in DOMAIN steps : steps[i] = t
      BY DEF Range
    <2>. DEFINE j == i - 1
    <2>2. i = 1 \/ (j \in DOMAIN r /\ t = r[j])
      BY <1>1, <1>2, <1>3, <2>1
    <2>. HIDE DEF j
    <2>. QED BY <1>1, <1>4, <2>1, <2>2
  <1>9. Range(steps) = {Head(steps)} \cup Range(r)
    BY <1>6, <1>7, <1>8
  <1>. QED BY <1>1, <1>5, <1>6, <1>7, <1>9 DEF r

\* A step is through, and the next one is begun.
LEMMA LayNext ==
  ASSUME NEW L, NEW m, NEW u, NEW st \in {"prescan", "scan"}, NEW steps, NEW e \in Seq(EntryType),
         NEW n \in 0 .. Len(e), Ranked(L), LaidSoFar(L, m, u, st, steps, {}, e, n), steps # << >>
  PROVE  LaidSoFar(L, m, u, st, Tail(steps), FilesOf(L, Tail(steps)), e, Len(e))
  <1>. DEFINE s == Head(steps)
              r == Tail(steps)
              todo == ToDo(L, st, steps)
              done == DOMAIN L \ todo
  <1>0. steps \in Seq(DOMAIN L) /\ Rises(steps)
    BY DEF LaidSoFar
  <1>1. /\ s \in DOMAIN L /\ r \in Seq(DOMAIN L) /\ Rises(r)
        /\ Range(steps) = {s} \cup Range(r) /\ s \in Range(steps)
        /\ \A t \in Range(r) : Outranks(t, s)
    BY <1>0, FirstStep
  <1>2. s \notin Range(r)
    BY <1>1 DEF Ranked
  <1>3. st = "prescan" => s \notin OfOverlays(L) /\ \A t \in OfOverlays(L) : Outranks(t, s)
    <2>1. st = "prescan" => s[1] = 0
      BY <1>1 DEF LaidSoFar
    <2>. QED BY <2>1 DEF OfOverlays, Outranks
  <1>4. ToDo(L, st, r) = todo \ {s} /\ s \in todo
    BY <1>1, <1>2, <1>3 DEF ToDo
  <1>5. \A t \in todo \ {s} : Outranks(t, s)
    BY <1>1, <1>3 DEF ToDo
  <1>6. /\ Lower(L, done) /\ Settles(L, m, u, done, e, n) /\ Works(L, m, u, s, {}, e, n)
        /\ Unseen(u, todo, steps, {})
    BY DEF LaidSoFar
  <1>7. st = "prescan" => \A t \in Range(r) : t[1] = 0
    BY <1>1 DEF LaidSoFar
  <1>. HIDE DEF todo, s, r
  <1>8. s \in DOMAIN L \ done /\ \A t \in DOMAIN L \ (done \cup {s}) : Outranks(t, s)
    BY <1>1, <1>4, <1>5
  <1>9. DOMAIN L \ ToDo(L, st, r) = done \cup {s}
    BY <1>1, <1>4
  <1>. HIDE DEF done
  <1>10. Lower(L, done \cup {s}) /\ Settles(L, m, u, done \cup {s}, e, Len(e))
    BY <1>6, <1>8, StepDone
  <1>11. \A t \in ToDo(L, st, r) : \A f : <<t[1], t[2], f>> \notin u
    BY <1>4, <1>6 DEF Unseen, s
  <1>12. LaidSoFar(L, m, u, st, r, FilesOf(L, r), e, Len(e))
    <2>1. Lower(L, DOMAIN L \ ToDo(L, st, r)) /\ Settles(L, m, u, DOMAIN L \ ToDo(L, st, r), e, Len(e))
      BY <1>9, <1>10
    <2>2. r \in Seq(DOMAIN L) /\ Rises(r)
      BY <1>1
    <2>. QED BY <1>7, <1>11, <2>1, <2>2, LayBegins
  <1>. QED BY <1>12 DEF r

\* A file of the step under way is visited.
LEMMA LayVisits ==
  ASSUME NEW L, NEW m, NEW u, NEW st \in {"off", "prescan", "prescanned", "scan"}, NEW steps, NEW l, NEW f \in l, NEW e \in Seq(EntryType),
         NEW n \in 0 .. Len(e), NEW a \in Seq(EntryType), Ranked(L),
         LaidSoFar(L, m, u, st, steps, l, e, n), steps # << >>,
         Adding(L, m, u, Head(steps), f, e, n, a)
  PROVE  LaidSoFar(L, m, u, st, steps, l \ {f}, e \o a, n)
  <1>. DEFINE done == DOMAIN L \ ToDo(L, st, steps)
  <1>1. /\ Lower(L, done) /\ Settles(L, m, u, done, e, n) /\ Works(L, m, u, Head(steps), l, e, n)
        /\ st # "off"
    BY DEF LaidSoFar
  <1>2. /\ Works(L, m, u, Head(steps), l \ {f}, e \o a, n)
        /\ \A k \in 1 .. n : (e \o a)[k] = e[k]
    <2>. DEFINE s == Head(steps)
    <2>. HIDE DEF s
    <2>1. Works(L, m, u, s, l, e, n) /\ Adding(L, m, u, s, f, e, n, a)
      BY <1>1 DEF s
    <2>. QED BY <2>1, WorkGoesOn DEF s
  <1>3. Settles(L, m, u, done, e \o a, n)
    <2>. HIDE DEF done
    <2>1. n \in Nat
      OBVIOUS
    <2>2. \A t \in done : \A g : <<t[1], t[2], g>> \in u <=> <<t[1], t[2], g>> \in u
      OBVIOUS
    <2>. QED BY <1>1, <1>2, <2>1, <2>2, SettlesSame
  <1>4. Unseen(u, ToDo(L, st, steps), steps, l \ {f})
    BY DEF LaidSoFar, Unseen
  <1>. QED BY <1>1, <1>2, <1>3, <1>4 DEF LaidSoFar

\* What is left of the step under way is not listed.
LEMMA LayStops ==
  ASSUME NEW L, NEW m, NEW u, NEW v, NEW st \in {"off", "prescan", "prescanned", "scan"}, NEW steps, NEW l,
         NEW e, NEW n \in Nat, Ranked(L),
         LaidSoFar(L, m, u, st, steps, l, e, n), steps # << >>,
         v = u \cup {<<Head(steps)[1], Head(steps)[2], f>> : f \in l}
  PROVE  LaidSoFar(L, m, v, st, steps, {}, e, n)
  <1>. DEFINE s == Head(steps)
              todo == ToDo(L, st, steps)
              done == DOMAIN L \ todo
  <1>1. /\ Lower(L, done) /\ Settles(L, m, u, done, e, n) /\ Works(L, m, u, s, l, e, n)
        /\ st # "off" /\ Unseen(u, todo, steps, l)
    BY DEF LaidSoFar
  <1>2. s \in todo /\ s \in DOMAIN L
    BY <1>1, FirstStep DEF LaidSoFar, ToDo
  <1>3. Works(L, m, v, s, {}, e, n)
    BY <1>1, WorkStops
  <1>4. ASSUME NEW t \in DOMAIN L, NEW f
        PROVE  <<t[1], t[2], f>> \in v <=> <<t[1], t[2], f>> \in u \/ (t = s /\ f \in l)
    <2>1. t = <<t[1], t[2]>> /\ s = <<s[1], s[2]>>
      BY <1>2 DEF Ranked
    <2>2. (t[1] = s[1] /\ t[2] = s[2]) => t = s
      BY <2>1
    <2>. HIDE DEF s
    <2>. QED BY <2>2 DEF s
  <1>5. todo \subseteq DOMAIN L
    BY DEF LaidSoFar, ToDo, OfOverlays, Range
  <1>6. Unseen(v, todo, steps, {})
    <2>1. ASSUME NEW t \in todo, NEW f, <<t[1], t[2], f>> \in v PROVE t = s
      <3>1. CASE <<t[1], t[2], f>> \in u
        BY <1>1, <3>1 DEF Unseen
      <3>2. CASE <<t[1], t[2], f>> \notin u
        BY <1>4, <1>5, <2>1, <3>2
      <3>. QED BY <3>1, <3>2
    <2>. QED BY <2>1 DEF Unseen
  <1>7. \A t \in done : \A f : <<t[1], t[2], f>> \in u <=> <<t[1], t[2], f>> \in v
    BY <1>2, <1>4
  <1>8. Settles(L, m, v, done, e, n)
    <2>. HIDE DEF done, todo, s
    <2>1. \A k \in 1 .. n : e[k] = e[k]
      OBVIOUS
    <2>. QED BY <1>1, <1>7, <2>1, SettlesSame
  <1>. QED BY <1>1, <1>3, <1>6, <1>8 DEF LaidSoFar

\* The mappings by step, and where their listing stands.
Layers == [s \in AllSteps |-> Mapping(s)]
Laying == LaidSoFar(Layers, disc.missing, unlisted, stage, pending, left, entries, known)
Intact == \A h \in Host : host[h].there <=> h \notin disc.missing

LEMMA LayersAre ==
  ASSUME LoadedOverlays
  PROVE  /\ Ranked(Layers) /\ DOMAIN Layers = AllSteps
         /\ \A s \in AllSteps : Layers[s] = Mapping(s) /\ Mapping(s) \in MappingType
  <1>1. \A s \in AllSteps : s = <<s[1], s[2]>> /\ s[1] \in Nat /\ s[2] \in Nat
                            /\ Mapping(s) \in MappingType
    BY StepIs
  <1>2. DOMAIN Layers = AllSteps /\ \A s \in AllSteps : Layers[s] = Mapping(s)
    BY DEF Layers
  <1>3. ASSUME NEW s \in AllSteps, NEW t \in AllSteps PROVE ~(Outranks(s, t) /\ Outranks(t, s))
    <2>1. s[1] \in Nat /\ s[2] \in Nat /\ t[1] \in Nat /\ t[2] \in Nat
      BY <1>1
    <2>. QED BY <2>1 DEF Outranks
  <1>4. Ranked(Layers)
    <2>. SUFFICES ASSUME NEW s \in AllSteps
                  PROVE  s = <<s[1], s[2]>> /\ \A t \in AllSteps : ~(Outranks(s, t) /\ Outranks(t, s))
      BY <1>2 DEF Ranked
    <2>1. s = <<s[1], s[2]>>
      BY <1>1
    <2>2. \A t \in AllSteps : ~(Outranks(s, t) /\ Outranks(t, s))
      BY <1>3
    <2>. QED BY <2>1, <2>2
  <1>. QED BY <1>1, <1>2, <1>4

LEMMA SameLayers ==
  ASSUME disc' = disc, overlays' = overlays
  PROVE  Layers' = Layers
  BY DEF Layers, AllSteps, Mapping, Mappings, DiscMapping

LEMMA LayersBegun ==
  ASSUME LoadedOverlays, NEW steps \in Seq(AllSteps), Begun(steps)
  PROVE  pending' = steps /\ left' = FilesOf(Layers, steps)
  <1>1. steps # << >> => Head(steps) \in AllSteps
    OBVIOUS
  <1>. QED BY <1>1, LayersAre DEF Begun, FilesOf

\* The orders of D6 are those of the steps to apply.
LEMMA RisingRises ==
  ASSUME NEW s \in Seq(AllSteps), Ordered(s, Rising)
  PROVE  Rises(s)
  <1>1. ASSUME NEW a, NEW b, <<a, b>> \in Rising PROVE Outranks(b, a)
    BY <1>1 DEF Rising
  <1>. QED BY <1>1 DEF Ordered, Rises

\* What a file adds when it is visited.
LEMMA VisitAdds ==
  ASSUME IndexInv, Laying, Intact, NEW f \in left,
         NEW paths, paths = IF host[f.host].there
                            THEN Targets(Mapping(Head(pending)), f) ELSE << >>,
         NEW a, a = [k \in DOMAIN paths |-> [path |-> paths[k], host |-> f.host]]
  PROVE  /\ a \in Seq(EntryType) /\ pending # << >>
         /\ Adding(Layers, disc.missing, unlisted, Head(pending), f, entries, known, a)
  <1>. DEFINE s == Head(pending)
              M == Mapping(s)
  <1>1. /\ LoadedOverlays /\ LayingOut /\ entries \in Seq(EntryType) /\ known \in 0 .. Len(entries)
        /\ known \in Nat /\ Len(entries) \in Nat /\ DOMAIN entries = 1 .. Len(entries)
        /\ known <= Len(entries)
    BY DEF IndexInv
  <1>2. /\ Targets(M, f) \in Seq(Path) /\ f.host \in Host /\ pending # << >>
        /\ s \in AllSteps /\ f \in M.files
    BY <1>1, TargetsSeq
  <1>3. paths \in Seq(Path)
    <2>1. << >> \in Seq(Path)
      OBVIOUS
    <2>. QED BY <1>2, <2>1
  <1>4. a \in Seq(EntryType)
    <2>1. DOMAIN paths = 1 .. Len(paths) /\ Len(paths) \in Nat
      BY <1>3
    <2>2. \A k \in 1 .. Len(paths) : [path |-> paths[k], host |-> f.host] \in EntryType
      BY <1>2, <1>3 DEF EntryType
    <2>. QED BY <2>1, <2>2
  <1>5. Layers[s] = M
    BY <1>1, <1>2, LayersAre
  <1>6. <<s[1], s[2], f>> \notin unlisted
    <2>1. s \in ToDo(Layers, stage, pending)
      <3>1. Layers = Layers /\ DOMAIN Layers = AllSteps
        BY <1>1, LayersAre
      <3>2. s \in Range(pending)
        <4>1. pending \in Seq(AllSteps) /\ pending # << >>
          BY <1>1, <1>2 DEF LayingOut
        <4>2. 1 \in DOMAIN pending /\ s = pending[1]
          BY <4>1
        <4>. QED BY <4>2 DEF Range
      <3>. QED BY <1>2, <3>1, <3>2 DEF ToDo
    <2>2. Unseen(unlisted, ToDo(Layers, stage, pending), pending, left)
      BY DEF Laying, LaidSoFar
    <2>. QED BY <2>1, <2>2 DEF Unseen
  <1>7. host[f.host].there <=> f.host \notin disc.missing
    BY <1>2 DEF Intact
  <1>. HIDE DEF s, M
  <1>8. ASSUME NEW p
        PROVE  f \in GivesIn(Layers, disc.missing, unlisted, s, p) <=>
                    /\ f.at = IF M.kind = "by name" THEN NameOf[p] ELSE p
                    /\ host[f.host].there
    BY <1>2, <1>5, <1>6, <1>7 DEF GivesIn
  <1>9. ASSUME NEW p \in Path PROVE Names(a, p) <=> p \in Range(paths)
    <2>1. DOMAIN a = DOMAIN paths /\ \A k \in DOMAIN paths : a[k].path = paths[k]
      OBVIOUS
    <2>. QED BY <2>1 DEF Names, Range
  <1>10. ASSUME NEW p \in Path
         PROVE  p \in Range(paths) <=> /\ f \in GivesIn(Layers, disc.missing, unlisted, s, p)
                                       /\ Adds(Layers, s) \/ Among(entries, 1, known, p)
    <2>1. CASE ~host[f.host].there
      <3>1. Range(paths) = {}
        BY <2>1 DEF Range
      <3>. QED BY <1>8, <2>1, <3>1
    <2>2. CASE host[f.host].there /\ M.kind = "by name"
      <3>. DEFINE t == [k \in 1 .. known |-> entries[k].path]
                  S == {q \in Path : NameOf[q] = f.at}
      <3>1. t \in Seq(Path)
        <4>1. \A k \in 1 .. known : entries[k].path \in Path
          <5>1. \A k \in 1 .. known : entries[k] \in EntryType
            BY <1>1
          <5>. QED BY <5>1 DEF EntryType
        <4>. QED BY <1>1, <4>1
      <3>2. paths = Kept(t, S)
        BY <2>2 DEF Targets, s, M
      <3>3. p \in Range(t) <=> Among(entries, 1, known, p)
        BY DEF Range, Among
      <3>4. p \in S <=> f.at = NameOf[p]
        OBVIOUS
      <3>. HIDE DEF t, S
      <3>5. Range(paths) = Range(t) \cap S
        BY <3>1, <3>2, KeptSeq
      <3>6. ~Adds(Layers, s)
        BY <1>5, <2>2 DEF Adds
      <3>. QED BY <1>8, <2>2, <3>3, <3>4, <3>5, <3>6
    <2>3. CASE host[f.host].there /\ M.kind # "by name"
      <3>1. paths = IF M.create \/ f.at \in Registered THEN <<f.at>> ELSE << >>
        BY <2>3 DEF Targets, s, M
      <3>2. Adds(Layers, s) <=> M.create
        BY <1>5, <2>3 DEF Adds
      <3>3. p \in Registered <=> Among(entries, 1, known, p) \/ Among(entries, known + 1, Len(entries), p)
        <4>1. \A k : k \in 1 .. Len(entries) <=> k \in 1 .. known \/ k \in known + 1 .. Len(entries)
          BY <1>1
        <4>. QED BY <1>1, <4>1 DEF Registered, Among
      <3>4. ~M.create /\ Among(entries, known + 1, Len(entries), p) => Among(entries, 1, known, p)
        <4>1. Works(Layers, disc.missing, unlisted, s, left, entries, known)
          BY <1>2 DEF Laying, LaidSoFar, s
        <4>2. \A k \in known + 1 .. Len(entries) : Adds(Layers, s) \/ Among(entries, 1, known, entries[k].path)
          BY <4>1 DEF Works
        <4>3. ASSUME Among(entries, known + 1, Len(entries), p), ~M.create
              PROVE  Among(entries, 1, known, p)
          <5>1. PICK k \in known + 1 .. Len(entries) : entries[k].path = p
            BY <4>3 DEF Among
          <5>. QED BY <3>2, <4>2, <4>3, <5>1
        <4>. QED BY <4>3
      <3>5. p \in Range(paths) <=> f.at = p /\ (M.create \/ p \in Registered)
        <4>. DEFINE x == f.at
        <4>1. Range(<<x>>) = {x} /\ Range(<< >>) = {}
          BY DEF Range
        <4>2. CASE M.create \/ x \in Registered
          <5>1. paths = <<x>>
            BY <3>1, <4>2
          <5>. HIDE DEF x
          <5>. QED BY <4>1, <4>2, <5>1 DEF x
        <4>3. CASE ~(M.create \/ x \in Registered)
          <5>1. paths = << >>
            BY <3>1, <4>3
          <5>. QED BY <4>1, <4>3, <5>1
        <4>. QED BY <4>2, <4>3
      <3>. QED BY <1>8, <2>3, <3>2, <3>3, <3>4, <3>5
    <2>. QED BY <2>1, <2>2, <2>3
  <1>11. \A k \in DOMAIN a : a[k].host = f.host
    OBVIOUS
  <1>12. Adding(Layers, disc.missing, unlisted, s, f, entries, known, a)
    BY <1>9, <1>10, <1>11 DEF Adding
  <1>. QED BY <1>2, <1>4, <1>12 DEF s

\* What is on a disc: at every path the file of the source that outranks the others.
FromSources(L, m, u, image) ==
    /\ DOMAIN image = {p \in Path : SourcesIn(L, m, u, p) # {}}
    /\ \A p \in DOMAIN image :
        \E s : Best(SourcesIn(L, m, u, p), s) /\ image[p].host \in HostsIn(L, m, u, s, p)

LayingStages == {"off", "prescan", "prescanned", "scan"}
OutrankInv ==
    /\ stage \in LayingStages => Laying /\ Intact
    /\ stage \notin LayingStages => pending = << >>
    /\ stage = "ready" => FromSources(Layers, disc.missing, unlisted, files)

LEMMA OutrankInit ==
  ASSUME Init
  PROVE  OutrankInv
  <1>1. LoadedOverlays
    BY DEF Init, LoadedOverlays
  <1>. DEFINE L == Layers
              m == disc.missing
  <1>2. /\ stage = "off" /\ pending = << >> /\ entries = << >> /\ unlisted = {} /\ known = 0
        /\ left = {}
    BY DEF Init
  <1>3. ToDo(L, "off", << >>) = DOMAIN L
    BY DEF ToDo
  <1>4. Lower(L, {}) /\ Settles(L, m, {}, {}, << >>, 0)
    BY NothingLaid
  <1>5. LaidSoFar(L, m, {}, "off", << >>, {}, << >>, 0)
    <2>1. DOMAIN L \ ToDo(L, "off", << >>) = {}
      BY <1>3
    <2>2. Rises(<< >>) /\ << >> \in Seq(DOMAIN L) /\ Len(<< >>) = 0
      BY DEF Rises
    <2>3. Unseen({}, ToDo(L, "off", << >>), << >>, {})
      BY DEF Unseen
    <2>. HIDE DEF L, m
    <2>. QED BY <1>4, <2>1, <2>2, <2>3 DEF LaidSoFar
  <1>6. Laying
    BY <1>2, <1>5 DEF Laying
  <1>7. Intact
    BY DEF Init, Intact
  <1>. QED BY <1>2, <1>6, <1>7 DEF OutrankInv

\* The disc itself is begun, before there is anything.
LEMMA PrescanBegins ==
  ASSUME NEW L, NEW m, NEW u, NEW steps \in Seq(DOMAIN L), Rises(steps),
         \A s \in Range(steps) : s[1] = 0, ToDo(L, "prescan", steps) = DOMAIN L,
         \A t \in DOMAIN L : \A f : <<t[1], t[2], f>> \notin u
  PROVE  LaidSoFar(L, m, u, "prescan", steps, FilesOf(L, steps), << >>, Len(<< >>))
  <1>1. DOMAIN L \ ToDo(L, "prescan", steps) = {} /\ Len(<< >>) = 0 /\ << >> \in Seq(EntryType)
    OBVIOUS
  <1>2. Lower(L, {}) /\ Settles(L, m, u, {}, << >>, 0)
    BY NothingLaid
  <1>. QED BY <1>1, <1>2, LayBegins

LEMMA OutrankListing ==
  ASSUME IndexInv, OutrankInv, Listing
  PROVE  OutrankInv'
  <1>1. /\ LoadedOverlays /\ LayingOut /\ entries \in Seq(EntryType) /\ known \in 0 .. Len(entries)
        /\ pending \in Seq(AllSteps) /\ known \in Nat
    BY DEF IndexInv, LayingOut
  <1>2. /\ disc' = disc /\ overlays' = overlays /\ host' = host
        /\ Layers' = Layers /\ disc.missing' = disc.missing
    BY ListingKeeps, SameLayers
  <1>3. Ranked(Layers) /\ DOMAIN Layers = AllSteps
    BY <1>1, LayersAre
  <1>4. /\ Steps(0) \in Seq(AllSteps) /\ Rises(Steps(0)) /\ Range(Steps(0)) = {s \in AllSteps : s[1] = 0}
    <2>1. 0 \in 0 .. Len(overlays)
      BY <1>1, MappingsSeq
    <2>. QED BY <1>1, <2>1, StepsSeq, RisingRises
  <1>. DEFINE m == disc.missing
              Good(u, st, steps, l, e, n) == LaidSoFar(Layers, m, u, st, steps, l, e, n)
              Went == /\ stage \in LayingStages /\ stage' \in LayingStages
                      /\ Good(unlisted', stage', pending', left', entries', known')
  <1>5. stage \in LayingStages => Good(unlisted, stage, pending, left, entries, known)
    BY DEF OutrankInv, Laying
  <1>6. stage \notin LayingStages => pending = << >> /\ left = {}
    BY <1>1 DEF OutrankInv, LayingOut
  <1>7. ASSUME PrescanDisc PROVE Went
    <2>1. /\ stage = "off" /\ stage' = "prescan" /\ Begun(Steps(0)) /\ known' = 0
          /\ entries' = entries /\ unlisted' = unlisted
      BY <1>7 DEF PrescanDisc
    <2>2. pending' = Steps(0) /\ left' = FilesOf(Layers, Steps(0))
      BY <1>1, <1>4, <2>1, LayersBegun
    <2>3. entries = << >> /\ Unseen(unlisted, ToDo(Layers, "off", pending), pending, left)
          /\ pending = << >>
      BY <1>5, <2>1 DEF LaidSoFar, LayingStages
    <2>4. ToDo(Layers, "prescan", Steps(0)) = DOMAIN Layers
      BY <1>3, <1>4 DEF ToDo, OfOverlays
    <2>5. \A t \in DOMAIN Layers : \A f : <<t[1], t[2], f>> \notin unlisted
      BY <2>3 DEF Unseen, ToDo
    <2>6. Good(unlisted, "prescan", Steps(0), FilesOf(Layers, Steps(0)), << >>, Len(<< >>))
      BY <1>3, <1>4, <2>4, <2>5, PrescanBegins
    <2>. QED BY <2>1, <2>2, <2>3, <2>6 DEF LayingStages
  <1>8. ASSUME DVDInit PROVE Went
    <2>. DEFINE steps == (IF stage = "off" THEN Steps(0) ELSE << >>) \o OverlaySteps
    <2>1. /\ stage \in {"off", "prescanned"} /\ stage' = "scan" /\ Begun(steps)
          /\ known' = Len(entries) /\ entries' = entries /\ unlisted' = unlisted
      BY <1>8 DEF DVDInit
    <2>2. /\ steps \in Seq(AllSteps) /\ Rises(steps)
          /\ Range(steps) = IF stage = "off" THEN AllSteps ELSE {s \in AllSteps : s[1] # 0}
      <3>1. CASE stage = "off"
        <4>1. steps = Steps(0) \o OverlaySteps
          BY <3>1
        <4>2. steps \in Seq(AllSteps) /\ Ordered(steps, Rising) /\ Range(steps) = AllSteps
          BY <1>1, <4>1, WholeDisc
        <4>. HIDE DEF steps
        <4>. QED BY <3>1, <4>2, RisingRises
      <3>2. CASE stage # "off"
        <4>1. steps = OverlaySteps
          <5>1. OverlaySteps \in Seq(AllSteps)
            BY <1>1, OverlayStepsSeq
          <5>. QED BY <3>2, <5>1
        <4>2. /\ steps \in Seq(AllSteps) /\ Ordered(steps, Rising)
              /\ Range(steps) = {s \in AllSteps : s[1] # 0}
          BY <1>1, <4>1, OverlayStepsSeq
        <4>. HIDE DEF steps
        <4>. QED BY <3>2, <4>2, RisingRises
      <3>. QED BY <3>1, <3>2
    <2>. HIDE DEF steps
    <2>3. pending' = steps /\ left' = FilesOf(Layers, steps)
      BY <1>1, <2>1, <2>2, LayersBegun
    <2>4. stage \in LayingStages /\ Good(unlisted, stage, pending, left, entries, known)
      BY <1>5, <2>1 DEF LayingStages
    <2>5. pending = << >> /\ known = Len(entries)
      BY <2>1, <2>4 DEF LaidSoFar
    <2>6. ToDo(Layers, "scan", steps) = ToDo(Layers, stage, pending)
      <3>1. Range(pending) = {}
        BY <2>5 DEF Range
      <3>. QED BY <1>3, <2>1, <2>2, <3>1 DEF ToDo, OfOverlays
    <2>7. \A t \in ToDo(Layers, "scan", steps) : \A f : <<t[1], t[2], f>> \notin unlisted
      BY <2>4, <2>5, <2>6 DEF LaidSoFar, Unseen
    <2>8. /\ Lower(Layers, DOMAIN Layers \ ToDo(Layers, "scan", steps))
          /\ Settles(Layers, m, unlisted, DOMAIN Layers \ ToDo(Layers, "scan", steps), entries, Len(entries))
      BY <2>4, <2>5, <2>6 DEF LaidSoFar
    <2>9. steps \in Seq(DOMAIN Layers)
      BY <1>3, <2>2
    <2>10. Good(unlisted, "scan", steps, FilesOf(Layers, steps), entries, Len(entries))
      <3>. HIDE DEF m
      <3>. QED BY <1>1, <2>2, <2>7, <2>8, <2>9, LayBegins
    <2>. QED BY <2>1, <2>3, <2>4, <2>10 DEF LayingStages
  <1>9. ASSUME Visit PROVE Went
    <2>1. PICK f \in left :
            LET paths == IF host[f.host].there
                         THEN Targets(Mapping(Head(pending)), f) ELSE << >>
            IN  /\ left' = left \ {f}
                /\ entries' = entries \o [k \in DOMAIN paths |->
                                            [path |-> paths[k], host |-> f.host]]
      BY <1>9 DEF Visit
    <2>. DEFINE paths == IF host[f.host].there
                         THEN Targets(Mapping(Head(pending)), f) ELSE << >>
                a == [k \in DOMAIN paths |-> [path |-> paths[k], host |-> f.host]]
    <2>2. left' = left \ {f} /\ entries' = entries \o a
      BY <2>1
    <2>3. stage' = stage /\ pending' = pending /\ known' = known /\ unlisted' = unlisted
      BY <1>9 DEF Visit
    <2>4. stage \in LayingStages /\ Laying /\ Intact
      BY <1>6 DEF OutrankInv
    <2>5. /\ a \in Seq(EntryType) /\ pending # << >>
          /\ Adding(Layers, m, unlisted, Head(pending), f, entries, known, a)
      BY <2>4, VisitAdds
    <2>6. Good(unlisted, stage, pending, left \ {f}, entries \o a, known)
      <3>1. Good(unlisted, stage, pending, left, entries, known)
        BY <1>5, <2>4
      <3>. HIDE DEF m, a, paths
      <3>. QED BY <1>1, <1>3, <2>4, <2>5, <3>1, LayVisits DEF LayingStages
    <2>. HIDE DEF a, paths
    <2>. QED BY <2>2, <2>3, <2>4, <2>6
  <1>10. ASSUME NextMapping PROVE Went
    <2>1. /\ pending # << >> /\ left = {} /\ Begun(Tail(pending)) /\ known' = Len(entries)
          /\ stage' = stage /\ entries' = entries /\ unlisted' = unlisted
      BY <1>10 DEF NextMapping
    <2>2. stage \in LayingStages /\ Good(unlisted, stage, pending, {}, entries, known)
      BY <1>5, <1>6, <2>1
    <2>3. stage \in {"prescan", "scan"}
      BY <2>1, <2>2 DEF LaidSoFar, LayingStages
    <2>4. Tail(pending) \in Seq(AllSteps)
      BY <1>1, <2>1
    <2>5. pending' = Tail(pending) /\ left' = FilesOf(Layers, Tail(pending))
      BY <1>1, <2>1, <2>4, LayersBegun
    <2>6. Good(unlisted, stage, Tail(pending), FilesOf(Layers, Tail(pending)), entries, Len(entries))
      <3>. HIDE DEF m
      <3>. QED BY <1>1, <1>3, <2>1, <2>2, <2>3, LayNext
    <2>. QED BY <2>1, <2>2, <2>5, <2>6
  <1>11. ASSUME ListingStops PROVE Went
    <2>1. /\ left # {} /\ left' = {} /\ stage' = stage /\ pending' = pending /\ known' = known
          /\ entries' = entries
          /\ unlisted' = unlisted \cup {<<Head(pending)[1], Head(pending)[2], f>> : f \in left}
      BY <1>11 DEF ListingStops
    <2>2. /\ stage \in LayingStages /\ pending # << >>
          /\ Good(unlisted, stage, pending, left, entries, known)
      BY <1>1, <1>5, <1>6, <2>1 DEF LayingOut
    <2>3. Good(unlisted', stage, pending, {}, entries, known)
      <3>. DEFINE v == unlisted'
      <3>1. v = unlisted \cup {<<Head(pending)[1], Head(pending)[2], f>> : f \in left}
        BY <2>1
      <3>. HIDE DEF m, v
      <3>2. Good(v, stage, pending, {}, entries, known)
        BY <1>1, <1>3, <2>2, <3>1, LayStops DEF LayingStages
      <3>. QED BY <3>2 DEF v
    <2>. QED BY <2>1, <2>2, <2>3
  <1>12. ASSUME FastListingFails PROVE Went
    <2>1. /\ stage = "prescan" /\ stage' = stage /\ Begun(Steps(0)) /\ known' = 0
          /\ entries' = << >> /\ unlisted' = {}
      BY <1>12 DEF FastListingFails
    <2>2. pending' = Steps(0) /\ left' = FilesOf(Layers, Steps(0))
      BY <1>1, <1>4, <2>1, LayersBegun
    <2>3. ToDo(Layers, "prescan", Steps(0)) = DOMAIN Layers
      BY <1>3, <1>4 DEF ToDo, OfOverlays
    <2>4. Good({}, "prescan", Steps(0), FilesOf(Layers, Steps(0)), << >>, Len(<< >>))
      BY <1>3, <1>4, <2>3, PrescanBegins
    <2>. QED BY <2>1, <2>2, <2>4 DEF LayingStages
  <1>13. ASSUME PrescanEnds PROVE Went
    <2>1. /\ stage = "prescan" /\ pending = << >> /\ stage' = "prescanned" /\ pending' = pending
          /\ left' = left /\ known' = known /\ entries' = entries /\ unlisted' = unlisted
      BY <1>13 DEF PrescanEnds
    <2>2. stage \in LayingStages /\ Good(unlisted, "prescan", pending, left, entries, known)
      BY <1>5, <2>1 DEF LayingStages
    <2>3. ToDo(Layers, "prescan", pending) = ToDo(Layers, "prescanned", pending)
      BY DEF ToDo
    <2>4. Good(unlisted, "prescanned", pending, left, entries, known)
      BY <2>1, <2>2, <2>3 DEF LaidSoFar
    <2>. QED BY <2>1, <2>2, <2>4 DEF LayingStages
  <1>20. Went
    <2>. HIDE DEF Went
    <2>. QED BY <1>7, <1>8, <1>9, <1>10, <1>11, <1>12, <1>13 DEF Listing
  <1>21. (stage' \in LayingStages => Laying' /\ Intact')
         /\ (stage' \notin LayingStages => pending' = << >>)
         /\ stage' # "ready"
    <2>1. Intact
      BY <1>20 DEF OutrankInv
    <2>2. Intact'
      BY <1>2, <2>1 DEF Intact
    <2>3. Laying'
      BY <1>2, <1>20 DEF Laying
    <2>. QED BY <1>20, <2>2, <2>3 DEF LayingStages
  <1>. QED BY <1>21 DEF OutrankInv

-----------------------------------------------------------------------------
(* The patches of the choices made.                                        *)

\* An id is of the first patch that has it.
FirstOf(s, id, i) == i \in DOMAIN s /\ s[i].id = id /\ \A j \in 1 .. i - 1 : s[j].id # id

LEMMA FirstNamed ==
  ASSUME NEW xml \in XmlType, NEW id, NEW e
  PROVE  e \in Range(PatchNamed(xml, id)) <=>
            \E i \in DOMAIN xml.patches : FirstOf(xml.patches, id, i) /\ e = xml.patches[i]
  <1>. DEFINE s == xml.patches
              I == {i \in 1 .. Len(s) : s[i].id = id}
  <1>1. s \in Seq(PatchType)
    BY DEF XmlType
  <1>2. SelectInSeq(s, LAMBDA p : p.id = id) = IF I # {} THEN Min(I) ELSE 0
    BY DEF SelectInSeq
  <1>. HIDE DEF s
  <1>3. DOMAIN s = 1 .. Len(s) /\ Len(s) \in Nat
    BY <1>1
  <1>4. CASE I = {}
    <2>1. PatchNamed(xml, id) = << >>
      BY <1>2, <1>4 DEF PatchNamed, s
    <2>2. Range(PatchNamed(xml, id)) = {}
      BY <2>1 DEF Range
    <2>3. \A i \in DOMAIN s : s[i].id # id
      BY <1>3, <1>4
    <2>. HIDE DEF I
    <2>. QED BY <2>2, <2>3 DEF FirstOf, s
  <1>5. CASE I # {}
    <2>1. Min(I) \in I /\ \A n \in I : Min(I) <= n
      <3>1. I \in SUBSET Nat
        BY <1>3
      <3>. HIDE DEF I
      <3>. QED BY <1>5, <3>1, Smallest
    <2>. DEFINE k == Min(I)
    <2>2. k \in DOMAIN s /\ k \in Nat /\ k # 0 /\ s[k].id = id /\ \A n \in DOMAIN s : s[n].id = id => k <= n
      BY <1>3, <2>1
    <2>3. PatchNamed(xml, id) = <<s[k]>>
      <3>. HIDE DEF I
      <3>. QED BY <1>2, <1>5, <2>2 DEF PatchNamed, s
    <2>. HIDE DEF k
    <2>4. Range(PatchNamed(xml, id)) = {s[k]}
      <3>. DEFINE x == s[k]
      <3>1. Range(<<x>>) = {x}
        <4>. HIDE DEF x
        <4>. QED BY DEF Range
      <3>. QED BY <2>3, <3>1
    <2>5. FirstOf(s, id, k)
      <3>1. \A j \in 1 .. k - 1 : j \in DOMAIN s /\ ~(k <= j)
        BY <1>3, <2>2
      <3>. QED BY <2>2, <3>1 DEF FirstOf
    <2>6. ASSUME NEW i, FirstOf(s, id, i) PROVE i = k
      <3>1. i \in DOMAIN s /\ i \in Nat /\ k <= i /\ ~(k \in 1 .. i - 1)
        BY <1>3, <2>2, <2>6 DEF FirstOf
      <3>. QED BY <1>3, <2>2, <3>1
    <2>. QED BY <2>2, <2>4, <2>5, <2>6 DEF s
  <1>. QED BY <1>4, <1>5

\* An option that takes choices stands at the last of them.
LEMMA SelectedIs ==
  ASSUME NEW choices \in Seq(ChoiceType), NEW takes \in SUBSET DOMAIN choices,
         NEW option, NEW was, Selected(option, was, choices, takes)
  PROVE  option.selected = IF takes = {} THEN was.selected ELSE choices[MaxIn(takes)].choice
  <1>1. CASE takes = {}
    BY <1>1 DEF Selected
  <1>2. CASE takes # {}
    <2>1. PICK m \in takes : (\A n \in takes : n <= m) /\ option.selected = choices[m].choice
      BY <1>2 DEF Selected
    <2>2. takes \in SUBSET Nat /\ Len(choices) \in Nat /\ \A n \in takes : n <= Len(choices)
      OBVIOUS
    <2>3. MaxIn(takes) \in takes /\ \A n \in takes : n <= MaxIn(takes)
      BY <1>2, <2>2, Greatest
    <2>4. MaxIn(takes) = m
      <3>1. MaxIn(takes) <= m /\ m <= MaxIn(takes) /\ m \in Nat /\ MaxIn(takes) \in Nat
        BY <2>1, <2>2, <2>3
      <3>. QED BY <3>1
    <2>. QED BY <1>2, <2>1, <2>4
  <1>. QED BY <1>1, <1>2

\* An option is where its pin or its remembered choice put it.
LEMMA ChoiceIs ==
  ASSUME NEW xml \in XmlType, NEW pack \in PackType
  PROVE  /\ DOMAIN Options(xml, pack) = DOMAIN xml.options
         /\ \A i \in DOMAIN xml.options :
                /\ Options(xml, pack)[i] \in OptionType
                /\ Options(xml, pack)[i].choices = xml.options[i].choices
                /\ Options(xml, pack)[i].selected = ChoiceOf(xml.options[i], pack)
  <1>. DEFINE o == xml.options
              c == ApplyConfigDefaults(o, pack.config)
              r == Options(xml, pack)
  <1>1. o \in Seq(OptionType) /\ pack.config \in Seq(ChoiceType) /\ pack.pins \in Seq(ChoiceType)
    BY DEF XmlType, PackType
  <1>. HIDE DEF o
  <1>. DEFINE early == {x \in (DOMAIN pack.config) \X (DOMAIN o) : o[x[2]].id = pack.config[x[1]].id}
  <1>2. /\ c \in Seq(OptionType) /\ DOMAIN c = DOMAIN o
        /\ \A i \in DOMAIN o :
            Selected(c[i], o[i], pack.config, {n \in DOMAIN pack.config : <<n, i>> \in early})
    <2>1. c = Chosen(o, pack.config, early)
      BY DEF ApplyConfigDefaults
    <2>. HIDE DEF c, early
    <2>. QED BY <1>1, <2>1, ChosenSeq
  <1>. HIDE DEF c
  <1>. DEFINE late == {x \in (DOMAIN pack.pins) \X (DOMAIN c) :
                            /\ c[x[2]].id = pack.pins[x[1]].id
                            /\ pack.pins[x[1]].choice <= Len(c[x[2]].choices)}
  <1>3. /\ r \in Seq(OptionType) /\ DOMAIN r = DOMAIN c
        /\ \A i \in DOMAIN c :
            Selected(r[i], c[i], pack.pins, {n \in DOMAIN pack.pins : <<n, i>> \in late})
    <2>1. r = Chosen(c, pack.pins, late)
      BY DEF ApplySelections, Options, c, o
    <2>. HIDE DEF r, late
    <2>2. c \in Seq(OptionType) /\ pack.pins \in Seq(ChoiceType)
      BY <1>1, <1>2
    <2>. DEFINE q == pack.pins
    <2>3. LET x == Chosen(c, q, late)
          IN  /\ x \in Seq(OptionType) /\ DOMAIN x = DOMAIN c
              /\ \A i \in DOMAIN c : Selected(x[i], c[i], q, {n \in DOMAIN q : <<n, i>> \in late})
      <3>1. q \in Seq(ChoiceType)
        BY <1>1
      <3>. HIDE DEF q
      <3>. QED BY <2>2, <3>1, ChosenSeq
    <2>. QED BY <2>1, <2>3
  <1>. HIDE DEF r
  <1>4. ASSUME NEW i \in DOMAIN o
        PROVE  r[i] \in OptionType /\ r[i].choices = o[i].choices /\ r[i].selected = ChoiceOf(o[i], pack)
    <2>. DEFINE remembered == {n \in DOMAIN pack.config : pack.config[n].id = o[i].id}
                pinned == {n \in DOMAIN pack.pins : /\ pack.pins[n].id = o[i].id
                                                    /\ pack.pins[n].choice <= Len(o[i].choices)}
    <2>1. {n \in DOMAIN pack.config : <<n, i>> \in early} = remembered
      OBVIOUS
    <2>2. Selected(c[i], o[i], pack.config, remembered)
      BY <1>2, <2>1
    <2>3. c[i].id = o[i].id /\ c[i].choices = o[i].choices
      BY <2>2 DEF Selected
    <2>4. {n \in DOMAIN pack.pins : <<n, i>> \in late} = pinned
      BY <1>2, <2>3
    <2>5. Selected(r[i], c[i], pack.pins, pinned)
      BY <1>2, <1>3, <2>4
    <2>6. c[i].selected = IF remembered = {} THEN o[i].selected ELSE pack.config[MaxIn(remembered)].choice
      <3>1. remembered \in SUBSET DOMAIN pack.config
        OBVIOUS
      <3>. HIDE DEF remembered
      <3>. QED BY <1>1, <2>2, <3>1, SelectedIs
    <2>7. r[i].selected = IF pinned = {} THEN c[i].selected ELSE pack.pins[MaxIn(pinned)].choice
      <3>1. pinned \in SUBSET DOMAIN pack.pins
        OBVIOUS
      <3>. HIDE DEF pinned
      <3>. QED BY <1>1, <2>5, <3>1, SelectedIs
    <2>8. ChoiceOf(o[i], pack) =
            CHOOSE x \in IF pinned # {} THEN {pack.pins[MaxIn(pinned)].choice}
                         ELSE IF remembered # {} THEN {pack.config[MaxIn(remembered)].choice}
                         ELSE {o[i].selected} : TRUE
      <3>1. ChoiceOf(o[i], pack) =
            CHOOSE x \in IF (IF pinned = {} THEN {} ELSE {pack.pins[MaxIn(pinned)].choice}) # {}
                         THEN IF pinned = {} THEN {} ELSE {pack.pins[MaxIn(pinned)].choice}
                         ELSE IF (IF remembered = {} THEN {} ELSE {pack.config[MaxIn(remembered)].choice}) # {}
                         THEN IF remembered = {} THEN {} ELSE {pack.config[MaxIn(remembered)].choice}
                         ELSE {o[i].selected} : TRUE
        BY DEF ChoiceOf, LastChoice
      <3>. HIDE DEF pinned, remembered
      <3>2. CASE pinned # {}
        BY <3>1, <3>2
      <3>3. CASE pinned = {} /\ remembered # {}
        BY <3>1, <3>3
      <3>4. CASE pinned = {} /\ remembered = {}
        BY <3>1, <3>4
      <3>. QED BY <3>2, <3>3, <3>4
    <2>. HIDE DEF pinned, remembered
    <2>9. \A x : (CHOOSE y \in {x} : TRUE) = x
      OBVIOUS
    <2>10. r[i].selected = ChoiceOf(o[i], pack)
      BY <2>6, <2>7, <2>8, <2>9
    <2>11. r[i].choices = o[i].choices
      BY <2>3, <2>5 DEF Selected
    <2>. QED BY <1>2, <1>3, <2>10, <2>11
  <1>. QED BY <1>2, <1>3, <1>4 DEF r, o

\* A mod's patches are those of the choices made.
LEMMA PatchesAre ==
  ASSUME NEW xml \in XmlType, NEW pack \in PackType
  PROVE  Range(GeneratePatches(xml, pack)) = ChosenPatches(xml, pack)
  <1>. DEFINE o == xml.options
              s == xml.patches
              r == Options(xml, pack)
  <1>1. o \in Seq(OptionType) /\ s \in Seq(PatchType) /\ r \in Seq(OptionType)
    BY OptionsSeq DEF XmlType
  <1>2. /\ DOMAIN r = DOMAIN o
        /\ \A i \in DOMAIN o : /\ r[i] \in OptionType /\ r[i].choices = o[i].choices
                               /\ r[i].selected = ChoiceOf(o[i], pack)
    BY ChoiceIs
  <1>3. ASSUME NEW e
        PROVE  e \in Range(GeneratePatches(xml, pack)) <=>
                \E i \in DOMAIN o : e \in Range(OfOption(xml, r[i]))
    BY <1>2, GeneratedPatches
  <1>. HIDE DEF r
  <1>4. ASSUME NEW e, NEW i \in DOMAIN o
        PROVE  e \in Range(OfOption(xml, r[i])) <=>
                /\ ChoiceOf(o[i], pack) \in DOMAIN o[i].choices
                /\ \E id \in Range(o[i].choices[ChoiceOf(o[i], pack)]) :
                        \E k \in DOMAIN s : FirstOf(s, id, k) /\ e = s[k]
    <2>1. e \in Range(OfOption(xml, r[i])) <=>
                /\ r[i].selected \in 1 .. Len(r[i].choices)
                /\ \E id \in Range(r[i].choices[r[i].selected]) : e \in Range(PatchNamed(xml, id))
      BY <1>2, OfOptionSeq
    <2>2. 1 .. Len(o[i].choices) = DOMAIN o[i].choices
      <3>1. o[i] \in OptionType
        BY <1>1
      <3>2. o[i].choices \in Seq(Seq(STRING))
        BY <3>1 DEF OptionType
      <3>. QED BY <3>2
    <2>3. \A id : e \in Range(PatchNamed(xml, id)) <=> \E k \in DOMAIN s : FirstOf(s, id, k) /\ e = s[k]
      BY FirstNamed
    <2>. HIDE DEF o, s
    <2>. QED BY <1>2, <2>1, <2>2, <2>3
  <1>5. ASSUME NEW e
        PROVE  e \in ChosenPatches(xml, pack) <=>
                \E k \in DOMAIN s : /\ e = s[k] /\ FirstOf(s, s[k].id, k)
                                    /\ \E i \in DOMAIN o :
                                        /\ ChoiceOf(o[i], pack) \in DOMAIN o[i].choices
                                        /\ s[k].id \in Range(o[i].choices[ChoiceOf(o[i], pack)])
    <2>1. \A x : x \in Range(o) <=> \E i \in DOMAIN o : x = o[i]
      BY DEF Range
    <2>. DEFINE P(x, id) == /\ ChoiceOf(x, pack) \in DOMAIN x.choices
                            /\ id \in Range(x.choices[ChoiceOf(x, pack)])
    <2>2. e \in ChosenPatches(xml, pack) <=>
                \E k \in DOMAIN s : /\ e = s[k] /\ \A j \in 1 .. k - 1 : s[j].id # s[k].id
                                    /\ \E x \in Range(o) : P(x, s[k].id)
      BY DEF ChosenPatches
    <2>. HIDE DEF P
    <2>3. \A id : (\E x \in Range(o) : P(x, id)) <=> \E i \in DOMAIN o : P(o[i], id)
      <3>. HIDE DEF o
      <3>. QED BY <2>1
    <2>. HIDE DEF o, s
    <2>. QED BY <2>2, <2>3 DEF FirstOf, P
  <1>6. \A id, k : FirstOf(s, id, k) => s[k].id = id
    BY DEF FirstOf
  <1>. HIDE DEF o, s
  <1>7. ASSUME NEW e
        PROVE  e \in Range(GeneratePatches(xml, pack)) <=> e \in ChosenPatches(xml, pack)
    <2>1. ASSUME e \in Range(GeneratePatches(xml, pack)) PROVE e \in ChosenPatches(xml, pack)
      <3>1. PICK i \in DOMAIN o : e \in Range(OfOption(xml, r[i]))
        BY <1>3, <2>1
      <3>2. PICK id \in Range(o[i].choices[ChoiceOf(o[i], pack)]), k \in DOMAIN s :
                    FirstOf(s, id, k) /\ e = s[k]
        BY <1>4, <3>1
      <3>. QED BY <1>4, <1>5, <1>6, <3>1, <3>2
    <2>2. ASSUME e \in ChosenPatches(xml, pack) PROVE e \in Range(GeneratePatches(xml, pack))
      BY <1>3, <1>4, <1>5, <2>2
    <2>. QED BY <2>1, <2>2
  <1>. QED BY <1>7

-----------------------------------------------------------------------------
(* The disc that is published.                                             *)

LEMMA OutrankPublish ==
  ASSUME IndexInv, OutrankInv, BuildAndPublishRuntimeFst
  PROVE  OutrankInv'
  <1>1. /\ LoadedOverlays /\ entries \in Seq(EntryType) /\ disc \in Discs
        /\ DOMAIN entries = 1 .. Len(entries) /\ Len(entries) \in Nat
    BY DEF IndexInv, LoadedOverlays
  <1>2. UNCHANGED <<disc, overlays, pending, unlisted>> /\ stage = "scan" /\ pending = << >>
    BY DEF BuildAndPublishRuntimeFst
  <1>3. Layers' = Layers
    BY <1>2, SameLayers
  <1>4. CASE stage' = "failed"
    BY <1>2, <1>4 DEF OutrankInv, LayingStages
  <1>5. CASE Placed[Len(entries)].fits /\ stage' = "ready" /\ files' = Image(Placed)
    <2>. DEFINE L == Layers
                m == disc.missing
                u == unlisted
                n == Len(entries)
                image == Image(Placed)
                S(p) == SourcesIn(L, m, u, p)
    <2>1. DOMAIN L \ ToDo(L, "scan", << >>) = DOMAIN L
      <3>1. Range(<< >>) = {}
        BY DEF Range
      <3>. QED BY <3>1 DEF ToDo
    <2>2. LaidSoFar(L, m, u, "scan", << >>, left, entries, known)
      BY <1>2 DEF OutrankInv, LayingStages, Laying
    <2>3. Settles(L, m, u, DOMAIN L, entries, n)
      BY <2>1, <2>2 DEF LaidSoFar
    <2>4. \A p : S(p) \cap DOMAIN L = S(p)
      BY DEF SourcesIn
    <2>5. /\ DOMAIN image = Registered
          /\ \A p \in Registered : Latest(p) \in 1 .. n /\ image[p].host = entries[Latest(p)].host
      BY <1>1, <1>5, ImageIs
    <2>6. \A p \in Registered : /\ p \in Path /\ entries[Latest(p)].path = p
                                /\ \A k \in DOMAIN entries : entries[k].path = p => k <= Latest(p)
      BY <1>1, LatestIs
    <2>7. ASSUME NEW p \in Path PROVE p \in Registered <=> Among(entries, 1, n, p)
      BY <1>1 DEF Registered, Among
    <2>. HIDE DEF L, m, u, n, image
    <2>8. \A p \in Path : p \in Registered <=> S(p) # {}
      BY <2>3, <2>4, <2>7 DEF Settles
    <2>9. DOMAIN image = {p \in Path : S(p) # {}}
      BY <2>5, <2>6, <2>8
    <2>10. ASSUME NEW p \in DOMAIN image
           PROVE  \E s : Best(S(p), s) /\ image[p].host \in HostsIn(L, m, u, s, p)
      <3>1. p \in Registered /\ p \in Path /\ Among(entries, 1, n, p)
        BY <2>5, <2>6, <2>7
      <3>2. PICK s, k : /\ Best(S(p) \cap DOMAIN L, s)
                        /\ LastAmong(entries, n, p, k) /\ entries[k].host \in HostsIn(L, m, u, s, p)
        BY <2>3, <3>1 DEF Settles
      <3>3. k = Latest(p)
        <4>1. k \in 1 .. n /\ entries[k].path = p /\ \A j \in 1 .. n : entries[j].path = p => j <= k
          BY <3>2 DEF LastAmong
        <4>2. n \in Nat /\ DOMAIN entries = 1 .. n
          BY <1>1 DEF n
        <4>3. k <= Latest(p) /\ Latest(p) <= k /\ Latest(p) \in 1 .. n
          BY <2>5, <2>6, <3>1, <4>1, <4>2
        <4>. QED BY <4>1, <4>2, <4>3
      <3>. QED BY <2>4, <2>5, <3>1, <3>2, <3>3
    <2>11. FromSources(L, m, u, image)
      BY <2>9, <2>10 DEF FromSources
    <2>12. FromSources(Layers', disc.missing', unlisted', files')
      BY <1>2, <1>3, <1>5, <2>11 DEF L, m, u, image
    <2>13. pending' = << >>
      BY <1>2
    <2>. QED BY <1>5, <2>12, <2>13 DEF OutrankInv, LayingStages
  <1>6. stage' = "failed" \/ (Placed[Len(entries)].fits /\ stage' = "ready" /\ files' = Image(Placed))
    BY DEF BuildAndPublishRuntimeFst
  <1>. QED BY <1>4, <1>5, <1>6

LEMMA OutrankSame ==
  ASSUME OutrankInv, UNCHANGED <<disc, overlays, index>>,
         host' = host \/ stage \notin LayingStages
  PROVE  OutrankInv'
  <1>1. Layers' = Layers
    BY SameLayers
  <1>2. /\ stage' = stage /\ pending' = pending /\ left' = left /\ known' = known
        /\ entries' = entries /\ unlisted' = unlisted /\ files' = files /\ disc' = disc
    BY DEF index
  <1>3. Laying <=> Laying'
    BY <1>1, <1>2 DEF Laying
  <1>4. stage \in LayingStages /\ Intact => Intact'
    BY <1>2 DEF Intact
  <1>5. stage = "ready" => FromSources(Layers', disc.missing', unlisted', files')
    BY <1>1, <1>2 DEF OutrankInv
  <1>. QED BY <1>2, <1>3, <1>4, <1>5 DEF OutrankInv

LEMMA OutrankNext ==
  ASSUME IndexInv, OutrankInv, [Next]_vars
  PROVE  OutrankInv'
  <1>1. CASE Listing
    BY <1>1, OutrankListing
  <1>2. CASE BuildAndPublishRuntimeFst
    BY <1>2, OutrankPublish
  <1>3. CASE Reading
    <2>1. UNCHANGED <<disc, overlays, index>> /\ host' = host
      BY <1>3, ReadingKeeps
    <2>. QED BY <2>1, OutrankSame
  <1>4. CASE HostChanges
    <2>1. UNCHANGED <<disc, overlays, index>> /\ stage \notin LayingStages
      BY <1>4 DEF HostChanges, Idle, LayingStages
    <2>. QED BY <2>1, OutrankSame
  <1>5. CASE UNCHANGED vars
    <2>1. UNCHANGED <<disc, overlays, index>> /\ host' = host
      BY <1>5 DEF vars
    <2>. QED BY <2>1, OutrankSame
  <1>. QED BY <1>1, <1>2, <1>3, <1>4, <1>5, NextIs

\* What the property says of sources is what the invariant says of them.
LEMMA OutrankIs ==
  ASSUME IndexInv, OutrankInv
  PROVE  OverlaysOutrank
  <1>. DEFINE L == Layers
              m == disc.missing
              u == unlisted
  <1>1. LoadedOverlays /\ disc \in Discs
    BY DEF IndexInv, LoadedOverlays
  <1>2. /\ DOMAIN L = AllSteps
        /\ \A s \in AllSteps : L[s] = Mapping(s)
    BY <1>1, LayersAre
  <1>. HIDE DEF L
  <1>3. ASSUME NEW s \in AllSteps, NEW p PROVE Offered(s, p) = HostsIn(L, m, u, s, p)
    BY <1>2 DEF Offered, HostsIn, GivesIn
  <1>4. ASSUME NEW s, NEW p PROVE HostsIn(L, m, u, s, p) # {} <=> GivesIn(L, m, u, s, p) # {}
    BY DEF HostsIn
  <1>5. ASSUME NEW s \in AllSteps, NEW p
        PROVE  Creates(s, p) <=> Adds(L, s) /\ GivesIn(L, m, u, s, p) # {}
    <2>1. Offered(s, p) # {} <=> GivesIn(L, m, u, s, p) # {}
      BY <1>3, <1>4
    <2>2. Adds(L, s) <=> Mapping(s).create /\ Mapping(s).kind # "by name"
      BY <1>2 DEF Adds
    <2>. QED BY <2>1, <2>2 DEF Creates
  <1>. HIDE DEF m, u
  <1>6. ASSUME NEW p PROVE Sources(p) = SourcesIn(L, m, u, p)
    <2>1. ASSUME NEW s \in AllSteps PROVE s \in Sources(p) <=> s \in SourcesIn(L, m, u, p)
      <3>1. Offered(s, p) # {} <=> GivesIn(L, m, u, s, p) # {}
        BY <1>3, <1>4
      <3>2. s \in Sources(p) <=> /\ Offered(s, p) # {}
                                 /\ Creates(s, p) \/ \E t \in AllSteps : Outranks(s, t) /\ Creates(t, p)
        BY DEF Sources
      <3>3. s \in SourcesIn(L, m, u, p) <=>
                /\ GivesIn(L, m, u, s, p) # {}
                /\ Adds(L, s) \/ \E t \in AllSteps : /\ Outranks(s, t) /\ Adds(L, t)
                                                     /\ GivesIn(L, m, u, t, p) # {}
        BY <1>2 DEF SourcesIn
      <3>. QED BY <1>5, <3>1, <3>2, <3>3
    <2>2. Sources(p) \subseteq AllSteps /\ SourcesIn(L, m, u, p) \subseteq AllSteps
      BY <1>2 DEF Sources, SourcesIn
    <2>. QED BY <2>1, <2>2
  <1>7. ASSUME Idle
        PROVE  /\ DOMAIN files = {p \in Path : Sources(p) # {}}
               /\ \A p \in DOMAIN files : \E s \in Sources(p) :
                    /\ \A t \in Sources(p) \ {s} : Outranks(s, t)
                    /\ files[p].host \in Offered(s, p)
    <2>1. FromSources(L, m, u, files)
      BY <1>7 DEF Idle, OutrankInv, L, m, u
    <2>2. DOMAIN files = {p \in Path : Sources(p) # {}}
      BY <1>6, <2>1 DEF FromSources
    <2>3. ASSUME NEW p \in DOMAIN files
          PROVE  \E s \in Sources(p) : /\ \A t \in Sources(p) \ {s} : Outranks(s, t)
                                       /\ files[p].host \in Offered(s, p)
      <3>1. PICK s : Best(Sources(p), s) /\ files[p].host \in HostsIn(L, m, u, s, p)
        BY <1>6, <2>1 DEF FromSources
      <3>2. s \in Sources(p) /\ s \in AllSteps
        BY <3>1 DEF Best, Sources
      <3>. QED BY <1>3, <3>1, <3>2 DEF Best
    <2>. QED BY <2>2, <2>3
  <1>8. ASSUME NEW pack \in Range(disc.packs), NEW xml \in Range(pack.xmls)
        PROVE  Range(GeneratePatches(xml, pack)) = ChosenPatches(xml, pack)
    <2>1. disc.packs \in Seq(PackType)
      BY <1>1, DiscIs
    <2>2. pack \in PackType
      BY <2>1 DEF Range
    <2>3. pack.xmls \in Seq(XmlType)
      BY <2>2 DEF PackType
    <2>4. xml \in XmlType
      BY <2>3 DEF Range
    <2>. QED BY <2>2, <2>4, PatchesAre
  <1>. QED BY <1>7, <1>8 DEF OverlaysOutrank

\* The published disc has at every path the file of the mapping that outranks the others,
\* whatever of it was not there or not listed, and a mod's patches are those of the choices
\* made (RuntimeRiivolution::Overlays, RegisterFileEntry, DVDInit).
THEOREM ModsAreInOrder == Spec => []OverlaysOutrank
  <1>1. Init => OutrankInv
    BY OutrankInit
  <1>2. IndexInv /\ OutrankInv /\ [Next]_vars => OutrankInv'
    BY OutrankNext
  <1>3. IndexInv /\ OutrankInv => OverlaysOutrank
    BY OutrankIs
  <1>. QED BY <1>1, <1>2, <1>3, IndexInvariant, PTL DEF Spec

-----------------------------------------------------------------------------
(* The NAND store.                                                            *)

\* A map whose every name is that of a file which holds what it says.
Backed(shared, files1) ==
    \A n \in DOMAIN shared : n \in DOMAIN files1 /\ files1[n] = shared[n]

\* The map an installation works on begins with the one on disk, and what it
\* has added to it is written already. This is why a cut leaves no lie behind.
SharedAhead ==
    At("install", "contents") =>
        /\ job.shared \in Seq(Hashes)
        /\ Len(map) <= Len(job.shared)
        /\ \A n \in DOMAIN map : job.shared[n] = map[n]
        /\ Backed(job.shared, app)

PackageOfJob == job.op = "install" => job.package \in Packages

IInv ==
    /\ map \in Seq(Hashes)
    /\ PackageOfJob
    /\ MapNamesWhatIsThere
    /\ SharedAhead

USE DEF nandFiles, Package, Title, Content, At, Installing, Removing, NoJob, Touched

LEMMA InitInv == NandInit => IInv
BY DEF NandInit, IInv, PackageOfJob, MapNamesWhatIsThere, SharedAhead

\* The next content of a package is a content.
LEMMA ContentIsContent ==
    ASSUME PackageOfJob, MoreContents
    PROVE  Content \in Contents
BY PackagesAssumption DEF PackageOfJob, MoreContents

\* Adding to a backed map a content just written under the next name keeps it
\* backed, and leaves alone the files of all names it had.
LEMMA AddedIsBacked ==
    ASSUME NEW shared \in Seq(Hashes), NEW files1, NEW sha1 \in Hashes,
           Backed(shared, files1)
    PROVE  LET more == [n \in DOMAIN files1 \cup {NextName(shared)} |->
                            IF n = NextName(shared) THEN sha1 ELSE files1[n]]
           IN  /\ Added(shared, sha1) \in Seq(Hashes)
               /\ Len(Added(shared, sha1)) = Len(shared) + 1
               /\ \A n \in DOMAIN shared : Added(shared, sha1)[n] = shared[n]
               /\ Backed(Added(shared, sha1), more)
BY DEF Backed, Added, NextName

\* Writing under the next name, whatever is written, disturbs no name in use.
LEMMA NextNameIsFree ==
    ASSUME NEW shared \in Seq(Hashes), NEW files1, NEW bytes, Backed(shared, files1)
    PROVE  Backed(shared, [n \in DOMAIN files1 \cup {NextName(shared)} |->
                              IF n = NextName(shared) THEN bytes ELSE files1[n]])
BY DEF Backed, NextName

\* A map that begins another one is backed by what backs that one.
LEMMA BeginningIsBacked ==
    ASSUME NEW first \in Seq(Hashes), NEW shared \in Seq(Hashes), NEW files1,
           Len(first) <= Len(shared), \A n \in DOMAIN first : shared[n] = first[n],
           Backed(shared, files1)
    PROVE  Backed(first, files1)
BY DEF Backed

LEMMA CutIsBeginning ==
    ASSUME NEW shared \in Seq(Hashes), NEW k \in 0 .. Len(shared)
    PROVE  /\ SubSeq(shared, 1, k) \in Seq(Hashes)
           /\ Len(SubSeq(shared, 1, k)) <= Len(shared)
           /\ \A n \in DOMAIN SubSeq(shared, 1, k) : shared[n] = SubSeq(shared, 1, k)[n]
OBVIOUS

LEMMA StepInv == IInv /\ [NandNext]_nandVars => IInv'
<1> SUFFICES ASSUME IInv, [NandNext]_nandVars PROVE IInv'
    OBVIOUS
<1> USE DEF IInv
<1>1. ASSUME NEW p \in Packages, InstallTitle(p) PROVE IInv'
    BY <1>1 DEF InstallTitle, PackageOfJob, MapNamesWhatIsThere, SharedAhead
<1>2. CASE WriteTicket
    BY <1>2 DEF WriteTicket, PackageOfJob, MapNamesWhatIsThere, SharedAhead
<1>3. CASE WriteTmd
    BY <1>3 DEF WriteTmd, PackageOfJob, MapNamesWhatIsThere, SharedAhead, Backed
<1>4. CASE WriteOwn
    BY <1>4 DEF WriteOwn, MoreContents, NextContent, PackageOfJob, MapNamesWhatIsThere,
                SharedAhead, Backed
<1>5. CASE SkipShared
    BY <1>5 DEF SkipShared, MoreContents, NextContent, PackageOfJob, MapNamesWhatIsThere,
                SharedAhead, Backed
<1>6. CASE WriteShared
    <2>1. At("install", "contents") /\ Content.sha1 \in Hashes
        BY <1>6, ContentIsContent DEF WriteShared, MoreContents, Contents
    <2>2. job.shared \in Seq(Hashes) /\ Backed(job.shared, app)
        BY <2>1 DEF SharedAhead
    <2> DEFINE more == Added(job.shared, Content.sha1)
    <2>3. /\ more \in Seq(Hashes)
          /\ Len(more) = Len(job.shared) + 1
          /\ \A n \in DOMAIN job.shared : more[n] = job.shared[n]
          /\ Backed(more, app')
        <3>1. app' = [n \in DOMAIN app \cup {NextName(job.shared)} |->
                        IF n = NextName(job.shared) THEN Content.sha1 ELSE app[n]]
            BY <1>6 DEF WriteShared, WithApp
        <3> QED
            BY <2>1, <2>2, <3>1, AddedIsBacked
    <2>4. /\ Len(map) <= Len(more)
          /\ \A n \in DOMAIN map : more[n] = map[n]
        BY <2>1, <2>3 DEF SharedAhead
    <2>5. Backed(map, app')
        BY <2>3, <2>4, BeginningIsBacked
    <2>6. /\ job'.shared = more /\ job'.package = job.package
          /\ job'.op = "install" /\ job'.step = "contents" /\ map' = map
        BY <1>6 DEF WriteShared, NextContent
    <2>7. job.package \in Packages
        BY <2>1 DEF PackageOfJob
    <2> HIDE DEF more
    <2> QED
        BY <2>3, <2>4, <2>5, <2>6, <2>7
           DEF PackageOfJob, MapNamesWhatIsThere, SharedAhead, Backed
<1>7. CASE WriteMap
    BY <1>7 DEF WriteMap, PackageOfJob, MapNamesWhatIsThere, SharedAhead, Backed
<1>8. CASE Interrupt
    <2> job' = NoJob
        BY <1>8 DEF Interrupt
    <2>1. CASE UNCHANGED <<app, map>>
        BY <2>1 DEF PackageOfJob, MapNamesWhatIsThere, SharedAhead
    <2>2. CASE At("install", "contents") /\ map' = map /\ app' = WithApp(Torn)
        <3>1. Backed(job.shared, app')
            BY <2>2, NextNameIsFree DEF WithApp, SharedAhead
        <3>2. Backed(map, app')
            BY <2>2, <3>1, BeginningIsBacked DEF SharedAhead
        <3> QED
            BY <2>2, <3>2 DEF PackageOfJob, MapNamesWhatIsThere, SharedAhead, Backed
    <2>3. CASE /\ At("install", "contents") /\ app' = app
               /\ \E k \in 0 .. Len(job.shared) : map' = SubSeq(job.shared, 1, k)
        <3>1. PICK k \in 0 .. Len(job.shared) : map' = SubSeq(job.shared, 1, k)
            BY <2>3
        <3>2. job.shared \in Seq(Hashes) /\ Backed(job.shared, app)
            BY <2>3 DEF SharedAhead
        <3>3. map' \in Seq(Hashes) /\ Backed(map', app)
            BY <3>1, <3>2, CutIsBeginning, BeginningIsBacked
        <3> QED
            BY <2>3, <3>3 DEF PackageOfJob, MapNamesWhatIsThere, SharedAhead, Backed
    <2> QED
        BY <1>8, <2>1, <2>2, <2>3 DEF Interrupt, Interrupted, MoreContents
<1>9. ASSUME NEW t \in Titles, RemoveTitle(t) PROVE IInv'
    BY <1>9 DEF RemoveTitle, PackageOfJob, MapNamesWhatIsThere, SharedAhead
<1>10. ASSUME NEW works \in BOOLEAN,
              RemoveContent(works) \/ RemoveTmd(works) \/ RemoveTicket(works)
       PROVE  IInv'
    BY <1>10 DEF RemoveContent, RemoveTmd, RemoveTicket, PackageOfJob, MapNamesWhatIsThere,
                 SharedAhead
<1>11. CASE PowerLostRemoving
    BY <1>11 DEF PowerLostRemoving, PackageOfJob, MapNamesWhatIsThere, SharedAhead
<1>12. CASE UNCHANGED nandVars
    BY <1>12 DEF nandVars, PackageOfJob, MapNamesWhatIsThere, SharedAhead, Backed
<1> QED
    BY <1>1, <1>2, <1>3, <1>4, <1>5, <1>6, <1>7, <1>8, <1>9, <1>10, <1>11, <1>12
       DEF NandNext, Install, Uninstall

\* Wherever installations end or are cut short, a content that the shared map
\* names is in the file of that name, whole.
THEOREM MapIsTrue == NandSpec => []MapNamesWhatIsThere
<1>1. IInv => MapNamesWhatIsThere
    BY DEF IInv
<1> QED
    BY InitInv, StepInv, <1>1, PTL DEF NandSpec

-----------------------------------------------------------------------------
(* Types, and that no content has two names. *)

Distinct(shared) == \A m, n \in DOMAIN shared : shared[m] = shared[n] => m = n

FilesType ==
    /\ ticket \in [Titles -> Packages \cup {None}]
    /\ tmd \in [Titles -> Packages \cup {None}]
    /\ own \in [Titles -> [Ids -> Hashes \cup {Missing, Torn}]]
    /\ installed \subseteq Packages
AppType ==
    /\ DOMAIN app \subseteq Nat
    /\ \A n \in DOMAIN app : app[n] \in Hashes \cup {Torn}

\* The package of any job is one; the map an installation works on, like the one
\* on disk, has no hash twice.
JobType ==
    /\ job = NoJob \/ (job.op \in {"install", "remove"} /\ job.package \in Packages)
    /\ At("install", "contents") => job.shared \in Seq(Hashes) /\ Distinct(job.shared)
    /\ map \in Seq(Hashes) /\ Distinct(map)

LEMMA ContentOfJob ==
    ASSUME JobType, job # NoJob, job.next \in DOMAIN job.package.contents
    PROVE  /\ Content \in Contents /\ Content.id \in Ids /\ Content.sha1 \in Hashes
           /\ Title \in Titles
<1>1. job.package \in [title : Titles, contents : Seq(Contents)]
    BY PackagesAssumption DEF JobType
<1>2. Content \in Contents /\ Title \in Titles
    BY <1>1
<1> QED BY <1>2 DEF Contents

LEMMA AddedIsDistinct ==
    ASSUME NEW shared \in Seq(Hashes), NEW sha1 \in Hashes, Distinct(shared),
           ~Known(shared, sha1)
    PROVE  Added(shared, sha1) \in Seq(Hashes) /\ Distinct(Added(shared, sha1))
<1> DEFINE more == Added(shared, sha1)
<1>1. /\ more \in Seq(Hashes) /\ DOMAIN more = 1 .. (Len(shared) + 1)
      /\ DOMAIN shared = 1 .. Len(shared)
      /\ \A n \in 1 .. Len(shared) : more[n] = shared[n]
      /\ more[Len(shared) + 1] = sha1
    BY DEF Added
<1> HIDE DEF more
<1>2. ASSUME NEW m \in DOMAIN more, NEW n \in DOMAIN more, more[m] = more[n]
      PROVE  m = n
    <2>1. CASE m \in 1 .. Len(shared) /\ n \in 1 .. Len(shared)
        BY <1>1, <1>2, <2>1 DEF Distinct
    <2>2. CASE m = Len(shared) + 1 \/ n = Len(shared) + 1
        BY <1>1, <1>2, <2>2 DEF Known
    <2> QED BY <1>1, <2>1, <2>2
<1>3. more \in Seq(Hashes) /\ Distinct(more)
    BY <1>1, <1>2 DEF Distinct
<1> QED BY <1>3 DEF more

LEMMA CutIsDistinct ==
    ASSUME NEW shared \in Seq(Hashes), Distinct(shared), NEW k \in 0 .. Len(shared)
    PROVE  SubSeq(shared, 1, k) \in Seq(Hashes) /\ Distinct(SubSeq(shared, 1, k))
BY DEF Distinct

LEMMA WithAppType ==
    ASSUME AppType, NEW bytes \in Hashes \cup {Torn}, job.shared \in Seq(Hashes),
           app' = WithApp(bytes)
    PROVE  AppType'
BY DEF AppType, WithApp, NextName
TypeInv == FilesType /\ AppType /\ JobType

LEMMA TypeInit == NandInit => TypeInv
BY DEF NandInit, TypeInv, FilesType, AppType, JobType, Distinct

\* The writes of an installation.
LEMMA InstallType == ASSUME TypeInv, Install PROVE TypeInv'
<1> USE DEF TypeInv
<1>1. ASSUME NEW p \in Packages, InstallTitle(p) PROVE TypeInv'
    BY <1>1 DEF InstallTitle, FilesType, AppType, JobType, Distinct
<1>2. CASE WriteTicket \/ WriteTmd
    <2>1. job # NoJob /\ job.package \in Packages
        BY <1>2 DEF WriteTicket, WriteTmd, JobType
    <2>2. FilesType' /\ AppType'
        BY <1>2, <2>1 DEF WriteTicket, WriteTmd, FilesType, AppType
    <2>3. JobType'
        BY <1>2, <2>1 DEF WriteTicket, WriteTmd, JobType, Distinct
    <2> QED BY <2>2, <2>3
<1>3. CASE WriteOwn \/ SkipShared \/ WriteShared
    <2>1. /\ job # NoJob /\ job.package \in Packages
          /\ At("install", "contents") /\ job.next \in DOMAIN job.package.contents
          /\ job.shared \in Seq(Hashes) /\ Distinct(job.shared)
        BY <1>3 DEF WriteOwn, SkipShared, WriteShared, MoreContents, JobType
    <2>2. Content.id \in Ids /\ Content.sha1 \in Hashes /\ Title \in Titles
        BY <2>1, ContentOfJob
    <2>3. FilesType'
        BY <1>3, <2>2 DEF WriteOwn, SkipShared, WriteShared, FilesType
    <2>4. AppType'
        <3>1. CASE WriteOwn \/ SkipShared
            BY <3>1 DEF WriteOwn, SkipShared, AppType
        <3>2. CASE WriteShared
            BY <2>1, <2>2, <3>2, WithAppType DEF WriteShared
        <3> QED BY <1>3, <3>1, <3>2
    <2>5. JobType'
        <3>1. CASE WriteOwn \/ SkipShared
            BY <2>1, <3>1 DEF WriteOwn, SkipShared, NextContent, JobType, Distinct
        <3>2. CASE WriteShared
            <4>1. /\ Added(job.shared, Content.sha1) \in Seq(Hashes)
                  /\ Distinct(Added(job.shared, Content.sha1))
                BY <2>1, <2>2, <3>2, AddedIsDistinct DEF WriteShared
            <4>2. /\ job'.op = "install" /\ job'.package = job.package
                  /\ job'.shared = Added(job.shared, Content.sha1) /\ map' = map
                BY <3>2 DEF WriteShared, NextContent
            <4>3. map \in Seq(Hashes) /\ Distinct(map)
                BY DEF JobType
            <4> HIDE DEF Distinct
            <4> QED BY <2>1, <4>1, <4>2, <4>3 DEF JobType
        <3> QED BY <1>3, <3>1, <3>2
    <2> QED BY <2>3, <2>4, <2>5
<1>4. CASE WriteMap
    BY <1>4 DEF WriteMap, FilesType, AppType, JobType, Distinct
<1> QED BY <1>1, <1>2, <1>3, <1>4 DEF Install

\* An installation that is cut short.
LEMMA InterruptType == ASSUME TypeInv, Interrupt PROVE TypeInv'
<1> USE DEF TypeInv
<1>1. job' = NoJob /\ installed' = installed
    BY DEF Interrupt
<1>2. CASE UNCHANGED nandFiles
    BY <1>1, <1>2 DEF FilesType, AppType, JobType, Distinct
<1>3. CASE /\ job.op = "install" /\ UNCHANGED <<app, map, own>>
           /\ \/ ticket' = [ticket EXCEPT ![Title] = None] /\ tmd' = tmd
              \/ /\ \E after \in {tmd[Title], None} : tmd' = [tmd EXCEPT ![Title] = after]
                 /\ ticket' = ticket
    <2>1. Title \in Titles
        BY <1>3, PackagesAssumption DEF JobType
    <2>2. FilesType'
        BY <1>1, <1>3, <2>1 DEF FilesType
    <2> QED BY <1>1, <1>3, <2>2 DEF AppType, JobType, Distinct
<1>4. CASE /\ MoreContents
           /\ own' = [own EXCEPT ![Title] = [own[Title] EXCEPT ![Content.id] = Torn]]
           /\ UNCHANGED <<ticket, tmd, app, map>>
    <2>1. Content.id \in Ids /\ Title \in Titles
        BY <1>4, ContentOfJob DEF MoreContents
    <2> QED BY <1>1, <1>4, <2>1 DEF FilesType, AppType, JobType, Distinct
<1>5. CASE MoreContents /\ app' = WithApp(Torn) /\ UNCHANGED <<ticket, tmd, own, map>>
    <2>1. job.shared \in Seq(Hashes)
        BY <1>5 DEF MoreContents, JobType
    <2>2. AppType'
        BY <1>5, <2>1, WithAppType
    <2> QED BY <1>1, <1>5, <2>2 DEF FilesType, JobType, Distinct
<1>6. CASE /\ At("install", "contents") /\ UNCHANGED <<ticket, tmd, own, app>>
           /\ \E n \in 0 .. Len(job.shared) : map' = SubSeq(job.shared, 1, n)
    <2>1. map' \in Seq(Hashes) /\ Distinct(map')
        BY <1>6, CutIsDistinct DEF JobType
    <2> QED BY <1>1, <1>6, <2>1 DEF FilesType, AppType, JobType, Distinct
<1> QED BY <1>2, <1>3, <1>4, <1>5, <1>6 DEF Interrupt, Interrupted

LEMMA UninstallType == ASSUME TypeInv, Uninstall \/ PowerLostRemoving PROVE TypeInv'
<1> USE DEF TypeInv
<1>1. ASSUME NEW t \in Titles, RemoveTitle(t) PROVE TypeInv'
    BY <1>1 DEF RemoveTitle, FilesType, AppType, JobType, Distinct
<1>2. ASSUME NEW works \in BOOLEAN, RemoveContent(works) PROVE TypeInv'
    <2>1. Content.id \in Ids /\ Title \in Titles
        BY <1>2, ContentOfJob DEF RemoveContent
    <2>2. FilesType'
        BY <1>2, <2>1 DEF RemoveContent, FilesType
    <2> QED BY <1>2, <2>2 DEF RemoveContent, AppType, JobType, Distinct
<1>3. ASSUME NEW works \in BOOLEAN, RemoveTmd(works) \/ RemoveTicket(works) PROVE TypeInv'
    <2>1. FilesType'
        BY <1>3 DEF RemoveTmd, RemoveTicket, FilesType
    <2> QED BY <1>3, <2>1 DEF RemoveTmd, RemoveTicket, AppType, JobType, Distinct
<1>4. CASE PowerLostRemoving
    BY <1>4 DEF PowerLostRemoving, FilesType, AppType, JobType, Distinct
<1> QED BY <1>1, <1>2, <1>3, <1>4 DEF Uninstall

\* Every file of the NAND holds a value of its kind, and the map never names one
\* content twice, wherever installations are cut short.
THEOREM NandTypeCorrect == NandSpec => []NandTypeOK
<1>1. TypeInv /\ [NandNext]_nandVars => TypeInv'
    BY InstallType, InterruptType, UninstallType
       DEF NandNext, nandVars, TypeInv, FilesType, AppType, JobType, Distinct
<1>2. TypeInv => NandTypeOK
    BY DEF TypeInv, FilesType, AppType, JobType, Distinct, NandTypeOK
<1> QED BY TypeInit, <1>1, <1>2, PTL DEF NandSpec

-----------------------------------------------------------------------------
(* What was reported installed stays complete. *)

\* A content is where its title finds it, going by the given map.
InPlace(t, c, shared) == IF c.shared THEN Known(shared, c.sha1) ELSE own[t][c.id] = c.sha1

Complete ==
    ~mapTorn => \A p \in installed :
        /\ ticket[p.title] = p /\ tmd[p.title] = p
        /\ \A i \in DOMAIN p.contents : InPlace(p.title, p.contents[i], map)

\* A title that is being installed or removed counts as installed no more.
InWork == job # NoJob => \A p \in installed : p.title # Title

\* What an installation has done so far is done.
Progress ==
    job.op = "install" =>
        /\ job.step \in {"ticket", "tmd", "contents"}
        /\ job.step # "ticket" => ticket[Title] = Package
        /\ job.step = "contents" =>
             /\ tmd[Title] = Package
             /\ job.next \in Nat \ {0}
             /\ \A i \in DOMAIN Package.contents :
                   i < job.next => InPlace(Title, Package.contents[i], job.shared)

\* A removal goes by the TMD, which is one of the title it lies under.
TmdOfTitle == \A t \in Titles : tmd[t] # None => tmd[t].title = t

KeptInv == TypeInv /\ IInv /\ Complete /\ InWork /\ Progress /\ TmdOfTitle

LEMMA KeptInit == NandInit => Complete /\ InWork /\ Progress /\ TmdOfTitle
BY DEF NandInit, Complete, InWork, Progress, TmdOfTitle

\* A map that goes on from another knows what that one knows.
LEMMA LongerKnows ==
    ASSUME NEW first \in Seq(Hashes), NEW shared \in Seq(Hashes),
           Len(first) <= Len(shared), \A n \in DOMAIN first : shared[n] = first[n],
           NEW sha1, Known(first, sha1)
    PROVE  Known(shared, sha1)
BY DEF Known

LEMMA AddedKnows ==
    ASSUME NEW shared \in Seq(Hashes), NEW sha1 \in Hashes
    PROVE  /\ Known(Added(shared, sha1), sha1)
           /\ \A h : Known(shared, h) => Known(Added(shared, sha1), h)
<1>1. /\ DOMAIN Added(shared, sha1) = 1 .. (Len(shared) + 1) /\ DOMAIN shared = 1 .. Len(shared)
      /\ Added(shared, sha1)[Len(shared) + 1] = sha1
      /\ \A n \in 1 .. Len(shared) : Added(shared, sha1)[n] = shared[n]
      /\ Len(shared) + 1 \in 1 .. (Len(shared) + 1) /\ Len(shared) \in Nat
    BY DEF Added
<1> QED BY <1>1 DEF Known

\* A step of a job leaves alone what lies under the titles that are complete.
LEMMA OthersStayComplete ==
    ASSUME KeptInv, job # NoJob, ~mapTorn' => ~mapTorn,
           \A t \in Titles : t # Title => ticket'[t] = ticket[t] /\ tmd'[t] = tmd[t]
                                        /\ own'[t] = own[t],
           map' = map, installed' = installed
    PROVE  Complete'
<1> SUFFICES ASSUME ~mapTorn', NEW p \in installed
             PROVE  /\ ticket'[p.title] = p /\ tmd'[p.title] = p
                    /\ \A i \in DOMAIN p.contents : InPlace(p.title, p.contents[i], map)'
    BY DEF Complete
<1>1. p.title # Title /\ p.title \in Titles
    BY PackagesAssumption DEF KeptInv, TypeInv, FilesType, InWork
<1>2. /\ ticket[p.title] = p /\ tmd[p.title] = p
      /\ \A i \in DOMAIN p.contents : InPlace(p.title, p.contents[i], map)
    BY DEF KeptInv, Complete
<1> QED BY <1>1, <1>2 DEF InPlace

\* The beginning of a job: its title is complete no more.
LEMMA BeginKept ==
    ASSUME KeptInv, (\E p \in Packages : InstallTitle(p)) \/ (\E t \in Titles : RemoveTitle(t))
    PROVE  Complete' /\ InWork' /\ Progress' /\ TmdOfTitle'
<1> USE DEF KeptInv
<1>1. ASSUME NEW p \in Packages, InstallTitle(p) PROVE Complete' /\ InWork' /\ Progress' /\ TmdOfTitle'
    BY <1>1 DEF InstallTitle, Complete, InWork, Progress, TmdOfTitle, InPlace
<1>2. ASSUME NEW t \in Titles, RemoveTitle(t) PROVE Complete' /\ InWork' /\ Progress' /\ TmdOfTitle'
    <2>1. tmd[t].title = t
        BY <1>2 DEF RemoveTitle, TmdOfTitle
    <2> QED BY <1>2, <2>1 DEF RemoveTitle, Complete, InWork, Progress, TmdOfTitle, InPlace
<1> QED BY <1>1, <1>2

\* The writes of an installation before that of the map.
LEMMA WritesKept ==
    ASSUME KeptInv, WriteTicket \/ WriteTmd \/ WriteOwn \/ SkipShared \/ WriteShared
    PROVE  Complete' /\ InWork' /\ Progress' /\ TmdOfTitle'
<1> USE DEF KeptInv
<1>1. /\ job # NoJob /\ job.op = "install" /\ job.package \in Packages
      /\ Title \in Titles
    BY PackagesAssumption
       DEF TypeInv, JobType, WriteTicket, WriteTmd, WriteOwn, SkipShared, WriteShared, MoreContents
<1>2. /\ job'.op = "install" /\ job'.package = job.package
      /\ installed' = installed /\ map' = map /\ mapTorn' = mapTorn
    BY DEF WriteTicket, WriteTmd, WriteOwn, SkipShared, WriteShared, NextContent
<1>3. /\ ticket \in [Titles -> Packages \cup {None}] /\ tmd \in [Titles -> Packages \cup {None}]
      /\ own \in [Titles -> [Ids -> Hashes \cup {Missing, Torn}]]
    BY DEF TypeInv, FilesType
<1>4. InWork'
    BY <1>1, <1>2 DEF InWork
<1>5. Complete'
    <2>1. \A t \in Titles : t # Title => ticket'[t] = ticket[t] /\ tmd'[t] = tmd[t]
                                       /\ own'[t] = own[t]
        BY <1>1, <1>3 DEF WriteTicket, WriteTmd, WriteOwn, SkipShared, WriteShared
    <2> QED BY <1>1, <1>2, <2>1, OthersStayComplete
<1>6. TmdOfTitle'
    BY <1>1, <1>3 DEF TmdOfTitle, WriteTicket, WriteTmd, WriteOwn, SkipShared, WriteShared
<1>7. Progress'
    <2>1. CASE WriteTicket
        BY <1>1, <1>3, <2>1 DEF WriteTicket, Progress
    <2>2. CASE WriteTmd
        <3>1. \A i \in DOMAIN Package.contents : ~(i < 1)
            BY <1>1, PackagesAssumption
        <3> QED BY <1>1, <1>3, <2>2, <3>1 DEF WriteTmd, Progress
    <2>3. CASE WriteOwn \/ SkipShared \/ WriteShared
        <3>1. /\ MoreContents
              /\ job'.step = "contents" /\ job'.next = job.next + 1
              /\ ticket' = ticket /\ tmd' = tmd
            BY <2>3 DEF WriteOwn, SkipShared, WriteShared, NextContent, MoreContents
        <3>2. /\ job.next \in Nat \ {0} /\ ticket[Title] = Package /\ tmd[Title] = Package
              /\ \A i \in DOMAIN Package.contents :
                    i < job.next => InPlace(Title, Package.contents[i], job.shared)
            BY <1>1, <3>1 DEF Progress, MoreContents
        <3>3. /\ job.next \in DOMAIN Package.contents /\ Package.contents \in Seq(Contents)
              /\ DOMAIN Package.contents \subseteq Nat
              /\ Content \in Contents /\ job.shared \in Seq(Hashes)
            BY <1>1, <3>1, PackagesAssumption DEF MoreContents, TypeInv, JobType
        <3>4. ASSUME NEW i \in DOMAIN Package.contents, i < job.next + 1
              PROVE  InPlace(Title, Package.contents[i], job.shared)'
            <4>1. Package.contents[i] \in Contents /\ (i < job.next \/ i = job.next)
                BY <3>2, <3>3, <3>4
            <4>2. CASE WriteOwn
                <5>1. /\ ~Content.shared /\ job'.shared = job.shared
                      /\ own' = [own EXCEPT ![Title] =
                                    [own[Title] EXCEPT ![Content.id] = Content.sha1]]
                    BY <4>2 DEF WriteOwn, NextContent
                <5>2. own'[Title] = [own[Title] EXCEPT ![Content.id] = Content.sha1]
                    BY <1>1, <1>3, <5>1
                <5>3. Content.id \in Ids /\ own[Title] \in [Ids -> Hashes \cup {Missing, Torn}]
                    BY <1>1, <1>3, <3>3 DEF Contents
                <5>4. CASE i = job.next
                    BY <1>2, <5>1, <5>2, <5>3, <5>4 DEF InPlace
                <5>5. CASE i < job.next
                    <6>1. ~Package.contents[i].shared => Package.contents[i].id # Content.id
                        BY <1>1, <3>2, <3>3, <5>1, <5>5, IdsAssumption
                    <6>2. InPlace(Title, Package.contents[i], job.shared)
                        BY <3>2, <5>5
                    <6>3. Package.contents[i].id \in Ids
                        BY <4>1 DEF Contents
                    <6> QED BY <1>2, <5>1, <5>2, <5>3, <6>1, <6>2, <6>3 DEF InPlace
                <5> QED BY <4>1, <5>4, <5>5
            <4>3. CASE SkipShared
                BY <1>2, <3>2, <4>1, <4>3 DEF SkipShared, NextContent, InPlace
            <4>4. CASE WriteShared
                <5>1. /\ Content.shared /\ job'.shared = Added(job.shared, Content.sha1)
                      /\ own' = own
                    BY <4>4 DEF WriteShared, NextContent
                <5>2. Content.sha1 \in Hashes
                    BY <3>3 DEF Contents
                <5>3. /\ Known(job'.shared, Content.sha1)
                      /\ \A h : Known(job.shared, h) => Known(job'.shared, h)
                    BY <3>3, <5>1, <5>2, AddedKnows
                <5> QED BY <1>2, <3>2, <4>1, <5>1, <5>3 DEF InPlace
            <4> QED BY <2>3, <4>2, <4>3, <4>4
        <3> QED BY <1>2, <3>1, <3>2, <3>4 DEF Progress
    <2> QED BY <2>1, <2>2, <2>3
<1> QED BY <1>4, <1>5, <1>6, <1>7

\* The end of an installation: the map it went by is the one on disk now.
LEMMA WriteMapKept ==
    ASSUME KeptInv, WriteMap
    PROVE  Complete' /\ InWork' /\ Progress' /\ TmdOfTitle'
<1> USE DEF KeptInv
<1>1. /\ At("install", "contents") /\ job.next \notin DOMAIN Package.contents
      /\ map' = job.shared /\ job' = NoJob /\ installed' = installed \cup {Package}
      /\ ticket' = ticket /\ tmd' = tmd /\ own' = own /\ mapTorn' = mapTorn
    BY DEF WriteMap
<1>2. InWork' /\ Progress' /\ TmdOfTitle'
    BY <1>1 DEF InWork, Progress, TmdOfTitle
<1>3. job.package \in Packages /\ Package.contents \in Seq(Contents)
    BY <1>1, PackagesAssumption DEF TypeInv, JobType
<1>4. /\ job.next \in Nat \ {0} /\ ticket[Title] = Package /\ tmd[Title] = Package
      /\ \A i \in DOMAIN Package.contents :
            i < job.next => InPlace(Title, Package.contents[i], job.shared)
    BY <1>1 DEF Progress
<1>5. \A i \in DOMAIN Package.contents : i < job.next
    BY <1>1, <1>3, <1>4
<1>6. /\ map \in Seq(Hashes) /\ job.shared \in Seq(Hashes) /\ Len(map) <= Len(job.shared)
      /\ \A n \in DOMAIN map : job.shared[n] = map[n]
    BY <1>1 DEF IInv, SharedAhead
<1>7. ASSUME ~mapTorn', NEW p \in installed'
      PROVE  /\ ticket'[p.title] = p /\ tmd'[p.title] = p
             /\ \A i \in DOMAIN p.contents : InPlace(p.title, p.contents[i], map)'
    <2>1. CASE p = Package
        BY <1>1, <1>4, <1>5, <2>1 DEF InPlace
    <2>2. CASE p \in installed
        <3>1. /\ ticket[p.title] = p /\ tmd[p.title] = p
              /\ \A i \in DOMAIN p.contents : InPlace(p.title, p.contents[i], map)
            BY <1>1, <1>7, <2>2 DEF Complete
        <3>2. \A h : Known(map, h) => Known(job.shared, h)
            BY <1>6, LongerKnows
        <3> QED BY <1>1, <3>1, <3>2 DEF InPlace
    <2> QED BY <1>1, <1>7, <2>1, <2>2
<1>8. Complete'
    BY <1>7 DEF Complete
<1> QED BY <1>2, <1>8

\* An installation that is cut short has touched its own title only, or the map.
LEMMA InterruptKept ==
    ASSUME KeptInv, Interrupt
    PROVE  Complete' /\ InWork' /\ Progress' /\ TmdOfTitle'
<1> USE DEF KeptInv
<1>1. job.op = "install" /\ job # NoJob /\ job' = NoJob /\ installed' = installed
    BY DEF Interrupt, Interrupted, MoreContents
<1>2. InWork' /\ Progress'
    BY <1>1 DEF InWork, Progress
<1>3. /\ ticket \in [Titles -> Packages \cup {None}] /\ tmd \in [Titles -> Packages \cup {None}]
      /\ own \in [Titles -> [Ids -> Hashes \cup {Missing, Torn}]]
      /\ Title \in Titles
    BY <1>1, PackagesAssumption DEF TypeInv, FilesType, JobType
<1>4. TmdOfTitle'
    BY <1>3 DEF TmdOfTitle, Interrupt, Interrupted
<1>5. CASE mapTorn' = TRUE
    BY <1>2, <1>4, <1>5 DEF Complete
<1>6. CASE map' = map /\ mapTorn' = mapTorn
    <2>1. \A t \in Titles : t # Title => ticket'[t] = ticket[t] /\ tmd'[t] = tmd[t]
                                       /\ own'[t] = own[t]
        BY <1>3 DEF Interrupt, Interrupted
    <2>2. Complete'
        BY <1>1, <1>6, <2>1, OthersStayComplete
    <2> QED BY <1>2, <1>4, <2>2
<1> QED BY <1>5, <1>6 DEF Interrupt, Interrupted

LEMMA RemovalKept ==
    ASSUME KeptInv, NEW works \in BOOLEAN,
           RemoveContent(works) \/ RemoveTmd(works) \/ RemoveTicket(works) \/ PowerLostRemoving
    PROVE  Complete' /\ InWork' /\ Progress' /\ TmdOfTitle'
<1> USE DEF KeptInv
<1>1. /\ job.op = "remove" /\ job # NoJob /\ installed' = installed
      /\ map' = map /\ mapTorn' = mapTorn
    BY DEF RemoveContent, RemoveTmd, RemoveTicket, PowerLostRemoving
<1>2. /\ ticket \in [Titles -> Packages \cup {None}] /\ tmd \in [Titles -> Packages \cup {None}]
      /\ own \in [Titles -> [Ids -> Hashes \cup {Missing, Torn}]]
      /\ Title \in Titles
    BY <1>1, PackagesAssumption DEF TypeInv, FilesType, JobType
<1>3. \A t \in Titles : t # Title => ticket'[t] = ticket[t] /\ tmd'[t] = tmd[t]
                                   /\ own'[t] = own[t]
    BY <1>2 DEF RemoveContent, RemoveTmd, RemoveTicket, PowerLostRemoving
<1>4. Complete'
    BY <1>1, <1>3, OthersStayComplete
<1>5. job' = NoJob \/ (job'.op = "remove" /\ job'.package = job.package)
    BY DEF RemoveContent, RemoveTmd, RemoveTicket, PowerLostRemoving
<1>6. InWork' /\ Progress'
    BY <1>1, <1>5 DEF InWork, Progress
<1>7. TmdOfTitle'
    BY <1>2 DEF TmdOfTitle, RemoveContent, RemoveTmd, RemoveTicket, PowerLostRemoving
<1> QED BY <1>4, <1>6, <1>7

\* A content in its place is what is read there, as the map names what is there.
LEMMA InPlaceIsRead ==
    ASSUME MapNamesWhatIsThere, NEW t, NEW c, InPlace(t, c, map)
    PROVE  Bytes(t, c) = c.sha1
<1>1. CASE ~c.shared
    BY <1>1 DEF InPlace, Bytes
<1>2. CASE c.shared
    <2>1. Known(map, c.sha1)
        BY <1>2 DEF InPlace
    <2>2. NameIn(map, c.sha1) \in DOMAIN map /\ map[NameIn(map, c.sha1)] = c.sha1
        BY <2>1 DEF Known, NameIn
    <2> QED BY <1>2, <2>1, <2>2 DEF Bytes, MapNamesWhatIsThere
<1> QED BY <1>1, <1>2

\* A title whose installation was reported complete is read complete, through
\* the failures and removals of others, while no write of the map was cut short.
THEOREM InstalledStaysComplete == NandSpec => []InstalledIsComplete
<1>1. NandInit => KeptInv
    BY InitInv, TypeInit, KeptInit DEF KeptInv
<1>2. KeptInv /\ [NandNext]_nandVars => KeptInv'
    <2> SUFFICES ASSUME KeptInv, [NandNext]_nandVars PROVE Complete' /\ InWork' /\ Progress' /\ TmdOfTitle'
        BY StepInv, InstallType, InterruptType, UninstallType
           DEF KeptInv, NandNext, nandVars, TypeInv, FilesType, AppType, JobType, Distinct
    <2>1. CASE UNCHANGED nandVars
        BY <2>1 DEF nandVars, KeptInv, Complete, InWork, Progress, TmdOfTitle, InPlace
    <2> QED
        BY <2>1, BeginKept, WritesKept, WriteMapKept, InterruptKept, RemovalKept
           DEF NandNext, Install, Uninstall
<1>3. KeptInv => InstalledIsComplete
    <2> SUFFICES ASSUME KeptInv, ~mapTorn, NEW p \in installed
                 PROVE  /\ p.title \in InstalledTitles /\ ticket[p.title] = p /\ tmd[p.title] = p
                        /\ \A i \in DOMAIN p.contents :
                              Bytes(p.title, p.contents[i]) = p.contents[i].sha1
        BY DEF InstalledIsComplete
    <2>1. /\ ticket[p.title] = p /\ tmd[p.title] = p
          /\ \A i \in DOMAIN p.contents : InPlace(p.title, p.contents[i], map)
        BY DEF KeptInv, Complete
    <2>2. p \in Packages /\ p # None /\ p.title \in Titles
        BY PackagesAssumption, MarkersAssumption DEF KeptInv, TypeInv, FilesType
    <2> QED BY <2>1, <2>2, InPlaceIsRead DEF KeptInv, IInv, InstalledTitles
<1> QED BY <1>1, <1>2, <1>3, PTL DEF NandSpec
=============================================================================
