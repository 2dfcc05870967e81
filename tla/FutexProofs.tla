----------------------------- MODULE FutexProofs -----------------------------
(***************************************************************************)
(* Proofs about the futex queue (module Futex), about threads that use its *)
(* calls in any order (FutexCalls) and about the mutex of libcool over it  *)
(* (PThreadMutex), for any number of threads, address spaces, words and    *)
(* waiters; and about a program that uses a mutex, a condition variable or *)
(* a once (MCLocks).                                                       *)
(***************************************************************************)
EXTENDS MCLocks, FutexCalls, Induction

\* Every thread has at most one entry of the queue q.
OnePlace(q) == \A i, j \in 1 .. Len(q) : q[i][2] = q[j][2] => i = j

\* r is what a retain() that removes the threads in T makes of the first n
\* entries of q.
Kept(q, T, n, r) ==
    /\ Len(r) <= n
    /\ \A i \in 1 .. Len(r) : \E j \in 1 .. n : r[i] = q[j] /\ q[j][2] \notin T
    /\ \A j \in 1 .. n : q[j][2] \notin T => \E i \in 1 .. Len(r) : r[i] = q[j]
    /\ OnePlace(q) => OnePlace(r)

\* One round of retain(): the entry is dropped.
LEMMA KeptDrop ==
    ASSUME NEW Q, NEW q \in Seq(Q), NEW T, NEW n \in 0 .. (Len(q) - 1), NEW r \in Seq(Q),
           Kept(q, T, n, r), q[n + 1][2] \in T
    PROVE  Kept(q, T, n + 1, r)
  <1>1. Len(r) \in Nat /\ Len(q) \in Nat BY SeqLength
  <1>2. Len(r) <= n + 1 BY <1>1 DEF Kept
  <1>3. \A i \in 1 .. Len(r) : \E j \in 1 .. (n + 1) : r[i] = q[j] /\ q[j][2] \notin T
    BY <1>1 DEF Kept
  <1>4. \A j \in 1 .. (n + 1) : q[j][2] \notin T => \E i \in 1 .. Len(r) : r[i] = q[j]
    <2> SUFFICES ASSUME NEW j \in 1 .. (n + 1), q[j][2] \notin T
                 PROVE  \E i \in 1 .. Len(r) : r[i] = q[j]
      OBVIOUS
    <2>1. j \in 1 .. n OBVIOUS
    <2> QED BY <2>1 DEF Kept
  <1> QED BY <1>2, <1>3, <1>4 DEF Kept

\* One round of retain(): the entry stays.
LEMMA KeptAppend ==
    ASSUME NEW Q, NEW q \in Seq(Q), NEW T, NEW n \in 0 .. (Len(q) - 1), NEW r \in Seq(Q),
           Kept(q, T, n, r), q[n + 1][2] \notin T
    PROVE  Kept(q, T, n + 1, Append(r, q[n + 1]))
  <1> DEFINE e == q[n + 1]
             s == Append(r, e)
  <1>1. Len(r) \in Nat /\ Len(q) \in Nat /\ n + 1 \in 1 .. Len(q) BY SeqLength
  <1>2. e \in Q BY <1>1, SeqElement
  <1> HIDE DEF e
  <1>3. /\ Len(s) = Len(r) + 1 /\ s[Len(r) + 1] = e
        /\ \A i \in 1 .. Len(r) : s[i] = r[i]
    BY <1>1, <1>2, SeqAppend
  <1> HIDE DEF s
  <1>4. Len(s) <= n + 1 BY <1>1, <1>3 DEF Kept
  <1>5. ASSUME NEW i \in 1 .. Len(s)
        PROVE  \E j \in 1 .. (n + 1) : s[i] = q[j] /\ q[j][2] \notin T
    <2>1. CASE i = Len(r) + 1 BY <1>1, <1>3, <2>1 DEF e
    <2>2. CASE i \in 1 .. Len(r)
      <3>1. PICK j \in 1 .. n : r[i] = q[j] /\ q[j][2] \notin T BY <2>2 DEF Kept
      <3>2. s[i] = q[j] /\ j \in 1 .. (n + 1) BY <1>3, <2>2, <3>1
      <3> QED BY <3>1, <3>2
    <2> QED BY <1>1, <1>3, <2>1, <2>2
  <1>6. ASSUME NEW j \in 1 .. (n + 1), q[j][2] \notin T
        PROVE  \E i \in 1 .. Len(s) : s[i] = q[j]
    <2>1. CASE j = n + 1 BY <1>1, <1>3, <2>1 DEF e
    <2>2. CASE j \in 1 .. n
      <3>1. PICK i \in 1 .. Len(r) : r[i] = q[j] BY <1>6, <2>2 DEF Kept
      <3> QED BY <1>1, <1>3, <3>1
    <2> QED BY <2>1, <2>2
  <1>7. ASSUME OnePlace(q) PROVE OnePlace(s)
    <2>1. OnePlace(r) BY <1>7 DEF Kept
    <2>2. \A i \in 1 .. Len(r) : r[i][2] # e[2]
      <3> SUFFICES ASSUME NEW i \in 1 .. Len(r), r[i][2] = e[2] PROVE FALSE OBVIOUS
      <3>1. PICK j \in 1 .. n : r[i] = q[j] BY DEF Kept
      <3>2. j \in 1 .. Len(q) /\ j # n + 1 BY <1>1
      <3>3. q[j][2] = q[n + 1][2] BY <3>1 DEF e
      <3> QED BY <1>1, <1>7, <3>2, <3>3 DEF OnePlace
    <2> SUFFICES ASSUME NEW i \in 1 .. Len(s), NEW j \in 1 .. Len(s), s[i][2] = s[j][2]
                 PROVE  i = j
      BY DEF OnePlace
    <2>3. CASE i \in 1 .. Len(r) /\ j \in 1 .. Len(r) BY <1>3, <2>1, <2>3 DEF OnePlace
    <2>4. CASE i = Len(r) + 1 /\ j \in 1 .. Len(r) BY <1>3, <2>2, <2>4
    <2>5. CASE i \in 1 .. Len(r) /\ j = Len(r) + 1 BY <1>3, <2>2, <2>5
    <2> QED BY <1>1, <1>3, <2>3, <2>4, <2>5
  <1> QED BY Zenon, <1>4, <1>5, <1>6, <1>7 DEF Kept, s, e

\* retain() of the waiters: what is left are the entries of the threads that
\* are not removed, each thread still once.
LEMMA Retained ==
    ASSUME NEW Q, NEW q \in Seq(Q), NEW T
    PROVE  Without(q, T) \in Seq(Q) /\ Kept(q, T, Len(q), Without(q, T))
  <1> DEFINE N == Len(q)
             SQ == Seq(Q)
             Next1(i, r) == IF q[i][2] \in T THEN r ELSE Append(r, q[i])
             F == [i \in 1 .. N |-> [r \in SQ |-> Next1(i, r)]]
             Is(f) == f = [i \in 0 .. N |-> IF i = 0 THEN <<>>
                                            ELSE IF q[i][2] \in T THEN f[i - 1] ELSE Append(f[i - 1], q[i])]
             kept == CHOOSE f : Is(f)
  <1>1. N \in Nat BY SeqLength
  <1>2. <<>> \in SQ BY SeqEmpty
  <1>3. \A i \in 1 .. N : \A r \in SQ : Next1(i, r) \in SQ
    <2>1. \A i \in 1 .. N : q[i] \in Q BY SeqElement
    <2> QED BY <2>1, SeqAppend
  <1>4. Without(q, T) = kept[N] BY DEF Without
  <1> HIDE DEF N, SQ, kept
  <1>5. \E f \in [0 .. N -> SQ] : f[0] = <<>> /\ \A i \in 1 .. N : f[i] = Next1(i, f[i - 1])
    <2> HIDE DEF Next1
    <2>1. F \in [1 .. N -> [SQ -> SQ]] BY <1>3
    <2> HIDE DEF F
    <2>2. \E f \in [0 .. N -> SQ] : f[0] = <<>> /\ \A i \in 1 .. N : f[i] = F[i][f[i - 1]]
      <3> DEFINE none == <<>>
      <3>1. none \in SQ BY <1>2
      <3> HIDE DEF none
      <3>2. \E f : Iterates(f, N, SQ, none, F)
        BY <1>1, <2>1, <3>1, Iteration
      <3> QED BY Zenon, <3>2 DEF none, Iterates
    <2> PICK f \in [0 .. N -> SQ] : f[0] = <<>> /\ \A i \in 1 .. N : f[i] = F[i][f[i - 1]]
      BY Zenon, <2>2
    <2>3. ASSUME NEW i \in 1 .. N PROVE f[i] = Next1(i, f[i - 1])
      <3>1. i - 1 \in 0 .. N BY <1>1
      <3>2. f[i - 1] \in SQ BY <3>1
      <3>3. F[i][f[i - 1]] = Next1(i, f[i - 1]) BY <3>2 DEF F
      <3> QED BY <3>3
    <2> QED BY Zenon, <2>3
  <1>6. PICK f \in [0 .. N -> SQ] : f[0] = <<>> /\ \A i \in 1 .. N : f[i] = Next1(i, f[i - 1])
    BY Zenon, <1>5
  <1>7. Is(f)
    <2> DEFINE g == [i \in 0 .. N |-> IF i = 0 THEN <<>>
                                       ELSE IF q[i][2] \in T THEN f[i - 1] ELSE Append(f[i - 1], q[i])]
    <2>1. ASSUME NEW i \in 0 .. N PROVE f[i] = g[i]
      <3>1. CASE i = 0 BY <1>6, <3>1
      <3>2. CASE i \in 1 .. N BY Zenon, <1>6, <3>2
      <3> QED BY <1>1, <3>1, <3>2
    <2> HIDE DEF g
    <2>2. f = [i \in 0 .. N |-> f[i]] BY <1>6
    <2>3. g = [i \in 0 .. N |-> g[i]] BY DEF g
    <2>4. f = g BY <2>1, <2>2, <2>3
    <2> QED BY Zenon, <2>4 DEF g
  <1>8. Is(kept) BY Zenon, <1>7 DEF kept
  <1>9. kept[0] = <<>> BY <1>1, <1>8
  <1>10. \A i \in 1 .. N : kept[i] = Next1(i, kept[i - 1])
    <2> TAKE i \in 1 .. N
    <2>1. i \in 0 .. N /\ i # 0 BY <1>1
    <2> QED BY Zenon, <1>8, <2>1
  <1> DEFINE Good(n) == kept[n] \in SQ /\ Kept(q, T, n, kept[n])
             S == {n \in 0 .. N : Good(n)}
  <1>11. 0 \in S
    <2>1. Len(<<>>) = 0 BY SeqEmpty
    <2>2. Kept(q, T, 0, <<>>) BY <2>1 DEF Kept, OnePlace
    <2>3. Good(0) BY <1>2, <1>9, <2>2
    <2> HIDE DEF Good
    <2> QED BY <1>1, <2>3
  <1>12. ASSUME NEW k \in 0 .. (N - 1), k \in S PROVE k + 1 \in S
    <2>1. k + 1 \in 1 .. N /\ k + 1 \in 0 .. N /\ (k + 1) - 1 = k BY <1>1
    <2>2. kept[k] \in Seq(Q) /\ Kept(q, T, k, kept[k]) BY <1>12 DEF SQ
    <2>3. k \in 0 .. (Len(q) - 1) BY DEF N
    <2>4. q[k + 1] \in Q BY <2>1, SeqElement DEF N
    <2>5. CASE q[k + 1][2] \in T
      <3>1. kept[k + 1] = kept[k] BY <1>10, <2>1, <2>5
      <3>2. Good(k + 1) BY <2>2, <2>3, <2>5, <3>1, KeptDrop DEF SQ
      <3> HIDE DEF Good
      <3> QED BY <2>1, <3>2
    <2>6. CASE q[k + 1][2] \notin T
      <3>1. kept[k + 1] = Append(kept[k], q[k + 1]) BY Zenon, <1>10, <2>1, <2>6
      <3>2. kept[k + 1] \in Seq(Q) BY <2>2, <2>4, <3>1, SeqAppend
      <3>3. Kept(q, T, k + 1, Append(kept[k], q[k + 1])) BY Zenon, <2>2, <2>3, <2>6, KeptAppend
      <3>4. Good(k + 1) BY <3>1, <3>2, <3>3 DEF SQ
      <3> HIDE DEF Good
      <3> QED BY <2>1, <3>4
    <2> QED BY <2>5, <2>6
  <1> HIDE DEF S
  <1>13. 0 .. N \subseteq S BY <1>1, <1>11, <1>12, SetInduction
  <1>14. N \in S BY <1>1, <1>13
  <1> QED BY <1>4, <1>14 DEF S, N, SQ

Queue == Addr \X Thread

\* The queue without the threads in T: who is in it and that each is in it once.
LEMMA QueueWithout ==
    ASSUME waiters \in Seq(Queue), NEW T, waiters' = Without(waiters, T)
    PROVE  /\ waiters' \in Seq(Queue) /\ Len(waiters') <= Len(waiters)
           /\ OnePlace(waiters) => OnePlace(waiters')
           /\ \A i \in 1 .. Len(waiters') : \E j \in 1 .. Len(waiters) : waiters'[i] = waiters[j]
           /\ \A t : Queued(t)' <=> Queued(t) /\ t \notin T
  <1> DEFINE r == Without(waiters, T)
  <1>1. r \in Seq(Queue) /\ Kept(waiters, T, Len(waiters), r) BY Retained
  <1> HIDE DEF r
  <1>2. waiters' = r BY DEF r
  <1>3. \A t : Queued(t)' <=> Queued(t) /\ t \notin T
    <2> TAKE t
    <2>1. ASSUME Queued(t)' PROVE Queued(t) /\ t \notin T
      <3>1. PICK i \in 1 .. Len(r) : r[i][2] = t BY <1>2, <2>1 DEF Queued
      <3>2. PICK j \in 1 .. Len(waiters) : r[i] = waiters[j] /\ waiters[j][2] \notin T
        BY <1>1, <3>1 DEF Kept
      <3> QED BY <3>1, <3>2 DEF Queued
    <2>2. ASSUME Queued(t), t \notin T PROVE Queued(t)'
      <3>1. PICK j \in 1 .. Len(waiters) : waiters[j][2] = t BY <2>2 DEF Queued
      <3>2. PICK i \in 1 .. Len(r) : r[i] = waiters[j] BY <1>1, <2>2, <3>1 DEF Kept
      <3> QED BY <1>2, <3>1, <3>2 DEF Queued
    <2> QED BY <2>1, <2>2
  <1> QED BY <1>1, <1>2, <1>3 DEF Kept

\* register_waiter(): the thread is in the queue, and once if it was not.
LEMMA QueueAppend ==
    ASSUME waiters \in Seq(Queue), NEW a \in Addr, NEW u \in Thread,
           waiters' = Append(waiters, <<a, u>>)
    PROVE  /\ waiters' \in Seq(Queue) /\ Len(waiters') = Len(waiters) + 1
           /\ OnePlace(waiters) /\ ~Queued(u) => OnePlace(waiters')
           /\ \A i \in 1 .. Len(waiters') :
                 waiters'[i] = <<a, u>> \/ \E j \in 1 .. Len(waiters) : waiters'[i] = waiters[j]
           /\ \A t : Queued(t)' <=> Queued(t) \/ t = u
  <1> DEFINE e == <<a, u>>
             r == Append(waiters, e)
  <1>1. e \in Queue /\ e[2] = u BY DEF Queue
  <1> HIDE DEF e
  <1>2. Len(waiters) \in Nat BY SeqLength
  <1>3. /\ r \in Seq(Queue) /\ Len(r) = Len(waiters) + 1 /\ r[Len(waiters) + 1] = e
        /\ \A i \in 1 .. Len(waiters) : r[i] = waiters[i]
    BY <1>1, <1>2, SeqAppend
  <1> HIDE DEF r
  <1>4. waiters' = r BY DEF r, e
  <1>5. \A i \in 1 .. Len(r) : i \in 1 .. Len(waiters) \/ i = Len(waiters) + 1
    BY <1>2, <1>3
  <1>6. 1 .. Len(waiters) \subseteq 1 .. Len(r) /\ Len(waiters) + 1 \in 1 .. Len(r)
    BY <1>2, <1>3
  <1>7. ASSUME OnePlace(waiters), ~Queued(u) PROVE OnePlace(r)
    <2> SUFFICES ASSUME NEW i \in 1 .. Len(r), NEW j \in 1 .. Len(r), r[i][2] = r[j][2]
                 PROVE  i = j
      BY DEF OnePlace
    <2>1. CASE i \in 1 .. Len(waiters) /\ j \in 1 .. Len(waiters)
      BY <1>3, <1>7, <2>1 DEF OnePlace
    <2>2. CASE i \in 1 .. Len(waiters) /\ j = Len(waiters) + 1
      BY <1>1, <1>3, <1>7, <2>2 DEF Queued
    <2>3. CASE i = Len(waiters) + 1 /\ j \in 1 .. Len(waiters)
      BY <1>1, <1>3, <1>7, <2>3 DEF Queued
    <2> QED BY <1>5, <2>1, <2>2, <2>3
  <1>8. \A t : Queued(t)' <=> Queued(t) \/ t = u
    BY <1>1, <1>3, <1>4, <1>5, <1>6 DEF Queued
  <1>9. \A i \in 1 .. Len(r) : r[i] = e \/ \E j \in 1 .. Len(waiters) : r[i] = waiters[j]
    BY <1>3, <1>5
  <1> QED BY Zenon, <1>3, <1>4, <1>7, <1>8, <1>9 DEF e
-----------------------------------------------------------------------------
\* The inductive invariant of FutexCalls: who is asleep is in the queue, who is
\* in the queue is in futex_wait() and not chosen, each thread is in it once,
\* and task 0 cleans up after one kill at a time.
FcInv ==
    /\ FcTypeOK
    /\ OnePlace(waiters)
    /\ \A t \in Thread : status[t] = "Blocked" => Queued(t)
    /\ \A t \in Thread : Queued(t) => fcAt[t] = "wait" /\ (status[t] = "Dead" => t \in fcDying)
    /\ \A t \in chosen : ~Queued(t)
    /\ \A t, u \in fcDying : t = u
    /\ \A t \in fcDying : status[t] = "Dead"

\* Nobody is in a futex call when the threads start.
LEMMA FcInitInv == FcInit => FcInv
  <1> SUFFICES ASSUME FcInit PROVE FcInv OBVIOUS
  <1>1. Len(waiters) = 0 /\ waiters \in Seq(Addr \X Thread)
    BY SeqEmpty DEF FcInit, FutexInit
  <1>2. \A t : ~Queued(t) BY <1>1 DEF Queued
  <1>3. FcTypeOK
    BY <1>1, FutexAssumption DEF FcTypeOK, FutexTypeOK, FcInit, FutexInit
  <1>4. OnePlace(waiters) BY <1>1 DEF OnePlace
  <1> QED BY <1>2, <1>3, <1>4 DEF FcInv, FcInit, FutexInit

\* What is needed of Cardinality: nothing and one thing are counted as such.
CardFacts == Cardinality({}) = 0 /\ \A x : Cardinality({x}) = 1

\* One entry per thread, as SleeperIsQueued counts it.
LEMMA FcInvImplies == CardFacts /\ FcInv => SleeperIsQueued
  <1> SUFFICES ASSUME CardFacts, FcInv, NEW t \in Thread
               PROVE  Cardinality({i \in 1 .. Len(waiters) : waiters[i][2] = t}) <= 1
    BY DEF FcInv, SleeperIsQueued
  <1> DEFINE P == {i \in 1 .. Len(waiters) : waiters[i][2] = t}
  <1>1. \A i, j \in P : i = j BY DEF FcInv, OnePlace
  <1> HIDE DEF P
  <1>2. CASE P = {}
    <2>1. Cardinality(P) = 0 BY <1>2 DEF CardFacts
    <2> QED BY <2>1 DEF P
  <1>3. CASE P # {}
    <2>1. PICK i : P = {i} BY <1>1, <1>3
    <2>2. Cardinality(P) = 1 BY Zenon, <2>1 DEF CardFacts
    <2> QED BY <2>2 DEF P
  <1> QED BY <1>2, <1>3

\* Plain stores of a thread, and sys_futex_wait() up to its sleep.
LEMMA FcUser ==
    ASSUME FcInv, NEW t \in Thread,
           \/ \E a \in FcStored, v \in Value : Store(t, a, v)
           \/ \E a \in Addr, v \in Value, w \in {"zero", "armed", "none"} : sys_futex_wait(t, a, v, w)
    PROVE  FcInv'
  <1> USE FutexAssumption
  <1>0. FcTypeOK /\ OnePlace(waiters) BY DEF FcInv
  <1>1. ASSUME NEW a \in FcStored, NEW v \in Value, Store(t, a, v) PROVE FcInv'
    <2>1. FcTypeOK'
      BY Zenon, <1>0, <1>1 DEF FcTypeOK, FutexTypeOK, Store, SetWord, kernel
    <2>2. \A u : Queued(u)' <=> Queued(u) BY <1>1 DEF Store, kernel, Queued
    <2>3. OnePlace(waiters)' BY <1>0, <1>1 DEF Store, kernel, OnePlace
    <2> QED BY <1>1, <2>1, <2>2, <2>3 DEF FcInv, Store, kernel
  <1>2. ASSUME NEW a \in Addr, NEW v \in Value, NEW w \in {"zero", "armed", "none"},
               sys_futex_wait(t, a, v, w)
        PROVE  FcInv'
    <2>1. CASE UNCHANGED <<kernel, fcAt>> /\ fcRet' \in {"mismatch", "timeout", "error"}
      <3>1. FcTypeOK'
        BY <1>0, <1>2, <2>1 DEF FcTypeOK, FutexTypeOK, sys_futex_wait, kernel
      <3>2. \A u : Queued(u)' <=> Queued(u) BY <2>1 DEF kernel, Queued
      <3>3. OnePlace(waiters)' BY <1>0, <2>1 DEF kernel, OnePlace
      <3> QED BY <1>2, <2>1, <3>1, <3>2, <3>3 DEF FcInv, sys_futex_wait, kernel
    <2>2. CASE /\ Sleep(t, a, w) /\ w # "zero"
               /\ fcAt' = [fcAt EXCEPT ![t] = "wait"] /\ fcRet' = "none"
      <3>1. ~Queued(t) BY <1>2 DEF sys_futex_wait, InUserMode, FcInv
      <3>2. waiters \in Seq(Queue) BY <1>0 DEF FcTypeOK, FutexTypeOK, Queue
      <3>3. waiters' = Append(waiters, <<a, t>>) BY <2>2 DEF Sleep
      <3>4. /\ waiters' \in Seq(Queue) /\ Len(waiters') = Len(waiters) + 1
            /\ OnePlace(waiters')
            /\ \A u : Queued(u)' <=> Queued(u) \/ u = t
        BY Zenon, <1>0, <3>1, <3>2, <3>3, QueueAppend
      <3>5. Len(waiters') <= MAX_FUTEX_WAITERS
        <4>1. Len(waiters) \in Nat BY <3>2, SeqLength
        <4> QED BY <2>2, <3>4, <4>1 DEF Sleep, QueueFull
      <3>6. FcTypeOK'
        <4>1. status' \in [Thread -> {"Ready", "Blocked", "Dead"}]
          BY <1>0, <2>2 DEF FcTypeOK, FutexTypeOK, Sleep
        <4>2. deadline' \in [Thread -> {"none", "armed", "expired"}]
          BY <1>0, <2>2 DEF FcTypeOK, FutexTypeOK, Sleep
        <4>3. chosen' \in SUBSET Thread /\ mem' \in [Space -> [Addr -> Value]]
          BY <1>0, <1>2, <2>2 DEF FcTypeOK, FutexTypeOK, Sleep, sys_futex_wait
        <4>4. fcAt' \in [Thread -> {"user", "wait"}] /\ fcDying' \in SUBSET Thread /\ fcRet' = "none"
          BY <1>0, <1>2, <2>2 DEF FcTypeOK, sys_futex_wait
        <4> QED BY <3>4, <3>5, <4>1, <4>2, <4>3, <4>4 DEF FcTypeOK, FutexTypeOK, Queue
      <3>7. status[t] # "Dead" BY <1>2 DEF sys_futex_wait, InUserMode
      <3>8. \A u \in Thread : status'[u] = IF u = t THEN "Blocked" ELSE status[u]
        BY <1>0, <2>2 DEF FcTypeOK, FutexTypeOK, Sleep
      <3>9. \A u \in Thread : fcAt'[u] = IF u = t THEN "wait" ELSE fcAt[u]
        BY <1>0, <2>2 DEF FcTypeOK
      <3>10. chosen' = chosen \ {t} /\ fcDying' = fcDying
        BY <1>2, <2>2 DEF Sleep, sys_futex_wait
      <3>11. \A u \in fcDying' : status'[u] = "Dead"
        BY <1>0, <3>7, <3>8, <3>10 DEF FcInv, FcTypeOK
      <3> QED BY <3>4, <3>6, <3>8, <3>9, <3>10, <3>11 DEF FcInv
    <2> QED BY <1>2, <2>1, <2>2 DEF sys_futex_wait
  <1> QED BY <1>1, <1>2

\* A step that takes threads off the queue and marks nobody asleep.
LEMMA FcRemove ==
    ASSUME FcInv, FcTypeOK', NEW T, waiters' = Without(waiters, T),
           \A u \in Thread : u \notin T => status'[u] \in {status[u], "Ready"},
           \A u \in Thread : u \in T => status'[u] # "Blocked",
           \A u \in Thread : u \notin T => fcAt'[u] = fcAt[u],
           chosen' \subseteq chosen \cup T, \A u \in fcDying' : status'[u] = "Dead",
           fcDying' = fcDying \/ (fcDying' = {} /\ fcDying \subseteq T)
    PROVE  FcInv'
  <1>1. waiters \in Seq(Queue) BY DEF FcInv, FcTypeOK, FutexTypeOK, Queue
  <1>2. /\ OnePlace(waiters')
        /\ \A t : Queued(t)' <=> Queued(t) /\ t \notin T
    BY <1>1, QueueWithout DEF FcInv
  <1>3. \A u \in Thread : status'[u] = "Blocked" => Queued(u)'
    BY <1>2 DEF FcInv
  <1>4. \A u \in Thread : Queued(u)' => fcAt'[u] = "wait" /\ (status'[u] = "Dead" => u \in fcDying')
    BY <1>2 DEF FcInv
  <1>5. \A u \in chosen' : ~Queued(u)'
    BY <1>2 DEF FcInv
  <1> QED BY <1>2, <1>3, <1>4, <1>5 DEF FcInv

\* sys_futex_wait() behind its wait loop: whoever was taken off the queue says so.
LEMMA FcReturns ==
    ASSUME FcInv, NEW t \in Thread, WaitReturns(t)
    PROVE  FcInv' /\ (t \in chosen => fcRet' = "woken")
  <1>0. FcTypeOK BY DEF FcInv
  <1>1. waiters' = Without(waiters, {t}) BY DEF WaitReturns, Leave, Unregistered
  <1>2. waiters \in Seq(Queue) BY <1>0 DEF FcTypeOK, FutexTypeOK, Queue
  <1>3. waiters' \in Seq(Queue) /\ Len(waiters') <= Len(waiters)
    BY Zenon, <1>1, <1>2, QueueWithout
  <1>4. Len(waiters') <= MAX_FUTEX_WAITERS
    <2>1. Len(waiters) \in Nat /\ Len(waiters') \in Nat BY <1>2, <1>3, SeqLength
    <2> QED BY <1>0, <1>3, <2>1, FutexAssumption DEF FcTypeOK, FutexTypeOK
  <1>5. FcTypeOK'
    <2>1. deadline' \in [Thread -> {"none", "armed", "expired"}]
      BY <1>0 DEF FcTypeOK, FutexTypeOK, WaitReturns, Leave
    <2>2. fcAt' \in [Thread -> {"user", "wait"}] /\ fcRet' \in {"timeout", "woken"}
      BY <1>0 DEF FcTypeOK, FutexTypeOK, WaitReturns, WaitResult
    <2> QED BY <1>0, <1>3, <1>4, <2>1, <2>2 DEF FcTypeOK, FutexTypeOK, WaitReturns, Leave, Queue
  <1>6. status[t] = "Ready" /\ status' = status /\ chosen' = chosen /\ fcDying' = fcDying
    BY DEF WaitReturns, Leave
  <1>7. \A u \in Thread : u # t => fcAt'[u] = fcAt[u]
    BY <1>0 DEF FcTypeOK, WaitReturns
  <1>8. FcInv'
    <2>1. \A u \in fcDying' : status'[u] = "Dead" BY <1>6 DEF FcInv
    <2> QED BY <1>1, <1>5, <1>6, <1>7, <2>1, FcRemove
  <1>9. t \in chosen => fcRet' = "woken"
    BY DEF FcInv, WaitReturns, WaitResult
  <1> QED BY <1>8, <1>9

\* A change of the thread table alone.
LEMMA FcStatus ==
    ASSUME FcInv, FcTypeOK', UNCHANGED <<waiters, chosen, fcAt>>,
           \A u \in Thread : status'[u] = "Blocked" => status[u] = "Blocked",
           \A u \in Thread : status'[u] = "Dead" => status[u] = "Dead" \/ u \in fcDying',
           fcDying \subseteq fcDying', \A u, v \in fcDying' : u = v,
           \A u \in fcDying' : status'[u] = "Dead"
    PROVE  FcInv'
  <1>1. \A u : Queued(u)' <=> Queued(u) BY DEF Queued
  <1> QED BY <1>1 DEF FcInv, OnePlace

\* Without anybody: the queue is still of its type.
LEMMA FcShorter ==
    ASSUME FcInv, NEW T, waiters' = Without(waiters, T)
    PROVE  waiters' \in Seq(Addr \X Thread) /\ Len(waiters') <= MAX_FUTEX_WAITERS
  <1>1. waiters \in Seq(Queue) BY DEF FcInv, FcTypeOK, FutexTypeOK, Queue
  <1>2. waiters' \in Seq(Queue) /\ Len(waiters') <= Len(waiters)
    BY <1>1, QueueWithout
  <1>3. Len(waiters) \in Nat /\ Len(waiters') \in Nat BY <1>1, <1>2, SeqLength
  <1>4. Len(waiters') <= MAX_FUTEX_WAITERS
    BY <1>2, <1>3, FutexAssumption DEF FcInv, FcTypeOK, FutexTypeOK
  <1> QED BY <1>2, <1>4 DEF Queue

\* sys_futex_wake() takes off the queue exactly the threads that it wakes.
LEMMA FcWake ==
    ASSUME FcInv, NEW t \in Thread, NEW a, NEW n, sys_futex_wake(t, a, n)
    PROVE  FcInv'
  <1>0. FcTypeOK BY DEF FcInv
  <1> DEFINE woken == {waiters[i][2] : i \in FirstWaiters(a, n)}
  <1>1. /\ waiters' = Without(waiters, woken)
        /\ status' = [u \in Thread |-> IF u \in woken /\ status[u] = "Blocked" THEN "Ready" ELSE status[u]]
        /\ chosen' = chosen \cup woken
        /\ UNCHANGED <<mem, deadline, fcAt, fcDying>> /\ fcRet' = "none"
    BY DEF sys_futex_wake, FutexWake
  <1>2. woken \subseteq Thread
    <2> SUFFICES ASSUME NEW i \in 1 .. Len(waiters) PROVE waiters[i][2] \in Thread
      BY Zenon DEF FirstWaiters
    <2>1. waiters \in Seq(Queue) BY <1>0 DEF FcTypeOK, FutexTypeOK, Queue
    <2>2. waiters[i] \in Queue BY <2>1, SeqElement
    <2> QED BY <2>2 DEF Queue
  <1> HIDE DEF woken
  <1>3. FcTypeOK'
    <2>1. waiters' \in Seq(Addr \X Thread) /\ Len(waiters') <= MAX_FUTEX_WAITERS
      BY <1>1, FcShorter
    <2>2. status' \in [Thread -> {"Ready", "Blocked", "Dead"}]
      BY <1>0, <1>1 DEF FcTypeOK, FutexTypeOK
    <2> QED BY <1>0, <1>1, <1>2, <2>1, <2>2 DEF FcTypeOK, FutexTypeOK
  <1>4. \A u \in Thread : u \notin woken => status'[u] = status[u]
    BY <1>1
  <1>5. \A u \in Thread : u \in woken => status'[u] # "Blocked"
    BY <1>1
  <1>6. \A u \in fcDying' : status'[u] = "Dead"
    BY <1>0, <1>1 DEF FcInv, FcTypeOK
  <1> QED BY <1>1, <1>3, <1>4, <1>5, <1>6, FcRemove

\* Deadlines, wake-ups from elsewhere, exit, kill and the clean-up after a kill.
LEMMA FcEnds ==
    ASSUME FcInv, NEW t \in Thread,
           \/ (Deadline(t) \/ OtherWake(t)) /\ fcRet' = "none" /\ UNCHANGED <<fcAt, fcDying>>
           \/ Exit(t) \/ IKill(t) \/ IDrop(t)
    PROVE  FcInv' /\ UNCHANGED fcAt
  <1>0. FcTypeOK BY DEF FcInv
  <1>s. \A x \in {"Ready", "Blocked", "Dead"} :
            /\ [status EXCEPT ![t] = x] \in [Thread -> {"Ready", "Blocked", "Dead"}]
            /\ \A u \in Thread : [status EXCEPT ![t] = x][u] = IF u = t THEN x ELSE status[u]
    BY <1>0 DEF FcTypeOK, FutexTypeOK
  <1>1. CASE (Deadline(t) \/ OtherWake(t)) /\ fcRet' = "none" /\ UNCHANGED <<fcAt, fcDying>>
    <2>1. /\ status' = [status EXCEPT ![t] = "Ready"] /\ UNCHANGED <<mem, waiters, chosen>>
          /\ deadline' \in [Thread -> {"none", "armed", "expired"}]
      BY <1>0, <1>1 DEF Deadline, OtherWake, FcTypeOK, FutexTypeOK
    <2>2. FcTypeOK' BY <1>0, <1>s, <1>1, <2>1 DEF FcTypeOK, FutexTypeOK
    <2>3. /\ \A u \in Thread : status'[u] = "Blocked" => status[u] = "Blocked"
          /\ \A u \in Thread : status'[u] = "Dead" => status[u] = "Dead"
      BY <1>s, <2>1
    <2>4. /\ \A u, v \in fcDying' : u = v
          /\ \A u \in fcDying' : status'[u] = "Dead"
      <3>1. status[t] # "Dead" BY <1>1 DEF Deadline, OtherWake
      <3> QED BY <1>0, <1>1, <1>s, <2>1, <3>1 DEF FcInv, FcTypeOK
    <2> QED BY <1>1, <2>1, <2>2, <2>3, <2>4, FcStatus
  <1>2. CASE Exit(t)
    <2>1. /\ status' = [status EXCEPT ![t] = "Dead"] /\ waiters' = Without(waiters, {t})
          /\ fcRet' = "none" /\ UNCHANGED <<mem, deadline, chosen, fcAt, fcDying>>
      BY <1>2 DEF Exit, drop_task_waiters, Unregistered
    <2>2. waiters' \in Seq(Addr \X Thread) /\ Len(waiters') <= MAX_FUTEX_WAITERS
      BY Zenon, <2>1, FcShorter
    <2>3. FcTypeOK' BY <1>0, <1>s, <2>1, <2>2 DEF FcTypeOK, FutexTypeOK
    <2>4. /\ \A u \in Thread : u \notin {t} => status'[u] = status[u]
          /\ status'[t] = "Dead"
      BY <1>s, <2>1
    <2>5. \A u \in fcDying' : status'[u] = "Dead"
      BY <1>0, <2>1, <2>4 DEF FcInv, FcTypeOK
    <2> QED BY <2>1, <2>3, <2>4, <2>5, FcRemove
  <1>3. CASE IKill(t)
    <2>1. /\ status' = [status EXCEPT ![t] = "Dead"] /\ fcDying = {} /\ fcDying' = {t}
          /\ fcRet' = "none" /\ UNCHANGED <<mem, waiters, deadline, chosen, fcAt>>
      BY <1>3 DEF IKill
    <2>2. FcTypeOK' BY <1>0, <1>s, <2>1 DEF FcTypeOK, FutexTypeOK
    <2>3. /\ \A u \in Thread : status'[u] = "Blocked" => status[u] = "Blocked"
          /\ \A u \in Thread : status'[u] = "Dead" => status[u] = "Dead" \/ u = t
      BY <1>s, <2>1
    <2>4. \A u \in fcDying' : status'[u] = "Dead"
      BY <1>s, <2>1
    <2> QED BY <2>1, <2>2, <2>3, <2>4, FcStatus
  <1>4. CASE IDrop(t)
    <2>1. /\ t \in fcDying /\ fcDying' = {} /\ waiters' = Without(waiters, {t})
          /\ fcRet' = "none" /\ UNCHANGED <<mem, status, deadline, chosen, fcAt>>
      BY <1>4 DEF IDrop, drop_task_waiters, Unregistered
    <2>2. waiters' \in Seq(Addr \X Thread) /\ Len(waiters') <= MAX_FUTEX_WAITERS
      BY Zenon, <2>1, FcShorter
    <2>3. FcTypeOK' BY <1>0, <2>1, <2>2 DEF FcTypeOK, FutexTypeOK
    <2>4. fcDying \subseteq {t} BY <2>1 DEF FcInv
    <2>5. status[t] # "Blocked" BY <2>1 DEF FcInv
    <2> QED BY <2>1, <2>3, <2>4, <2>5, FcRemove
  <1> QED BY <1>1, <1>2, <1>3, <1>4

\* Every step of the futex calls.
LEMMA FcNextInv ==
    ASSUME FcInv, [FcNext]_fcVars
    PROVE  FcInv' /\ \A t \in Thread :
                        fcAt[t] = "wait" /\ fcAt'[t] = "user" /\ t \in chosen => fcRet' = "woken"
  <1>0. fcAt \in [Thread -> {"user", "wait"}] BY DEF FcInv, FcTypeOK
  <1>1. CASE UNCHANGED fcVars
    BY <1>1 DEF fcVars, kernel, FcInv, FcTypeOK, FutexTypeOK, OnePlace, Queued
  <1>2. ASSUME NEW t \in Thread,
               \/ \E a \in FcStored, v \in Value : Store(t, a, v)
               \/ \E a \in Addr, v \in Value, w \in {"zero", "armed", "none"} : sys_futex_wait(t, a, v, w)
        PROVE  FcInv' /\ \A u \in Thread : fcAt[u] = "wait" => fcAt'[u] = "wait"
    <2>1. FcInv' BY <1>2, FcUser
    <2>2. \A u \in Thread : fcAt[u] = "wait" => fcAt'[u] = "wait"
      BY <1>0, <1>2 DEF Store, sys_futex_wait
    <2> QED BY <2>1, <2>2
  <1>3. ASSUME NEW t \in Thread, WaitReturns(t)
        PROVE  FcInv' /\ \A u \in Thread : fcAt[u] = "wait" /\ fcAt'[u] = "user" /\ u \in chosen => fcRet' = "woken"
    <2>1. FcInv' /\ (t \in chosen => fcRet' = "woken") BY <1>3, FcReturns
    <2>2. \A u \in Thread : u # t => fcAt'[u] = fcAt[u] BY <1>0, <1>3 DEF WaitReturns
    <2> QED BY <2>1, <2>2
  <1>4. ASSUME NEW t \in Thread, NEW a \in Addr, NEW n \in 0 .. Count, sys_futex_wake(t, a, n)
        PROVE  FcInv' /\ UNCHANGED fcAt
    <2>1. UNCHANGED fcAt BY <1>4 DEF sys_futex_wake
    <2> QED BY <1>4, <2>1, FcWake
  <1>5. ASSUME NEW t \in Thread,
               \/ (Deadline(t) \/ OtherWake(t)) /\ fcRet' = "none" /\ UNCHANGED <<fcAt, fcDying>>
               \/ Exit(t) \/ IKill(t) \/ IDrop(t)
        PROVE  FcInv' /\ UNCHANGED fcAt
    BY <1>5, FcEnds
  <1>6. CASE FcNext
    <2>1. PICK t \in Thread :
            \/ \E a \in FcStored, v \in Value : Store(t, a, v)
            \/ \E a \in Addr, v \in Value, w \in {"zero", "armed", "none"} : sys_futex_wait(t, a, v, w)
            \/ WaitReturns(t)
            \/ \E a \in Addr, n \in 0 .. Count : sys_futex_wake(t, a, n)
            \/ (Deadline(t) \/ OtherWake(t)) /\ fcRet' = "none" /\ UNCHANGED <<fcAt, fcDying>>
            \/ Exit(t) \/ IKill(t) \/ IDrop(t)
      BY <1>6 DEF FcNext
    <2> QED BY <2>1, <1>2, <1>3, <1>4, <1>5
  <1>7. UNCHANGED fcVars => UNCHANGED fcAt BY DEF fcVars
  <1> QED BY <1>1, <1>6, <1>7

\* sys_futex_wait() behind its wait loop: whom futex_wake() took off the queue
\* reports the wake-up, even when its deadline has passed as well.
THEOREM WakesAreReported == FcSpec => WakeIsReported
  <1>1. FcInv /\ [FcNext]_fcVars => FcInv' BY FcNextInv
  <1>2. FcInv /\ [FcNext]_fcVars =>
           [\A t \in Thread : fcAt[t] = "wait" /\ fcAt'[t] = "user" /\ t \in chosen => fcRet' = "woken"]_fcVars
    BY FcNextInv
  <1> QED BY FcInitInv, <1>1, <1>2, PTL DEF FcSpec, WakeIsReported
-----------------------------------------------------------------------------
\* PThreadMutex is a lock however the futex calls behave: its exclusion rests
\* on the atomic instructions alone.
Words ==
    /\ mem \in [Space -> [Addr -> Value]]
    /\ pc \in [Thread -> {"out", "lock", "swap", "wait", "asleep", "in", "unlock", "wake"}]

\* The word of a mutex that is held is not 0, and one thread holds it.
Inv ==
    /\ Words
    /\ \A t \in Thread : Holds(t) => Word(t, Here) # 0
    /\ MutualExclusion

\* The word of the mutex is a word of the address space.
LEMMA HereIsAddr == Here \in Addr
  BY MutexAssumption DEF Here

\* PThreadMutex::new().
LEMMA InitInv == Init => Inv
  <1> SUFFICES ASSUME Init PROVE Inv OBVIOUS
  <1>1. Words BY FutexAssumption, MutexAssumption DEF Init, FutexInit, Words
  <1>2. \A t \in Thread : ~Holds(t) BY DEF Init, Holds
  <1> QED BY <1>1, <1>2 DEF Inv, MutualExclusion

\* The steps that leave the words alone and nobody with a mutex that they did
\* not have.
Quiet(t) ==
    /\ mem' = mem
    /\ \E to \in {"out", "lock", "swap", "wait", "asleep", "unlock"} : pc' = [pc EXCEPT ![t] = to]
    /\ pc'[t] = "unlock" => Holds(t)

\* The steps of lock() and unlock() that neither take nor give up the mutex.
LEMMA QuietSteps ==
    ASSUME Inv, NEW t \in Thread,
           \/ Begin(t) \/ Wait(t) \/ Awake(t) \/ Finish(t) \/ WakeOne(t)
           \/ CompareExchange(t) /\ Word(t, Here) # 0
    PROVE  Quiet(t) /\ (Holds(t) <=> Holds(t)')
  <1>1. pc \in [Thread -> {"out", "lock", "swap", "wait", "asleep", "in", "unlock", "wake"}]
    BY DEF Inv, Words
  <1>2. CASE Begin(t) BY <1>1, <1>2 DEF Begin, At, Quiet, Holds
  <1>3. CASE Wait(t) BY <1>1, <1>3 DEF Wait, At, Quiet, Holds
  <1>4. CASE Awake(t) BY <1>1, <1>4 DEF Awake, At, Quiet, Holds
  <1>5. CASE Finish(t) BY <1>1, <1>5 DEF Finish, At, Quiet, Holds
  <1>6. CASE WakeOne(t) BY <1>1, <1>6 DEF WakeOne, At, Quiet, Holds
  <1>7. CASE CompareExchange(t) /\ Word(t, Here) # 0
    BY <1>1, <1>7 DEF CompareExchange, At, Quiet, Holds
  <1> QED BY <1>2, <1>3, <1>4, <1>5, <1>6, <1>7

\* Such a step changes neither the word nor who holds the mutex.
LEMMA QuietInv ==
    ASSUME Inv, NEW t \in Thread, Quiet(t), Holds(t) <=> Holds(t)'
    PROVE  Inv' /\ \A u \in Thread : Holds(u)' <=> Holds(u)
  <1>1. pc \in [Thread -> {"out", "lock", "swap", "wait", "asleep", "in", "unlock", "wake"}]
    BY DEF Inv, Words
  <1>2. \A u \in Thread : Holds(u)' <=> Holds(u)
    BY <1>1 DEF Quiet, Holds
  <1>3. Words'
    BY <1>1 DEF Quiet, Inv, Words
  <1>4. \A u \in Thread : Word(u, Here)' = Word(u, Here)
    BY DEF Quiet, Word
  <1> QED BY <1>2, <1>3, <1>4 DEF Inv, MutualExclusion

\* The instruction with which t gets the mutex.
Takes(t) ==
    /\ Word(t, Here) = 0
    /\ \E v \in {1, 2} : SetWord(t, Here, v)
    /\ pc[t] \in {"lock", "swap"} /\ pc' = [pc EXCEPT ![t] = "in"]

\* lock() on a free word: its thread becomes the only holder in its process.
LEMMA TakesInv ==
    ASSUME Inv, NEW t \in Thread, Takes(t)
    PROVE  /\ Inv' /\ ~Holds(t) /\ Holds(t)'
           /\ \A u \in Thread \ {t} : Holds(u)' <=> Holds(u)
           /\ \A u \in Thread : SpaceOf[u] = SpaceOf[t] => ~Holds(u)
  <1> USE FutexAssumption, MutexAssumption, HereIsAddr
  <1>1. Words
    BY DEF Inv
  <1>2. PICK v \in {1, 2} : SetWord(t, Here, v)
    BY DEF Takes
  <1>3. /\ ~Holds(t) /\ Holds(t)'
        /\ \A u \in Thread \ {t} : Holds(u)' <=> Holds(u)
    BY <1>1 DEF Takes, Holds, Words
  <1>4. \A u \in Thread : SpaceOf[u] = SpaceOf[t] => ~Holds(u)
    BY DEF Inv, Takes, Word
  <1>5. Words'
    BY <1>1, <1>2 DEF Takes, Words, SetWord
  <1>6. \A u \in Thread : Word(u, Here)' = IF SpaceOf[u] = SpaceOf[t] THEN v ELSE Word(u, Here)
    BY <1>1, <1>2 DEF SetWord, Word, Words
  <1>7. \A u \in Thread : Holds(u)' => Word(u, Here)' # 0
    BY <1>2, <1>3, <1>6 DEF Inv
  <1>8. MutualExclusion'
    BY <1>3, <1>4 DEF Inv, MutualExclusion
  <1> QED BY <1>3, <1>4, <1>5, <1>7, <1>8 DEF Inv

\* unlock() on the word: its thread was the holder and is none any more.
LEMMA UnlockInv ==
    ASSUME Inv, NEW t \in Thread, Unlock(t)
    PROVE  /\ Inv' /\ Holds(t) /\ ~Holds(t)'
           /\ \A u \in Thread \ {t} : Holds(u)' <=> Holds(u)
  <1> USE FutexAssumption, MutexAssumption, HereIsAddr
  <1>1. Words
    BY DEF Inv
  <1>2. /\ Holds(t) /\ ~Holds(t)'
        /\ \A u \in Thread \ {t} : Holds(u)' <=> Holds(u)
    BY <1>1 DEF Unlock, At, Holds, Words
  <1>3. Words'
    BY <1>1 DEF Unlock, At, Words, SetWord
  <1>4. \A u \in Thread : Word(u, Here)' = IF SpaceOf[u] = SpaceOf[t] THEN 0 ELSE Word(u, Here)
    BY <1>1 DEF Unlock, SetWord, Word, Words
  <1>5. \A u \in Thread : Holds(u)' => Word(u, Here)' # 0
    BY <1>2, <1>4 DEF Inv, MutualExclusion
  <1>6. MutualExclusion'
    BY <1>2 DEF Inv, MutualExclusion
  <1> QED BY <1>2, <1>3, <1>5, <1>6 DEF Inv

\* The swap of lock() that finds the mutex taken leaves its holder alone.
LEMMA SwapKeepsInv ==
    ASSUME Inv, NEW t \in Thread, Swap(t), Word(t, Here) # 0
    PROVE  Inv' /\ \A u \in Thread : Holds(u)' <=> Holds(u)
  <1> USE FutexAssumption, MutexAssumption, HereIsAddr
  <1>1. Words
    BY DEF Inv
  <1>2. \A u \in Thread : Holds(u)' <=> Holds(u)
    BY <1>1 DEF Swap, At, Holds, Words
  <1>3. Words'
    BY <1>1 DEF Swap, At, Words, SetWord
  <1>4. \A u \in Thread : Word(u, Here)' = IF SpaceOf[u] = SpaceOf[t] THEN 2 ELSE Word(u, Here)
    BY <1>1 DEF Swap, SetWord, Word, Words
  <1>5. \A u \in Thread : Holds(u)' => Word(u, Here)' # 0
    BY <1>2, <1>4 DEF Inv
  <1> QED BY Zenon, <1>2, <1>3, <1>5 DEF Inv, MutualExclusion

\* Every step takes a mutex, gives it back, or changes no holder.
Passes ==
    \/ \A u \in Thread : Holds(u)' <=> Holds(u)
    \/ \E t \in Thread :
         /\ \A u \in Thread : SpaceOf[u] = SpaceOf[t] => ~Holds(u)
         /\ Holds(t)' /\ \A u \in Thread \ {t} : Holds(u)' <=> Holds(u)
    \/ \E t \in Thread :
         /\ Holds(t) /\ ~Holds(t)' /\ \A u \in Thread \ {t} : Holds(u)' <=> Holds(u)

\* Every step keeps the invariant of the mutex and passes it on as a lock does.
LEMMA NextInv ==
    ASSUME Inv, [Next]_vars
    PROVE  Inv' /\ Passes
  <1>1. CASE UNCHANGED vars
    BY <1>1 DEF vars, Inv, Words, MutualExclusion, Holds, Word, Passes
  <1>2. ASSUME NEW t \in Thread, Begin(t) \/ Step(t) \/ (OtherWake(t) /\ UNCHANGED pc)
        PROVE  Inv' /\ Passes
    <2>1. CASE \/ Begin(t) \/ Wait(t) \/ Awake(t) \/ Finish(t) \/ WakeOne(t)
               \/ CompareExchange(t) /\ Word(t, Here) # 0
      <3>1. Quiet(t) /\ (Holds(t) <=> Holds(t)') BY <2>1, QuietSteps
      <3> QED BY <3>1, QuietInv DEF Passes
    <2>2. CASE \/ CompareExchange(t) /\ Word(t, Here) = 0
               \/ Swap(t) /\ Word(t, Here) = 0
      <3>1. Takes(t) BY <2>2 DEF CompareExchange, Swap, At, Takes
      <3> QED BY <3>1, TakesInv DEF Passes
    <2>3. CASE Swap(t) /\ Word(t, Here) # 0
      BY <2>3, SwapKeepsInv DEF Passes
    <2>4. CASE Unlock(t)
      BY <2>4, UnlockInv DEF Passes
    <2>5. CASE OtherWake(t) /\ UNCHANGED pc
      BY <2>5 DEF OtherWake, Inv, Words, MutualExclusion, Holds, Word, Passes
    <2> QED BY <1>2, <2>1, <2>2, <2>3, <2>4, <2>5 DEF Step
  <1> QED BY <1>1, <1>2 DEF Next

\* PThreadMutex::lock(): at most one thread of a process holds the mutex, for
\* any number of threads and any size of the futex queue.
THEOREM MutexExcludes == Spec => []MutualExclusion
  <1>1. Inv /\ [Next]_vars => Inv' BY NextInv
  <1>2. Inv => MutualExclusion BY DEF Inv
  <1> QED BY InitInv, <1>1, <1>2, PTL DEF Spec

\* Such a step is a step of the abstract lock, or invisible to it.
LEMMA LockStep ==
    ASSUME Inv, Inv', Passes
    PROVE  LET h == [s \in Space |-> {t \in Thread : SpaceOf[t] = s /\ Holds(t)}]
           IN  Lock!Next \/ h' = h
  <1> DEFINE H(s) == {t \in Thread : SpaceOf[t] = s /\ Holds(t)}
             h == [s \in Space |-> H(s)]
  <1>1. CASE \A u \in Thread : Holds(u)' <=> Holds(u)
    BY <1>1
  <1>2. ASSUME NEW t \in Thread,
               \A u \in Thread : SpaceOf[u] = SpaceOf[t] => ~Holds(u),
               Holds(t)', \A u \in Thread \ {t} : Holds(u)' <=> Holds(u)
        PROVE  Lock!Next
    <2>1. SpaceOf[t] \in Space BY FutexAssumption
    <2>2. H(SpaceOf[t]) = {} BY <1>2
    <2>3. H(SpaceOf[t])' = {t} BY <1>2
    <2>4. \A s \in Space \ {SpaceOf[t]} : H(s)' = H(s) BY <1>2
    <2>5. h' = [h EXCEPT ![SpaceOf[t]] = {t}] BY Zenon, <2>1, <2>3, <2>4
    <2>6. Lock!Acquire(t) BY <2>1, <2>2, <2>5 DEF Lock!Acquire
    <2> QED BY <2>6 DEF Lock!Next
  <1>3. ASSUME NEW t \in Thread, Holds(t), ~Holds(t)',
               \A u \in Thread \ {t} : Holds(u)' <=> Holds(u)
        PROVE  Lock!Next
    <2>1. SpaceOf[t] \in Space BY FutexAssumption
    <2>2. H(SpaceOf[t]) = {t} BY <1>3 DEF Inv, MutualExclusion
    <2>3. H(SpaceOf[t])' = {} BY <1>3, <2>2
    <2>4. \A s \in Space \ {SpaceOf[t]} : H(s)' = H(s) BY <1>3
    <2>5. h' = [h EXCEPT ![SpaceOf[t]] = {}] BY Zenon, <2>1, <2>3, <2>4
    <2>6. Lock!Release(t) BY <2>1, <2>2, <2>5 DEF Lock!Release
    <2> QED BY <2>6 DEF Lock!Next
  <1> QED BY <1>1, <1>2, <1>3 DEF Passes

\* PThreadMutex implements the abstract lock: every step of lock() and unlock()
\* is an acquisition of a free mutex, a release by its holder, or invisible.
THEOREM MutexIsLock == Spec => ImplementsLock
  <1>1. Init => Lock!Init
    BY DEF Init, Lock!Init, Holds
  <1>2. Inv /\ [Next]_vars => Inv'
    BY NextInv
  <1>3. Inv /\ Inv' /\ [Next]_vars
            => [Lock!Next]_[s \in Space |-> {t \in Thread : SpaceOf[t] = s /\ Holds(t)}]
    BY NextInv, LockStep
  <1> QED BY InitInv, <1>1, <1>2, <1>3, PTL DEF Spec, ImplementsLock, Lock!Spec
-----------------------------------------------------------------------------
\* Who is about to wake a sleeper or to try the mutex.
Saves(u) == pc[u] \in {"wake", "swap"} \/ (pc[u] = "asleep" /\ status[u] = "Ready")

\* The inductive invariant behind NoLostWake when all threads share one address
\* space: who sleeps is in the queue, everybody in the queue waits for this
\* mutex inside lock(), and a sleeper has somebody to count on.
SleepInv ==
    /\ Words
    /\ waiters \in Seq(Queue) /\ status \in [Thread -> {"Ready", "Blocked"}]
    /\ \A i \in 1 .. Len(waiters) : waiters[i][1] = Here
    /\ \A t \in Thread : Queued(t) => pc[t] = "asleep"
    /\ \A t \in Thread : status[t] = "Blocked" => Queued(t)
    /\ (\E t \in Thread : status[t] = "Blocked") =>
          \/ \A t \in Thread : Word(t, Here) = 2
          \/ \E u \in Thread : Saves(u)

\* Nobody sleeps when the mutex is made.
LEMMA SleepInit == Init => SleepInv
  <1> SUFFICES ASSUME Init PROVE SleepInv OBVIOUS
  <1>1. Len(waiters) = 0 /\ waiters \in Seq(Queue) BY SeqEmpty DEF Init, FutexInit
  <1>2. Words BY FutexAssumption, MutexAssumption DEF Init, FutexInit, Words
  <1>3. \A t : ~Queued(t) BY <1>1 DEF Queued
  <1> QED BY <1>1, <1>2, <1>3 DEF SleepInv, Init, FutexInit

\* The invariant about sleepers says more than that no wake-up is lost.
LEMMA SleepImplies ==
    ASSUME \A t, u \in Thread : SpaceOf[t] = SpaceOf[u], SleepInv
    PROVE  NoLostWake
  BY DEF SleepInv, NoLostWake, Saves

\* An instruction of t outside the kernel that takes nobody away whom a sleeper
\* counts on.
LEMMA SleepUser ==
    ASSUME SleepInv, Words', UNCHANGED kernel, NEW t \in Thread, pc[t] # "asleep",
           \A u \in Thread : u # t => pc'[u] = pc[u],
           \/ \A u \in Thread : Word(u, Here)' = 2
           \/ Saves(t)'
           \/ ~Saves(t) /\ ~(\A u \in Thread : Word(u, Here) = 2)
           \/ ~Saves(t) /\ mem' = mem
    PROVE  SleepInv'
  <1>1. waiters' = waiters /\ status' = status BY DEF kernel
  <1>2. \A u : Queued(u)' <=> Queued(u) BY <1>1 DEF Queued
  <1>3. ASSUME NEW v \in Thread, status[v] = "Blocked"
        PROVE  \/ \A u \in Thread : Word(u, Here)' = 2
               \/ \E u \in Thread : Saves(u)'
    <2>1. \A u \in Thread : u # t => (Saves(u)' <=> Saves(u)) BY <1>1 DEF Saves
    <2>2. \/ \A u \in Thread : Word(u, Here) = 2
          \/ \E u \in Thread : Saves(u)
      BY <1>3 DEF SleepInv
    <2>3. mem' = mem => \A u \in Thread : Word(u, Here)' = Word(u, Here) BY DEF Word
    <2> QED BY <2>1, <2>2, <2>3
  <1>4. \A u \in Thread : Queued(u)' => pc'[u] = "asleep" BY <1>2 DEF SleepInv
  <1> QED BY <1>1, <1>2, <1>3, <1>4 DEF SleepInv

\* lock() and unlock() outside the kernel: who stops being somebody's hope has made another one.
LEMMA SleepInstructions ==
    ASSUME \A t, u \in Thread : SpaceOf[t] = SpaceOf[u], SleepInv, NEW t \in Thread,
           Begin(t) \/ CompareExchange(t) \/ Swap(t) \/ Finish(t) \/ Unlock(t)
    PROVE  SleepInv'
  <1> USE FutexAssumption, MutexAssumption, HereIsAddr
  <1>1. Words BY Zenon DEF SleepInv
  <1>2. ASSUME NEW v \in {0, 1, 2}, SetWord(t, Here, v)
        PROVE  \A u \in Thread : Word(u, Here)' = v
    BY <1>1, <1>2 DEF SetWord, Word, Words
  <1>3. UNCHANGED kernel
    BY DEF Begin, CompareExchange, Swap, Finish, Unlock
  <1>4. pc[t] \in {"out", "lock", "swap", "in", "unlock"}
    BY DEF Begin, CompareExchange, Swap, Finish, Unlock, At
  <1>5. \A u \in Thread : u # t => pc'[u] = pc[u]
    BY <1>1 DEF Begin, CompareExchange, Swap, Finish, Unlock, At, Words
  <1>6. Words'
    <2>1. mem' = mem \/ \E v \in {0, 1, 2} : SetWord(t, Here, v)
      BY DEF Begin, CompareExchange, Swap, Finish, Unlock
    <2>2. mem' \in [Space -> [Addr -> Value]] BY <1>1, <2>1 DEF Words, SetWord
    <2>3. \E to \in {"lock", "in", "swap", "wait", "unlock", "wake", "out"} : pc' = [pc EXCEPT ![t] = to]
      BY DEF Begin, CompareExchange, Swap, Finish, Unlock, At
    <2> QED BY <1>1, <2>2, <2>3 DEF Words
  <1>7. CASE Begin(t) \/ Finish(t)
    <2>1. ~Saves(t) /\ mem' = mem BY <1>7 DEF Begin, Finish, At, Saves
    <2> QED BY Zenon, <1>3, <1>4, <1>5, <1>6, <2>1, SleepUser
  <1>8. CASE CompareExchange(t)
    <2>1. ~Saves(t) BY <1>8 DEF CompareExchange, At, Saves
    <2>2. mem' = mem \/ Word(t, Here) = 0 BY <1>8 DEF CompareExchange
    <2>3. CASE mem' = mem BY Zenon, <1>3, <1>4, <1>5, <1>6, <2>1, <2>3, SleepUser
    <2>4. CASE Word(t, Here) = 0
      <3>1. ~(\A u \in Thread : Word(u, Here) = 2) BY <2>4
      <3> QED BY Zenon, <1>3, <1>4, <1>5, <1>6, <2>1, <3>1, SleepUser
    <2> QED BY Zenon, <2>2, <2>3, <2>4
  <1>9. CASE Swap(t)
    <2>1. \A u \in Thread : Word(u, Here)' = 2 BY <1>2, <1>9 DEF Swap
    <2> QED BY <1>3, <1>4, <1>5, <1>6, <2>1, SleepUser
  <1>10. CASE Unlock(t)
    <2>1. ~Saves(t) BY Zenon, <1>10 DEF Unlock, At, Saves
    <2>2. CASE Word(t, Here) = 2
      <3>1. Saves(t)' BY <1>1, <1>10, <2>2 DEF Unlock, At, Saves, Words
      <3> QED BY Zenon, <1>3, <1>4, <1>5, <1>6, <3>1, SleepUser
    <2>3. CASE Word(t, Here) # 2
      BY Zenon, <1>3, <1>4, <1>5, <1>6, <2>1, <2>3, SleepUser
    <2> QED BY <2>2, <2>3
  <1> QED BY <1>7, <1>8, <1>9, <1>10

\* sys_futex_wait() sleeps only on a word that says contended, so that its owner will wake somebody.
LEMMA SleepWait ==
    ASSUME \A t, u \in Thread : SpaceOf[t] = SpaceOf[u], SleepInv, NEW t \in Thread, Wait(t)
    PROVE  SleepInv'
  <1> USE HereIsAddr
  <1>1. Words BY DEF SleepInv
  <1>2. mem' = mem BY DEF Wait
  <1>3. CASE At(t, "wait", "swap") /\ UNCHANGED kernel
    <2>1. Words' BY <1>1, <1>2, <1>3 DEF At, Words
    <2>2. Saves(t)' BY <1>1, <1>3 DEF At, Words, Saves
    <2>3. pc[t] # "asleep" /\ \A u \in Thread : u # t => pc'[u] = pc[u]
      BY <1>1, <1>3 DEF At, Words
    <2> QED BY <1>3, <2>1, <2>2, <2>3, SleepUser
  <1>4. CASE ~Mismatch(t, Here, 2) /\ Sleep(t, Here, "none") /\ At(t, "wait", "asleep")
    <2>1. waiters' = Append(waiters, <<Here, t>>) /\ status' = [status EXCEPT ![t] = "Blocked"]
      BY <1>4 DEF Sleep
    <2>2. /\ waiters' \in Seq(Queue)
          /\ \A i \in 1 .. Len(waiters') :
                 waiters'[i] = <<Here, t>> \/ \E j \in 1 .. Len(waiters) : waiters'[i] = waiters[j]
          /\ \A u : Queued(u)' <=> Queued(u) \/ u = t
      BY Zenon, <2>1, QueueAppend DEF SleepInv
    <2>3. \A i \in 1 .. Len(waiters') : waiters'[i][1] = Here BY <2>2 DEF SleepInv
    <2>4. \A u \in Thread : status'[u] = IF u = t THEN "Blocked" ELSE status[u]
      BY <2>1 DEF SleepInv
    <2>5. \A u \in Thread : pc'[u] = IF u = t THEN "asleep" ELSE pc[u]
      BY <1>1, <1>4 DEF At, Words
    <2>6. status' \in [Thread -> {"Ready", "Blocked"}] BY <2>1 DEF SleepInv
    <2>7. Words' BY <1>1, <1>2, <1>4 DEF At, Words
    <2>8. \A u \in Thread : Word(u, Here)' = 2
      BY <1>2, <1>4 DEF Mismatch, Word
    <2>9. \A u \in Thread : Queued(u)' => pc'[u] = "asleep" BY <2>2, <2>5 DEF SleepInv
    <2>10. \A u \in Thread : status'[u] = "Blocked" => Queued(u)' BY <2>2, <2>4 DEF SleepInv
    <2> QED BY Zenon, <2>2, <2>3, <2>6, <2>7, <2>8, <2>9, <2>10 DEF SleepInv
  <1> QED BY <1>3, <1>4 DEF Wait

\* A thread that returns from sys_futex_wait() tries the mutex before it leaves.
LEMMA SleepAwake ==
    ASSUME SleepInv, NEW t \in Thread, Awake(t)
    PROVE  SleepInv'
  <1>1. Words BY DEF SleepInv
  <1>2. waiters' = Without(waiters, {t}) /\ status' = status /\ status[t] = "Ready" /\ mem' = mem
    BY DEF Awake, Leave, Unregistered
  <1>3. /\ waiters' \in Seq(Queue)
        /\ \A i \in 1 .. Len(waiters') : \E j \in 1 .. Len(waiters) : waiters'[i] = waiters[j]
        /\ \A u : Queued(u)' <=> Queued(u) /\ u \notin {t}
    BY Zenon, <1>2, QueueWithout DEF SleepInv
  <1>4. ASSUME NEW i \in 1 .. Len(waiters') PROVE waiters'[i][1] = Here
    <2>1. PICK j \in 1 .. Len(waiters) : waiters'[i] = waiters[j] BY Zenon, <1>3
    <2>2. waiters[j][1] = Here BY DEF SleepInv
    <2> QED BY <2>1, <2>2
  <1>5. \A u \in Thread : pc'[u] = IF u = t THEN "swap" ELSE pc[u]
    BY <1>1 DEF Awake, At, Words
  <1>6. Words' BY <1>1, <1>2 DEF Awake, At, Words
  <1>7. Saves(t)' BY <1>5 DEF Saves
  <1>8. \A u \in Thread : Queued(u)' => pc'[u] = "asleep" BY Zenon, <1>3, <1>5 DEF SleepInv
  <1>9. \A u \in Thread : status'[u] = "Blocked" => Queued(u)' BY Zenon, <1>2, <1>3 DEF SleepInv
  <1> QED BY Zenon, <1>2, <1>3, <1>4, <1>6, <1>7, <1>8, <1>9 DEF SleepInv

\* futex_wake(addr, 1): when somebody is in the queue the oldest one is woken.
LEMMA SleepWake ==
    ASSUME CardFacts, SleepInv, NEW t \in Thread, WakeOne(t)
    PROVE  SleepInv'
  <1>1. Words BY DEF SleepInv
  <1> DEFINE woken == {waiters[i][2] : i \in FirstWaiters(Here, 1)}
  <1>2. /\ waiters' = Without(waiters, woken) /\ mem' = mem
        /\ status' = [u \in Thread |-> IF u \in woken /\ status[u] = "Blocked" THEN "Ready" ELSE status[u]]
    BY DEF WakeOne, FutexWake
  <1>3. \A u : u \in woken => Queued(u) BY Zenon DEF FirstWaiters, Queued
  <1>4. ASSUME NEW u \in Thread, Queued(u) PROVE \E w \in Thread : w \in woken
    <2>1. Len(waiters) \in Nat /\ Len(waiters) # 0
      <3>1. Len(waiters) \in Nat BY SeqLength DEF SleepInv
      <3> QED BY <1>4, <3>1 DEF Queued
    <2>2. 1 \in 1 .. Len(waiters) BY <2>1
    <2>3. waiters[1] \in Queue BY <2>2, SeqElement DEF SleepInv
    <2>4. {j \in 1 .. 1 : waiters[j][1] = Here} = {1} BY <2>2 DEF SleepInv
    <2>5. Cardinality({1}) = 1 BY DEF CardFacts
    <2>6. Cardinality({j \in 1 .. 1 : waiters[j][1] = Here}) <= 1 BY <2>4, <2>5
    <2>7. 1 \in FirstWaiters(Here, 1) BY <2>2, <2>6 DEF FirstWaiters, SleepInv
    <2> QED BY <2>3, <2>7 DEF Queue
  <1> HIDE DEF woken
  <1>5. /\ waiters' \in Seq(Queue)
        /\ \A i \in 1 .. Len(waiters') : \E j \in 1 .. Len(waiters) : waiters'[i] = waiters[j]
        /\ \A u : Queued(u)' <=> Queued(u) /\ u \notin woken
    BY Zenon, <1>2, QueueWithout DEF SleepInv
  <1>55. \A j \in 1 .. Len(waiters) : waiters[j][1] = Here BY Zenon DEF SleepInv
  <1>6. \A i \in 1 .. Len(waiters') : waiters'[i][1] = Here BY Zenon, <1>5, <1>55
  <1>7. pc[t] = "wake" /\ \A u \in Thread : pc'[u] = IF u = t THEN "out" ELSE pc[u]
    BY <1>1 DEF WakeOne, At, Words
  <1>8. Words' BY <1>1, <1>2 DEF WakeOne, At, Words
  <1>9. status' \in [Thread -> {"Ready", "Blocked"}] BY Zenon, <1>2 DEF SleepInv
  <1>10. \A u \in Thread : Queued(u)' => pc'[u] = "asleep" BY <1>5, <1>7 DEF SleepInv
  <1>11. \A u \in Thread : status'[u] = "Blocked" => Queued(u)' BY Zenon, <1>2, <1>5 DEF SleepInv
  <1>12. ASSUME NEW u \in Thread, status'[u] = "Blocked" PROVE \E w \in Thread : Saves(w)'
    <2>1. Queued(u) BY <1>5, <1>11, <1>12
    <2>2. PICK w \in Thread : w \in woken BY <1>4, <2>1
    <2>3. pc[w] = "asleep" BY <1>3, <2>2 DEF SleepInv
    <2>4. status'[w] = "Ready" BY <1>2, <2>2 DEF SleepInv
    <2>5. pc'[w] = "asleep" BY <1>7, <2>3
    <2> QED BY <2>4, <2>5 DEF Saves
  <1> QED BY Zenon, <1>5, <1>6, <1>8, <1>9, <1>10, <1>11, <1>12 DEF SleepInv

\* A wake-up from elsewhere makes one sleeper less.
LEMMA SleepOther ==
    ASSUME SleepInv, NEW t \in Thread, OtherWake(t), UNCHANGED pc
    PROVE  SleepInv'
  <1>1. waiters' = waiters /\ mem' = mem /\ status[t] = "Blocked" /\ status' = [status EXCEPT ![t] = "Ready"]
    BY DEF OtherWake
  <1>2. \A u : Queued(u)' <=> Queued(u) BY <1>1 DEF Queued
  <1>3. Saves(t)' BY <1>1 DEF SleepInv, Saves
  <1>4. Words' BY Zenon, <1>1 DEF SleepInv, Words
  <1>5. \A u \in Thread : status'[u] = "Blocked" => status[u] = "Blocked" BY <1>1 DEF SleepInv
  <1>6. status' \in [Thread -> {"Ready", "Blocked"}] BY <1>1 DEF SleepInv
  <1> QED BY Zenon, <1>1, <1>2, <1>3, <1>4, <1>5, <1>6 DEF SleepInv

\* Every step of the threads that use the mutex.
LEMMA SleepNext ==
    ASSUME CardFacts, \A t, u \in Thread : SpaceOf[t] = SpaceOf[u], SleepInv, [Next]_vars
    PROVE  SleepInv'
  <1>1. CASE UNCHANGED vars
    <2>1. \A u : Queued(u)' <=> Queued(u) BY <1>1 DEF vars, kernel, Queued
    <2>2. \A u : Saves(u)' <=> Saves(u) BY <1>1 DEF vars, kernel, Saves
    <2> QED BY <1>1, <2>1, <2>2 DEF vars, kernel, SleepInv, Words, Word
  <1>2. ASSUME NEW t \in Thread, Begin(t) \/ Step(t) \/ (OtherWake(t) /\ UNCHANGED pc)
        PROVE  SleepInv'
    BY Zenon, <1>2, SleepInstructions, SleepWait, SleepAwake, SleepWake, SleepOther DEF Step
  <1> QED BY Zenon, <1>1, <1>2 DEF Next
-----------------------------------------------------------------------------
\* The word of a once, in the one address space of the threads.
OnceWord(w) == \A t \in Thread : Word(t, OnceHere) = w

\* The inductive invariant behind OnceAndBefore when all threads share one
\* address space: the word is 1 as long as one thread, and no other, is between
\* its compare_exchange() and its store, and nobody returns earlier.
OnceInv ==
    /\ mem \in [Space -> [Addr -> Value]]
    /\ oncePc \in [Thread -> {"load", "cas", "init", "store", "wake", "wait", "asleep", "ok", "error"}]
    /\ \A t, u \in Thread : {oncePc[t], oncePc[u]} \subseteq {"init", "store"} => t = u
    /\ \/ /\ OnceWord(0) /\ inits = 0
          /\ \A t \in Thread : oncePc[t] \notin {"init", "store", "wake", "ok"}
       \/ /\ OnceWord(1) /\ inits = 0
          /\ \A t \in Thread : oncePc[t] \notin {"store", "wake", "ok"}
       \/ /\ OnceWord(1) /\ inits = 1
          /\ \A t \in Thread : oncePc[t] \notin {"init", "wake", "ok"}
       \/ /\ OnceWord(2) /\ inits = 1
          /\ \A t \in Thread : oncePc[t] \notin {"init", "store"}

\* The word of a once is a word of the process.
LEMMA OnceHereIsAddr == OnceHere \in Addr
  BY MutexAssumption DEF OnceHere

\* A store to the word, as every thread sees it.
LEMMA OnceStore ==
    ASSUME \A t, u \in Thread : SpaceOf[t] = SpaceOf[u], mem \in [Space -> [Addr -> Value]],
           NEW t \in Thread, NEW w \in Value, SetWord(t, OnceHere, w)
    PROVE  OnceWord(w)' /\ mem' \in [Space -> [Addr -> Value]]
  <1>1. SpaceOf[t] \in Space /\ OnceHere \in Addr BY FutexAssumption, OnceHereIsAddr
  <1>2. mem' = [mem EXCEPT ![SpaceOf[t]] = [mem[SpaceOf[t]] EXCEPT ![OnceHere] = w]] BY Zenon DEF SetWord
  <1>3. mem[SpaceOf[t]] \in [Addr -> Value] BY Zenon, <1>1
  <1>4. mem'[SpaceOf[t]][OnceHere] = w BY Zenon, <1>1, <1>2, <1>3
  <1>5. mem' \in [Space -> [Addr -> Value]] BY Zenon, <1>1, <1>2, <1>3
  <1> QED BY Zenon, <1>4, <1>5 DEF OnceWord, Word

\* Only the thread that makes a step moves.
LEMMA OnceMoves ==
    ASSUME OnceInv, NEW t \in Thread, NEW from, NEW to, OnceAt(t, from, to),
           to \in {"load", "cas", "init", "store", "wake", "wait", "asleep", "ok", "error"}
    PROVE  /\ oncePc[t] = from /\ oncePc'[t] = to /\ \A u \in Thread : u # t => oncePc'[u] = oncePc[u]
           /\ oncePc' \in [Thread -> {"load", "cas", "init", "store", "wake", "wait", "asleep", "ok", "error"}]
  BY Zenon DEF OnceAt, OnceInv

\* A thread that takes no part in the initialisation: it loads, compares in
\* vain, waits or wakes the others.
LEMMA OnceIdle ==
    ASSUME OnceInv, UNCHANGED <<mem, inits>>, NEW t \in Thread,
           oncePc' \in [Thread -> {"load", "cas", "init", "store", "wake", "wait", "asleep", "ok", "error"}],
           \A u \in Thread : u # t => oncePc'[u] = oncePc[u],
           oncePc'[t] \in {"load", "cas", "wait", "asleep", "error"} \/ (oncePc'[t] = "ok" /\ OnceWord(2)),
           oncePc[t] \notin {"init", "store"}
    PROVE  OnceInv'
  <1>1. \A w : OnceWord(w)' <=> OnceWord(w) BY Zenon DEF OnceWord, Word
  <1>2. oncePc'[t] \notin {"init", "store", "wake"} OBVIOUS
  <1>3. \A u, v \in Thread : {oncePc'[u], oncePc'[v]} \subseteq {"init", "store"} => u = v
    BY <1>2 DEF OnceInv
  <1>4. oncePc'[t] = "ok" => ~OnceWord(0) /\ ~OnceWord(1)
    <2>1. 2 # 0 /\ 2 # 1 OBVIOUS
    <2> QED BY Zenon, <1>2, <2>1 DEF OnceWord
  <1>5. inits' = inits /\ mem' = mem BY Zenon
  <1>6. \A S : (\A u \in Thread : oncePc[u] \notin S) /\ oncePc'[t] \notin S
                => \A u \in Thread : oncePc'[u] \notin S
    BY Zenon
  <1>7. CASE OnceWord(0) /\ inits = 0 /\ \A u \in Thread : oncePc[u] \notin {"init", "store", "wake", "ok"}
    <2>1. oncePc'[t] \notin {"init", "store", "wake", "ok"} BY <1>2, <1>4, <1>7
    <2> QED BY Zenon, <1>1, <1>3, <1>5, <1>6, <1>7, <2>1 DEF OnceInv
  <1>8. CASE OnceWord(1) /\ inits = 0 /\ \A u \in Thread : oncePc[u] \notin {"store", "wake", "ok"}
    <2>1. oncePc'[t] \notin {"store", "wake", "ok"} BY <1>2, <1>4, <1>8
    <2> QED BY Zenon, <1>1, <1>3, <1>5, <1>6, <1>8, <2>1 DEF OnceInv
  <1>9. CASE OnceWord(1) /\ inits = 1 /\ \A u \in Thread : oncePc[u] \notin {"init", "wake", "ok"}
    <2>1. oncePc'[t] \notin {"init", "wake", "ok"} BY <1>2, <1>4, <1>9
    <2> QED BY Zenon, <1>1, <1>3, <1>5, <1>6, <1>9, <2>1 DEF OnceInv
  <1>10. CASE OnceWord(2) /\ inits = 1 /\ \A u \in Thread : oncePc[u] \notin {"init", "store"}
    <2>1. oncePc'[t] \notin {"init", "store"} BY <1>2
    <2> QED BY Zenon, <1>1, <1>3, <1>5, <1>6, <1>10, <2>1 DEF OnceInv
  <1> QED BY Zenon, <1>7, <1>8, <1>9, <1>10 DEF OnceInv

\* The three instructions of the thread that initialises.
LEMMA OnceRuns ==
    ASSUME \A t, u \in Thread : SpaceOf[t] = SpaceOf[u], OnceInv, NEW t \in Thread,
           \/ Word(t, OnceHere) = 0 /\ SetWord(t, OnceHere, 1) /\ OnceAt(t, "cas", "init") /\ inits' = inits
           \/ OnceAt(t, "init", "store") /\ inits' = inits + 1 /\ mem' = mem
           \/ SetWord(t, OnceHere, 2) /\ OnceAt(t, "store", "wake") /\ inits' = inits
    PROVE  OnceInv'
  <1>1. /\ mem \in [Space -> [Addr -> Value]] /\ {0, 1, 2} \subseteq Value
        /\ \A w : OnceWord(w) => Word(t, OnceHere) = w
    BY Zenon, MutexAssumption DEF OnceInv, OnceWord
  <1>2. CASE Word(t, OnceHere) = 0 /\ SetWord(t, OnceHere, 1) /\ OnceAt(t, "cas", "init") /\ inits' = inits
    <2>1. OnceWord(1)' /\ mem' \in [Space -> [Addr -> Value]] BY Zenon, <1>1, <1>2, OnceStore
    <2>2. /\ oncePc'[t] = "init" /\ \A u \in Thread : u # t => oncePc'[u] = oncePc[u]
          /\ oncePc' \in [Thread -> {"load", "cas", "init", "store", "wake", "wait", "asleep", "ok", "error"}]
      BY Zenon, <1>2, OnceMoves
    <2>3. inits = 0 /\ \A u \in Thread : oncePc[u] \notin {"init", "store", "wake", "ok"}
      <3>1. 0 # 1 /\ 0 # 2 OBVIOUS
      <3> QED BY Zenon, <1>1, <1>2, <3>1 DEF OnceInv
    <2>4. inits' = 0 /\ \A u \in Thread : oncePc'[u] \notin {"store", "wake", "ok"} BY <1>2, <2>2, <2>3
    <2>5. \A u, v \in Thread : {oncePc'[u], oncePc'[v]} \subseteq {"init", "store"} => u = v
      BY <2>2, <2>3
    <2> QED BY Zenon, <2>1, <2>2, <2>4, <2>5 DEF OnceInv
  <1>3. CASE OnceAt(t, "init", "store") /\ inits' = inits + 1 /\ mem' = mem
    <2>1. /\ oncePc[t] = "init" /\ oncePc'[t] = "store" /\ \A u \in Thread : u # t => oncePc'[u] = oncePc[u]
          /\ oncePc' \in [Thread -> {"load", "cas", "init", "store", "wake", "wait", "asleep", "ok", "error"}]
      BY Zenon, <1>3, OnceMoves
    <2>2. OnceWord(1) /\ inits = 0 /\ \A u \in Thread : oncePc[u] \notin {"store", "wake", "ok"}
      BY Zenon, <2>1 DEF OnceInv
    <2>3. \A u \in Thread : u # t => oncePc[u] # "init" BY <2>1 DEF OnceInv
    <2>4. inits' = 1 /\ \A u \in Thread : oncePc'[u] \notin {"init", "wake", "ok"} BY <1>3, <2>1, <2>2, <2>3
    <2>5. \A u, v \in Thread : {oncePc'[u], oncePc'[v]} \subseteq {"init", "store"} => u = v
      BY <2>1, <2>2, <2>3
    <2>6. OnceWord(1)' BY Zenon, <1>3, <2>2 DEF OnceWord, Word
    <2> QED BY Zenon, <1>1, <1>3, <2>1, <2>4, <2>5, <2>6 DEF OnceInv
  <1>4. CASE SetWord(t, OnceHere, 2) /\ OnceAt(t, "store", "wake") /\ inits' = inits
    <2>1. /\ oncePc[t] = "store" /\ oncePc'[t] = "wake" /\ \A u \in Thread : u # t => oncePc'[u] = oncePc[u]
          /\ oncePc' \in [Thread -> {"load", "cas", "init", "store", "wake", "wait", "asleep", "ok", "error"}]
      BY Zenon, <1>4, OnceMoves
    <2>2. inits = 1 BY Zenon, <2>1 DEF OnceInv
    <2>3. \A u \in Thread : oncePc'[u] \notin {"init", "store"} BY <2>1 DEF OnceInv
    <2>4. OnceWord(2)' /\ mem' \in [Space -> [Addr -> Value]] BY Zenon, <1>1, <1>4, OnceStore
    <2>5. \A u, v \in Thread : {oncePc'[u], oncePc'[v]} \subseteq {"init", "store"} => u = v
      BY Zenon, <2>3
    <2> QED BY Zenon, <1>4, <2>1, <2>2, <2>3, <2>4, <2>5 DEF OnceInv
  <1> QED BY Zenon, <1>2, <1>3, <1>4

\* Every instruction of call_once().
LEMMA OnceStepInv ==
    ASSUME \A t, u \in Thread : SpaceOf[t] = SpaceOf[u], OnceInv, NEW t \in Thread, OnceStep(t)
    PROVE  OnceInv'
  <1>1. CASE OnceLoad(t)
    <2>1. UNCHANGED <<mem, inits>> BY Zenon, <1>1 DEF OnceLoad
    <2>2. CASE Word(t, OnceHere) = 2 /\ OnceAt(t, "load", "ok")
      <3>1. OnceWord(2) BY <2>2 DEF OnceWord, Word
      <3>2. /\ oncePc[t] = "load" /\ oncePc'[t] = "ok" /\ \A u \in Thread : u # t => oncePc'[u] = oncePc[u]
            /\ oncePc' \in [Thread -> {"load", "cas", "init", "store", "wake", "wait", "asleep", "ok", "error"}]
        BY Zenon, <2>2, OnceMoves
      <3> QED BY Zenon, <2>1, <3>1, <3>2, OnceIdle
    <2>3. CASE OnceAt(t, "load", "cas") BY Zenon, <2>1, <2>3, OnceMoves, OnceIdle
    <2>4. CASE OnceAt(t, "load", "wait") BY Zenon, <2>1, <2>4, OnceMoves, OnceIdle
    <2> QED BY Zenon, <1>1, <2>2, <2>3, <2>4 DEF OnceLoad
  <1>2. CASE OnceCompareExchange(t)
    <2>1. CASE Word(t, OnceHere) = 0 /\ SetWord(t, OnceHere, 1) /\ OnceAt(t, "cas", "init")
      BY Zenon, <1>2, <2>1, OnceRuns DEF OnceCompareExchange
    <2>2. CASE OnceAt(t, "cas", "load") /\ UNCHANGED mem
      <3>1. UNCHANGED <<mem, inits>> BY Zenon, <1>2, <2>2 DEF OnceCompareExchange
      <3> QED BY Zenon, <2>2, <3>1, OnceMoves, OnceIdle
    <2> QED BY Zenon, <1>2, <2>1, <2>2 DEF OnceCompareExchange
  <1>3. CASE OnceRunInit(t) BY Zenon, <1>3, OnceRuns DEF OnceRunInit
  <1>4. CASE OnceStoreDone(t) BY Zenon, <1>4, OnceRuns DEF OnceStoreDone
  <1>5. CASE OnceWakeAll(t)
    <2>1. oncePc[t] = "wake" BY Zenon, <1>5 DEF OnceWakeAll, OnceAt
    <2>2. OnceWord(2) BY Zenon, <2>1 DEF OnceInv
    <2> QED BY Zenon, <1>5, <2>2, OnceMoves, OnceIdle DEF OnceWakeAll
  <1>6. CASE OnceWait(t)
    <2>1. UNCHANGED <<mem, inits>> BY Zenon, <1>6 DEF OnceWait
    <2>2. OnceAt(t, "wait", "load") \/ OnceAt(t, "wait", "error") \/ OnceAt(t, "wait", "asleep")
      BY Zenon, <1>6 DEF OnceWait
    <2>3. CASE OnceAt(t, "wait", "load") BY Zenon, <2>1, <2>3, OnceMoves, OnceIdle
    <2>4. CASE OnceAt(t, "wait", "error") BY Zenon, <2>1, <2>4, OnceMoves, OnceIdle
    <2>5. CASE OnceAt(t, "wait", "asleep") BY Zenon, <2>1, <2>5, OnceMoves, OnceIdle
    <2> QED BY Zenon, <2>2, <2>3, <2>4, <2>5
  <1>7. CASE OnceAwake(t) BY Zenon, <1>7, OnceMoves, OnceIdle DEF OnceAwake
  <1> QED BY Zenon, <1>1, <1>2, <1>3, <1>4, <1>5, <1>6, <1>7 DEF OnceStep

\* The invariant about a once says more than that the initialisation runs once
\* and before anybody returns.
LEMMA OnceImplies == ASSUME OnceInv PROVE OnceAndBefore
  <1>1. inits <= 1 BY DEF OnceInv
  <1>2. ASSUME NEW t \in Thread, oncePc[t] = "ok"
        PROVE  inits = 1 /\ \A u \in Thread : oncePc[u] \notin {"init", "store"}
    BY Zenon, <1>2 DEF OnceInv
  <1> QED BY Zenon, <1>1, <1>2 DEF OnceAndBefore

\* What a program with the three locks keeps, whichever it uses.
LocksInv ==
    /\ part = "mutex" => SleepInv
    /\ part = "once" => OnceInv
    /\ part # "once" => inits = 0 /\ \A t \in Thread : oncePc[t] = "load"

\* PThreadMutex::new() and PThreadOnce::new().
LEMMA LocksInitInv == LocksInit => LocksInv
  <1> SUFFICES ASSUME LocksInit PROVE LocksInv OBVIOUS
  <1>1. SleepInv BY Zenon, SleepInit DEF LocksInit
  <1>2. inits = 0 /\ oncePc = [t \in Thread |-> "load"] BY Zenon DEF LocksInit, OnceInit
  <1>3. mem = [s \in Space |-> [a \in Addr |-> 0]] BY Zenon, MutexAssumption DEF LocksInit, Init, FutexInit
  <1>4. OnceWord(0) BY Zenon, <1>3, FutexAssumption, OnceHereIsAddr DEF OnceWord, Word
  <1>5. mem \in [Space -> [Addr -> Value]] BY Zenon, <1>3, MutexAssumption
  <1>6. \A t \in Thread : oncePc[t] = "load" BY Zenon, <1>2
  <1>7. oncePc \in [Thread -> {"load", "cas", "init", "store", "wake", "wait", "asleep", "ok", "error"}]
    BY Zenon, <1>2
  <1>8. \A t \in Thread : oncePc[t] \notin {"init", "store", "wake", "ok"} BY <1>6
  <1>9. OnceInv BY Zenon, <1>2, <1>4, <1>5, <1>7, <1>8 DEF OnceInv
  <1> QED BY Zenon, <1>1, <1>2, <1>6, <1>9 DEF LocksInv

\* Every step of a program that uses one of the locks.
LEMMA LocksNextInv ==
    ASSUME CardFacts, \A t, u \in Thread : SpaceOf[t] = SpaceOf[u], LocksInv, [LocksNext]_locksVars
    PROVE  LocksInv'
  <1>1. part' = part
    <2>1. CASE LocksNext BY Zenon, <2>1 DEF LocksNext, LocksStep
    <2>2. CASE UNCHANGED locksVars BY Zenon, <2>2 DEF locksVars
    <2> QED BY Zenon, <2>1, <2>2
  <1>2. CASE part = "mutex"
    <2>1. [Next]_vars
      <3>1. CASE UNCHANGED locksVars BY Zenon, <3>1 DEF locksVars, vars
      <3>2. CASE LocksNext
        <4>1. part # "condvar" /\ part # "once" BY <1>2
        <4> QED BY Zenon, <1>2, <3>2, <4>1 DEF LocksNext, LocksStep, Next
      <3> QED BY Zenon, <3>1, <3>2
    <2>2. UNCHANGED onceLocal
      <3>1. part # "once" BY <1>2
      <3>2. CASE UNCHANGED locksVars BY Zenon, <3>2 DEF locksVars
      <3>3. CASE LocksNext BY Zenon, <3>1, <3>3 DEF LocksNext, LocksStep
      <3> QED BY Zenon, <3>2, <3>3
    <2>3. SleepInv' BY Zenon, <1>2, <2>1, SleepNext DEF LocksInv
    <2> QED BY <1>1, <1>2, <2>2, <2>3 DEF LocksInv, onceLocal
  <1>3. CASE part = "once"
    <2>1. (\E t \in Thread : OnceStep(t)) \/ UNCHANGED <<mem, onceLocal>>
      <3>1. part # "mutex" /\ part # "condvar" BY <1>3
      <3>2. CASE UNCHANGED locksVars BY Zenon, <3>2 DEF locksVars
      <3>3. CASE LocksNext BY Zenon, <3>1, <3>3 DEF LocksNext, LocksStep, OtherWake
      <3> QED BY Zenon, <3>2, <3>3
    <2>2. OnceInv BY Zenon, <1>3 DEF LocksInv
    <2>3. ASSUME \E t \in Thread : OnceStep(t) PROVE OnceInv' BY Zenon, <2>2, <2>3, OnceStepInv
    <2>4. ASSUME UNCHANGED <<mem, onceLocal>> PROVE OnceInv'
      <3>1. mem' = mem /\ oncePc' = oncePc /\ inits' = inits BY Zenon, <2>4 DEF onceLocal
      <3>2. \A w : OnceWord(w)' <=> OnceWord(w) BY Zenon, <3>1 DEF OnceWord, Word
      <3> QED BY Zenon, <2>2, <3>1, <3>2 DEF OnceInv
    <2>5. OnceInv' BY Zenon, <2>1, <2>3, <2>4
    <2> QED BY <1>1, <1>3, <2>5 DEF LocksInv
  <1>4. CASE part # "mutex" /\ part # "once"
    <2>1. UNCHANGED onceLocal
      <3>1. CASE UNCHANGED locksVars BY Zenon, <3>1 DEF locksVars
      <3>2. CASE LocksNext BY Zenon, <1>4, <3>2 DEF LocksNext, LocksStep
      <3> QED BY Zenon, <3>1, <3>2
    <2> QED BY Zenon, <1>1, <1>4, <2>1 DEF LocksInv, onceLocal
  <1> QED BY Zenon, <1>2, <1>3, <1>4

\* What the callers of the locks rely on.
LEMMA LocksImplies ==
    ASSUME \A t, u \in Thread : SpaceOf[t] = SpaceOf[u], LocksInv
    PROVE  LocksSafe
  <1>1. part = "mutex" => NoLostWake BY Zenon, SleepImplies DEF LocksInv
  <1>2. CASE part = "once" BY Zenon, <1>1, <1>2, OnceImplies DEF LocksInv, LocksSafe
  <1>3. CASE part # "once"
    <2>1. OnceAndBefore BY <1>3 DEF LocksInv, OnceAndBefore
    <2> QED BY Zenon, <1>1, <2>1 DEF LocksSafe
  <1> QED BY Zenon, <1>2, <1>3
-----------------------------------------------------------------------------
\* How many there are in a set, as module FiniteSets defines it.  The library
\* about finite sets comes with an instance of that module.
Size(S) == Cardinality(S)
SizeOf(S) ==
    LET CS[T \in SUBSET S] == IF T = {} THEN 0 ELSE 1 + CS[T \ {CHOOSE x : x \in T}]
    IN  CS[S]

\* Sizes are counted one by one.
LEMMA SizeIs == \A S : Size(S) = SizeOf(S)
  BY Zenon DEF Cardinality, Size, SizeOf

LOCAL INSTANCE FiniteSetTheorems

\* The positions of one thread in the queue are counted.
LEMMA OneIsOne == CardFacts
  <1>1. \A S : Cardinality(S) = SizeOf(S) BY Zenon DEF Cardinality, SizeOf
  <1>2. \A S : Size(S) = Cardinality(S) BY Zenon, <1>1, SizeIs
  <1>3. Cardinality({}) = 0 /\ \A x : Cardinality({x}) = 1 BY Zenon, FS_EmptySet, FS_Singleton
  <1>4. Size({}) = 0 /\ \A x : Size({x}) = 1 BY Zenon, <1>2, <1>3
  <1> QED BY Zenon, <1>4 DEF CardFacts, Size

\* sys_futex_wait() and sys_futex_wake(): who is asleep is in the queue, once,
\* and a dead thread is in it only until task 0 has cleaned up after the kill,
\* for any number of threads, words and waiters.
THEOREM SleepersAreQueued == FcSpec => []SleeperIsQueued
  <1>1. FcInv /\ [FcNext]_fcVars => FcInv' BY FcNextInv
  <1>2. FcInv => SleeperIsQueued BY FcInvImplies, OneIsOne
  <1> QED BY FcInitInv, <1>1, <1>2, PTL DEF FcSpec

\* unlock() and futex_wait(): in one address space no wake-up is lost, for any
\* number of threads and any size of the queue, although any wake-up may also
\* come from elsewhere.  (With two address spaces the queue, which is keyed by
\* the virtual address alone, may hand the wake-up to the other process.)
THEOREM NoWakeIsLost ==
    ASSUME \A t, u \in Thread : SpaceOf[t] = SpaceOf[u]
    PROVE  Spec => []NoLostWake
  <1>1. SleepInv /\ [Next]_vars => SleepInv' BY Zenon, SleepNext, OneIsOne
  <1>2. SleepInv => NoLostWake BY SleepImplies
  <1> QED BY SleepInit, <1>1, <1>2, PTL DEF Spec

\* unlock() and futex_wait() lose no wake-up and call_once() initialises once
\* and before anybody returns, in any program of one process, for any number of
\* threads and any size of the futex queue.
THEOREM LocksAreSafe ==
    ASSUME \A t, u \in Thread : SpaceOf[t] = SpaceOf[u]
    PROVE  LocksSpec => []LocksSafe
  <1>1. LocksInv /\ [LocksNext]_locksVars => LocksInv' BY Zenon, LocksNextInv, OneIsOne
  <1>2. LocksInv => LocksSafe BY Zenon, LocksImplies
  <1> QED BY LocksInitInv, <1>1, <1>2, PTL DEF LocksSpec
=============================================================================
