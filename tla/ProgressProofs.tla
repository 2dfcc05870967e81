--------------------------- MODULE ProgressProofs ---------------------------
(***************************************************************************)
(* The service supervisor with its queues, for any services, dependencies  *)
(* and sizes of the queues; and the windows of user programs, for any      *)
(* number of programs and windows and any size of the event queues.        *)
(***************************************************************************)
EXTENDS Services, UserGui, Induction, FiniteSetTheorems

\* One round adds nothing to C.
ClosedUnder(C, next) == \A r \in C : next[r] \subseteq C

\* What the rounds of start_recursive() and stop_dependents() compute: a set
\* of services that contains the ones they begin with and is closed.  There are
\* as many rounds as services, and a round that changes something adds one.
LEMMA ReachedIsClosed ==
    ASSUME NEW S \in SUBSET Service, S # {}, NEW next \in [Service -> SUBSET Service]
    PROVE  /\ S \subseteq Reached(S, next) /\ Reached(S, next) \subseteq Service
           /\ ClosedUnder(Reached(S, next), next)
  <1> DEFINE N == Cardinality(Service)
             P == SUBSET Service
             More(C) == C \cup UNION {next[r] : r \in C}
             F == [i \in 1 .. N |-> [C \in P |-> More(C)]]
             Is(f) == f = [n \in 0 .. N |-> IF n = 0 THEN S ELSE f[n - 1] \cup UNION {next[r] : r \in f[n - 1]}]
             round == CHOOSE f : Is(f)
  <1>1. N \in Nat BY ServicesAssumption, FS_CardinalityType
  <1>2. \A C \in P : More(C) \in P OBVIOUS
  <1>3. Reached(S, next) = round[N] BY DEF Reached
  <1> HIDE DEF N, round
  <1>4. PICK f \in [0 .. N -> P] : f[0] = S /\ \A i \in 1 .. N : f[i] = More(f[i - 1])
    <2> HIDE DEF More, P
    <2>1. F \in [1 .. N -> [P -> P]] BY <1>2
    <2>2. S \in P BY DEF P
    <2> HIDE DEF F
    <2>3. PICK f : Iterates(f, N, P, S, F) BY Zenon, <1>1, <2>1, <2>2, Iteration
    <2>4. f \in [0 .. N -> P] /\ f[0] = S BY <2>3 DEF Iterates
    <2>5. ASSUME NEW i \in 1 .. N PROVE f[i] = More(f[i - 1])
      <3>1. i - 1 \in 0 .. N BY <1>1
      <3>2. f[i - 1] \in P BY <2>4, <3>1
      <3>3. f[i] = F[i][f[i - 1]] BY <2>3 DEF Iterates
      <3> QED BY <3>2, <3>3 DEF F
    <2> QED BY Zenon, <2>4, <2>5
  <1>5. Is(f)
    <2> DEFINE g == [n \in 0 .. N |-> IF n = 0 THEN S ELSE f[n - 1] \cup UNION {next[r] : r \in f[n - 1]}]
    <2>1. ASSUME NEW i \in 0 .. N PROVE f[i] = g[i]
      <3>1. CASE i = 0 BY <1>4, <3>1
      <3>2. CASE i \in 1 .. N BY <1>4, <3>2
      <3> QED BY <1>1, <3>1, <3>2
    <2> HIDE DEF g
    <2>2. g = [i \in 0 .. N |-> g[i]] BY DEF g
    <2>3. f = [i \in 0 .. N |-> f[i]] BY <1>4
    <2>4. f = g BY <2>1, <2>2, <2>3
    <2> QED BY Zenon, <2>4 DEF g
  <1>6. Is(round) BY Zenon, <1>5 DEF round
  <1>7. round[0] = S /\ \A i \in 1 .. N : round[i] = More(round[i - 1])
    <2>1. round[0] = S BY <1>1, <1>6
    <2>2. ASSUME NEW i \in 1 .. N PROVE round[i] = More(round[i - 1])
      <3>1. i \in 0 .. N /\ i # 0 BY <1>1
      <3> QED BY Zenon, <1>6, <3>1
    <2> QED BY <2>1, <2>2
  <1> HIDE DEF Is
  <1> DEFINE Grown(n) == ClosedUnder(round[n], next) \/ Cardinality(round[n]) >= n + 1
             Good(n) == round[n] \in P /\ S \subseteq round[n] /\ Grown(n)
             T == {n \in 0 .. N : Good(n)}
  <1>8. \A C \in P : IsFiniteSet(C) /\ Cardinality(C) \in Nat /\ Cardinality(C) <= N
    BY ServicesAssumption, FS_Subset, FS_CardinalityType DEF N
  <1>9. 0 \in T
    <2>1. Cardinality(S) # 0 BY <1>8, FS_EmptySet
    <2>2. Cardinality(round[0]) >= 0 + 1 BY <1>7, <1>8, <2>1
    <2>3. Good(0) BY <1>7, <2>2
    <2> HIDE DEF Good
    <2> QED BY <1>1, <2>3
  <1>10. ASSUME NEW k \in 0 .. (N - 1), k \in T PROVE k + 1 \in T
    <2> DEFINE C == round[k]
    <2>1. k + 1 \in 1 .. N /\ k + 1 \in 0 .. N /\ (k + 1) - 1 = k BY <1>1
    <2>2. round[k + 1] = More(C) BY <1>7, <2>1
    <2>3. C \in P /\ S \subseteq C /\ Grown(k) BY <1>10
    <2> HIDE DEF C
    <2>4. More(C) \in P /\ C \subseteq More(C) BY <1>2, <2>3
    <2>5. CASE ClosedUnder(C, next)
      <3>1. More(C) = C BY <2>5 DEF ClosedUnder
      <3>2. Good(k + 1) BY Zenon, <2>2, <2>3, <2>5, <3>1
      <3> HIDE DEF Good
      <3> QED BY <2>1, <3>2
    <2>6. CASE ~ClosedUnder(C, next)
      <3>1. Cardinality(C) >= k + 1 BY <2>3, <2>6 DEF C
      <3>2. More(C) # C BY <2>6 DEF ClosedUnder
      <3> HIDE DEF More
      <3>3. Cardinality(C) < Cardinality(More(C))
        <4>1. IsFiniteSet(More(C)) /\ Cardinality(More(C)) \in Nat /\ Cardinality(C) \in Nat
          BY <1>8, <2>3, <2>4
        <4>2. /\ Cardinality(C) <= Cardinality(More(C))
              /\ Cardinality(C) = Cardinality(More(C)) => C = More(C)
          BY <2>4, <4>1, FS_Subset
        <4> QED BY <3>2, <4>1, <4>2
      <3>4. Cardinality(More(C)) >= (k + 1) + 1
        BY <1>8, <2>3, <2>4, <3>1, <3>3
      <3>5. Good(k + 1) BY <2>2, <2>3, <2>4, <3>4
      <3> HIDE DEF Good
      <3> QED BY <2>1, <3>5
    <2> QED BY <2>5, <2>6
  <1> HIDE DEF T
  <1>11. 0 .. N \subseteq T BY <1>1, <1>9, <1>10, SetInduction
  <1>12. N \in T BY <1>1, <1>11
  <1>13. Good(N) BY <1>12 DEF T
  <1>14. ClosedUnder(round[N], next) BY <1>1, <1>8, <1>13
  <1> QED BY <1>3, <1>13, <1>14

\* What the proof needs of the table.
SvcTable == svc \in [Service -> [state : SvcStates, failures : 0 .. 2, backoff : BOOLEAN]]

SvcInv == SvcTable /\ NoStoppedDependency

\* All services run after init().
LEMMA SvcInitInv == SvcInit => SvcInv
  BY ServicesAssumption DEF SvcInit, SvcInv, SvcTable, Booted, SvcStates, NoStoppedDependency

\* start() and restart() bring everything up that the service needs.
LEMMA SvcStart ==
    ASSUME SvcInv, NEW s \in Service, start(s)
    PROVE  SvcInv'
  <1> DEFINE C == StartSet(s)
  <1>1. C \subseteq Service /\ \A r \in C : ServiceDeps[r] \subseteq C
    BY Zenon, ReachedIsClosed, ServicesAssumption DEF StartSet, ClosedUnder
  <1>2. svc' = [r \in Service |-> IF r \in C
                   THEN [svc[r] EXCEPT !.state = "Running", !.backoff = FALSE] ELSE svc[r]]
    BY Zenon DEF start
  <1> HIDE DEF C
  <1>3. \A r \in Service : svc'[r].state = IF r \in C THEN "Running" ELSE svc[r].state
    BY Zenon, <1>2 DEF SvcInv, SvcTable
  <1>4. SvcTable' BY Zenon, <1>2 DEF SvcInv, SvcTable, SvcStates
  <1>5. NoStoppedDependency'
    <2> SUFFICES ASSUME NEW r \in Service, svc'[r].state = "Running", NEW d \in ServiceDeps[r]
                 PROVE  svc'[d].state # "Stopped"
      BY DEF NoStoppedDependency
    <2>1. d \in Service BY ServicesAssumption
    <2>2. CASE r \in C BY <1>1, <1>3, <2>1, <2>2
    <2>3. CASE r \notin C BY <1>3, <2>1, <2>3 DEF SvcInv, NoStoppedDependency
    <2> QED BY <2>2, <2>3
  <1> QED BY <1>4, <1>5 DEF SvcInv

\* stop() takes down everything that runs and needs the service.
LEMMA SvcStop ==
    ASSUME SvcInv, NEW s \in Service, stop(s)
    PROVE  SvcInv'
  <1> DEFINE S == {s} \cup {r \in Service : svc[r].state = "Stopped"}
             next == [d \in Service |-> {r \in Service : svc[r].state = "Running" /\ d \in ServiceDeps[r]}]
             C == StopSet(s)
  <1>1. S \in SUBSET Service /\ S # {} /\ next \in [Service -> SUBSET Service] OBVIOUS
  <1>2. C = Reached(S, next) BY DEF StopSet
  <1> HIDE DEF C, S, next
  <1>3. S \subseteq C /\ C \subseteq Service /\ \A d \in C : next[d] \subseteq C
    BY <1>1, <1>2, ReachedIsClosed DEF ClosedUnder
  <1>4. \A d \in C, r \in Service : svc[r].state = "Running" /\ d \in ServiceDeps[r] => r \in C
    BY Zenon, <1>3 DEF next
  <1>5. svc' = [r \in Service |-> IF r \in C
                   THEN [svc[r] EXCEPT !.state = "Stopped", !.backoff = FALSE] ELSE svc[r]]
    BY Zenon DEF stop, C
  <1>6. \A r \in Service : svc'[r].state = IF r \in C THEN "Stopped" ELSE svc[r].state
    BY Zenon, <1>5 DEF SvcInv, SvcTable
  <1>7. SvcTable' BY Zenon, <1>5 DEF SvcInv, SvcTable, SvcStates
  <1>8. NoStoppedDependency'
    <2> SUFFICES ASSUME NEW r \in Service, svc'[r].state = "Running", NEW d \in ServiceDeps[r]
                 PROVE  svc'[d].state # "Stopped"
      BY DEF NoStoppedDependency
    <2>1. d \in Service BY ServicesAssumption
    <2>2. r \notin C /\ svc[r].state = "Running" BY <1>6
    <2>3. d \notin C BY <1>4, <2>2
    <2> QED BY <1>6, <2>1, <2>2, <2>3 DEF SvcInv, NoStoppedDependency
  <1> QED BY <1>7, <1>8 DEF SvcInv

\* Failures, backoff, reboot and the restarts of supervise_inner().
LEMMA SvcOthers ==
    ASSUME SvcInv,
           \/ \E s \in Service : fail(s) \/ BackoffPasses(s)
           \/ Reboot \/ supervise
    PROVE  SvcInv'
  <1>1. CASE \E s \in Service : fail(s)
    <2>1. PICK s \in Service : fail(s) BY <1>1
    <2> DEFINE n == IF svc[s].failures = 2 THEN 2 ELSE svc[s].failures + 1
               b == n > 1
    <2>2. svc' = [svc EXCEPT ![s] = [state |-> "Failed", failures |-> n, backoff |-> b]]
      BY <2>1 DEF fail
    <2>n. n \in 0 .. 2 /\ b \in BOOLEAN BY DEF SvcInv, SvcTable
    <2> HIDE DEF n, b
    <2>3. SvcTable' BY <2>2, <2>n DEF SvcInv, SvcTable, SvcStates
    <2>4. \A r \in Service : svc'[r].state = IF r = s THEN "Failed" ELSE svc[r].state
      BY <2>2 DEF SvcInv, SvcTable
    <2> QED BY <2>3, <2>4, ServicesAssumption DEF SvcInv, NoStoppedDependency
  <1>2. CASE (\E s \in Service : BackoffPasses(s)) \/ Reboot
    <2>1. SvcTable'
      <3>1. CASE Reboot BY <3>1 DEF SvcInv, SvcTable, Reboot, Booted
      <3>2. ASSUME NEW s \in Service, BackoffPasses(s) PROVE SvcTable'
        BY Zenon, <3>2 DEF SvcInv, SvcTable, BackoffPasses
      <3> QED BY <1>2, <3>1, <3>2
    <2>2. \A r \in Service : svc'[r].state = svc[r].state
      BY <1>2 DEF SvcInv, SvcTable, BackoffPasses, Reboot, Booted
    <2> QED BY <2>1, <2>2, ServicesAssumption DEF SvcInv, NoStoppedDependency
  <1>3. CASE supervise
    <2>1. svc' = [s \in Service |-> IF MayRestart(s) THEN [svc[s] EXCEPT !.state = "Running"] ELSE svc[s]]
      BY <1>3 DEF supervise
    <2>2. SvcTable' BY <2>1 DEF SvcInv, SvcTable, SvcStates
    <2>3. \A r \in Service : svc'[r].state = IF MayRestart(r) THEN "Running" ELSE svc[r].state
      BY <2>1 DEF SvcInv, SvcTable
    <2>4. \A r \in Service : MayRestart(r) => \A d \in ServiceDeps[r] : svc[d].state = "Running"
      BY DEF MayRestart, DepsReady
    <2>5. \A d \in Service : svc[d].state # "Stopped" => svc'[d].state # "Stopped"
      BY <2>3
    <2> QED BY <2>2, <2>3, <2>4, <2>5, ServicesAssumption DEF SvcInv, NoStoppedDependency
  <1> QED BY <1>1, <1>2, <1>3

\* services.rs: nothing runs on top of a service that was stopped, for any
\* services and dependencies, whatever is started, stopped and restarted, fails
\* or comes back with a reboot.
THEOREM DependenciesAreUp == SvcSpec => []NoStoppedDependency
  <1>1. SvcInv /\ [SvcNext]_svcVars => SvcInv'
    <2> SUFFICES ASSUME SvcInv, [SvcNext]_svcVars PROVE SvcInv' OBVIOUS
    <2>1. CASE UNCHANGED svc BY <2>1 DEF SvcInv, SvcTable, NoStoppedDependency
    <2>2. CASE UNCHANGED svcVars \/ IntervalPasses \/ WritebackEnqueue \/ drain_budget
      BY <2>1, <2>2 DEF svcVars, IntervalPasses, WritebackEnqueue, drain_budget
    <2> QED BY <2>2, SvcStart, SvcStop, SvcOthers DEF SvcNext
  <1>2. SvcInv => NoStoppedDependency BY DEF SvcInv
  <1> QED BY SvcInitInv, <1>1, <1>2, PTL DEF SvcSpec
-----------------------------------------------------------------------------
\* Every kind of deferred work is queued at most once.
OnceEach(q) ==
    q \in Seq(DeferredWork) /\ \A i, j \in 1 .. Len(q) : q[i] = q[j] => i = j

\* r is q with something behind it.
Grows(q, r) == Len(q) <= Len(r) /\ \A i \in 1 .. Len(q) : r[i] = q[i]

\* A queue to which something was appended begins with what it was.
LEMMA GrowsIsPrefix ==
    ASSUME NEW q \in Seq(DeferredWork), NEW r \in Seq(DeferredWork), Grows(q, r)
    PROVE  BeginsWith(r, q)
  <1>1. Len(q) \in Nat /\ Len(r) \in Nat BY SeqLength
  <1>2. \A i \in 1 .. Len(q) : i \in 1 .. Len(r) BY <1>1 DEF Grows
  <1>4. /\ SubSeq(r, 1, Len(q)) \in Seq(DeferredWork) /\ Len(SubSeq(r, 1, Len(q))) = Len(q)
        /\ \A i \in 1 .. Len(q) : SubSeq(r, 1, Len(q))[i] = r[i]
    BY <1>1, <1>2, SeqSub DEF Grows
  <1>5. SubSeq(r, 1, Len(q)) = q BY <1>4, SeqEquals DEF Grows
  <1> QED BY <1>1, <1>5 DEF BeginsWith, Grows

\* deferred::enqueue(): there is always room for what is not queued already.
LEMMA EnqueueGrows ==
    ASSUME NEW q, OnceEach(q), NEW work \in DeferredWork
    PROVE  OnceEach(EnqueueWork(q, work)) /\ Grows(q, EnqueueWork(q, work))
  <1>1. q \in Seq(DeferredWork) /\ Len(q) \in Nat BY SeqLength DEF OnceEach
  <1>0. DOMAIN q = 1 .. Len(q) BY <1>1, SeqLength
  <1>2. CASE \E i \in DOMAIN q : q[i] = work BY <1>1, <1>2 DEF EnqueueWork, Grows
  <1>3. CASE ~\E i \in DOMAIN q : q[i] = work
    <2>1. \A i \in 1 .. Len(q) : q[i] # work BY <1>0, <1>3
    <2>2. Len(q) < MAX_QUEUE
      <3> SUFFICES ASSUME Len(q) >= MAX_QUEUE PROVE FALSE BY <1>1, ServicesAssumption
      <3>1. 1 \in 1 .. Len(q) /\ 2 \in 1 .. Len(q) BY <1>1, ServicesAssumption
      <3>2. q[1] \in DeferredWork /\ q[2] \in DeferredWork BY <1>1, <3>1, SeqElement
      <3>3. q[1] = q[2] BY <2>1, <3>1, <3>2 DEF DeferredWork
      <3> QED BY <3>1, <3>3 DEF OnceEach
    <2> DEFINE r == Append(q, work)
    <2>3. EnqueueWork(q, work) = r BY <1>1, <1>3, <2>2, ServicesAssumption DEF EnqueueWork
    <2>4. /\ r \in Seq(DeferredWork) /\ Len(r) = Len(q) + 1 /\ r[Len(q) + 1] = work
          /\ \A i \in 1 .. Len(q) : r[i] = q[i]
      BY <1>1, SeqAppend
    <2> HIDE DEF r
    <2>5. \A i \in 1 .. Len(r) : i \in 1 .. Len(q) \/ i = Len(q) + 1 BY <1>1, <2>4
    <2>6. \A i, j \in 1 .. Len(r) : r[i] = r[j] => i = j BY <2>1, <2>4, <2>5 DEF OnceEach
    <2>7. OnceEach(r) BY <2>4, <2>6 DEF OnceEach
    <2>8. Grows(q, r) BY <1>1, <2>4 DEF Grows
    <2> QED BY <2>3, <2>7, <2>8
  <1> QED BY <1>2, <1>3

\* Every step: the queue holds each kind of work once, and grows at the back or shrinks at the front.
LEMMA DeferredStep ==
    ASSUME OnceEach(deferQueue), [SvcNext]_svcVars
    PROVE  /\ OnceEach(deferQueue')
           /\ Grows(deferQueue, deferQueue') \/ deferQueue' = Tail(deferQueue) \/ deferQueue' = <<>>
  <1> DEFINE Goal == /\ OnceEach(deferQueue')
                     /\ Grows(deferQueue, deferQueue') \/ deferQueue' = Tail(deferQueue) \/ deferQueue' = <<>>
  <1>0. deferQueue \in Seq(DeferredWork) /\ Len(deferQueue) \in Nat BY SeqLength DEF OnceEach
  <1>1. CASE deferQueue' = deferQueue BY <1>0, <1>1 DEF Grows
  <1>2. CASE Reboot
    <2>1. deferQueue' = <<>> BY <1>2 DEF Reboot
    <2>2. OnceEach(<<>>) BY SeqEmpty DEF OnceEach
    <2> QED BY <2>1, <2>2
  <1>3. CASE supervise
    <2> DEFINE table == [s \in Service |-> IF MayRestart(s) THEN [svc[s] EXCEPT !.state = "Running"] ELSE svc[s]]
               loops == {s \in svcDue : table[s].state = "Running" /\ DepsReady(s, svc)}
               log == IF "event-bus" \in loops THEN EnqueueWork(deferQueue, "FlushKernelLog") ELSE deferQueue
    <2>1. deferQueue' = IF "writeback" \in loops THEN EnqueueWork(log, "FlushWriteback") ELSE log
      BY <1>3 DEF supervise
    <2> HIDE DEF table, loops
    <2>2. OnceEach(log) /\ Grows(deferQueue, log)
      <3>1. CASE "event-bus" \in loops BY <3>1, EnqueueGrows DEF DeferredWork
      <3>2. CASE "event-bus" \notin loops BY <1>0, <3>2 DEF Grows
      <3> QED BY <3>1, <3>2
    <2> HIDE DEF log
    <2>3. Len(log) \in Nat BY <2>2, SeqLength DEF OnceEach
    <2>4. OnceEach(deferQueue') /\ Grows(log, deferQueue')
      <3>1. CASE "writeback" \in loops BY <2>1, <2>2, <3>1, EnqueueGrows DEF DeferredWork
      <3>2. CASE "writeback" \notin loops BY <2>1, <2>2, <2>3, <3>2 DEF Grows
      <3> QED BY <3>1, <3>2
    <2>5. Len(deferQueue') \in Nat BY <2>4, SeqLength DEF OnceEach
    <2>6. Grows(deferQueue, deferQueue') BY <1>0, <2>2, <2>3, <2>4, <2>5 DEF Grows
    <2> QED BY <2>4, <2>6
  <1>4. CASE WritebackEnqueue
    BY <1>4, EnqueueGrows DEF WritebackEnqueue, DeferredWork
  <1>5. CASE drain_budget
    <2>1. deferQueue # <<>> /\ deferQueue' = Tail(deferQueue) BY <1>5 DEF drain_budget
    <2> DEFINE r == Tail(deferQueue)
    <2>2. /\ r \in Seq(DeferredWork) /\ Len(r) = Len(deferQueue) - 1
          /\ \A i \in 1 .. Len(r) : r[i] = deferQueue[i + 1]
      BY <1>0, <2>1, SeqHeadTail
    <2> HIDE DEF r
    <2>3. \A i \in 1 .. Len(r) : i \in Int /\ i + 1 \in 1 .. Len(deferQueue) BY <1>0, <2>2
    <2>4. \A i, j \in 1 .. Len(r) : r[i] = r[j] => i = j BY <2>2, <2>3 DEF OnceEach
    <2>5. OnceEach(r) BY <2>2, <2>4 DEF OnceEach
    <2> QED BY <2>1, <2>5 DEF r
  <1>6. CASE UNCHANGED svcVars \/ IntervalPasses \/ \E s \in Service : start(s) \/ stop(s) \/ fail(s) \/ BackoffPasses(s)
    <2>1. deferQueue' = deferQueue
      BY Zenon, <1>6 DEF svcVars, IntervalPasses, start, stop, fail, BackoffPasses, CommandOnly
    <2> QED BY <1>1, <2>1
  <1> QED BY <1>2, <1>3, <1>4, <1>5, <1>6 DEF SvcNext

\* deferred::enqueue() and drain_budget(): as every kind of work is queued once
\* and the queue has room for all kinds, nothing is ever pushed out of it.
THEOREM WorkIsKept == SvcSpec => DeferredIsKept
  <1>1. SvcInit => OnceEach(deferQueue)
    BY SeqEmpty DEF SvcInit, OnceEach
  <1>2. OnceEach(deferQueue) /\ [SvcNext]_svcVars => OnceEach(deferQueue)'
    BY DeferredStep
  <1>3. OnceEach(deferQueue) /\ OnceEach(deferQueue)' /\ [SvcNext]_svcVars =>
           [\/ BeginsWith(deferQueue', deferQueue)
            \/ deferQueue' = Tail(deferQueue)
            \/ deferQueue' = <<>>]_svcVars
    BY DeferredStep, GrowsIsPrefix DEF OnceEach
  <1> QED BY <1>1, <1>2, <1>3, PTL DEF SvcSpec, DeferredIsKept
-----------------------------------------------------------------------------
\* The window table: handles are given out once.
WinTable ==
    /\ guiWin = [h \in DOMAIN guiWin |-> guiWin[h]]
    /\ \A h \in DOMAIN guiWin : guiWin[h] \in GuiWindow
    /\ guiNext \in Nat \ {0} /\ \A h \in DOMAIN guiWin : h \in Nat /\ h # 0 /\ h < guiNext

TaskTable ==
    guiTasks \in [GuiTask -> [status : {"Ready", "Blocked", "Dead"}, on : Nat, deadline : BOOLEAN]]

\* Where a program is when it is in poll, and who wakes it.
InPoll(t) ==
    LET task == guiTasks[t]
    IN  /\ task.status = "Blocked" => task.on # 0
        /\ task.status # "Dead" /\ task.on # 0 => task.on \in DOMAIN guiWin /\ guiWin[task.on].owner = t
        /\ task.status = "Blocked" /\ ~task.deadline =>
              t \in guiWakes \/ (t \in guiWin[task.on].waiters /\ guiWin[task.on].events = <<>>)

\* The inductive invariant: programs in poll have their window, which only they
\* and the clean-up after their death remove.
GuiInv ==
    /\ WinTable /\ TaskTable
    /\ guiWakes \subseteq GuiTask /\ guiKilled \cup guiCleanup \subseteq GuiTask
    /\ \A t \in GuiTask : InPoll(t)
    /\ \A t \in guiKilled \cup guiCleanup : guiTasks[t].status = "Dead"
    /\ GuiNoOrphans

\* No windows, no waiters.
LEMMA GuiInitInv == GuiInit => GuiInv
  <1> SUFFICES ASSUME GuiInit PROVE GuiInv OBVIOUS
  <1>1. DOMAIN guiWin = {} /\ guiWin = [h \in DOMAIN guiWin |-> guiWin[h]]
    BY SeqEmpty DEF GuiInit
  <1>2. WinTable BY <1>1 DEF GuiInit, WinTable
  <1>3. TaskTable BY DEF GuiInit, TaskTable
  <1>4. \A t \in GuiTask : InPoll(t) BY DEF GuiInit, InPoll
  <1> QED BY <1>1, <1>2, <1>3, <1>4 DEF GuiInit, GuiInv, GuiNoOrphans

\* A program that a step does not concern: its place in the table, its window
\* and what it waits for there stay.
Spared(t) ==
    /\ guiTasks'[t] = guiTasks[t]
    /\ \A h \in DOMAIN guiWin : guiWin[h].owner = t => h \in DOMAIN guiWin' /\ guiWin'[h].owner = t
    /\ \/ t \in guiWakes'
       \/ /\ t \notin guiWakes
          /\ \A h \in DOMAIN guiWin : guiWin[h].owner = t =>
                 guiWin'[h].events = guiWin[h].events /\ guiWin'[h].waiters = guiWin[h].waiters

\* A sleeper whose window and whose own state a step leaves alone is still safe.
LEMMA SparedInPoll ==
    ASSUME NEW t \in GuiTask, InPoll(t), Spared(t)
    PROVE  InPoll(t)'
  BY DEF InPoll, Spared

\* Windows that are neither opened nor given to somebody else.
Windows ==
    /\ WinTable' /\ DOMAIN guiWin' \subseteq DOMAIN guiWin
    /\ \A h \in DOMAIN guiWin' : guiWin'[h].owner = guiWin[h].owner

\* A step that changes one window but not its owner.
LEMMA OneWindow ==
    ASSUME GuiInv, NEW h \in DOMAIN guiWin, NEW w \in GuiWindow, w.owner = guiWin[h].owner,
           guiWin' = [guiWin EXCEPT ![h] = w], guiNext' = guiNext
    PROVE  /\ Windows /\ DOMAIN guiWin' = DOMAIN guiWin /\ guiWin'[h] = w
           /\ \A g \in DOMAIN guiWin : g # h => guiWin'[g] = guiWin[g]
  BY Zenon DEF GuiInv, WinTable, Windows

\* A step that only closes windows.
LEMMA FewerWindows ==
    ASSUME GuiInv, NEW S, guiWin' = Without(S), guiNext' = guiNext
    PROVE  /\ Windows /\ DOMAIN guiWin' = DOMAIN guiWin \ S
           /\ \A g \in DOMAIN guiWin \ S : guiWin'[g] = guiWin[g]
  BY DEF GuiInv, WinTable, Windows, Without, Restrict

\* One task of the table.
LEMMA OneTask ==
    ASSUME GuiInv, NEW t \in GuiTask, NEW r,
           r \in [status : {"Ready", "Blocked", "Dead"}, on : Nat, deadline : BOOLEAN],
           guiTasks' = [guiTasks EXCEPT ![t] = r]
    PROVE  TaskTable' /\ guiTasks'[t] = r /\ \A u \in GuiTask : u # t => guiTasks'[u] = guiTasks[u]
  BY DEF GuiInv, TaskTable

\* A step of program t that leaves everybody else alone.
LEMMA GuiOwnStep ==
    ASSUME GuiInv, NEW t \in GuiTask, Windows, TaskTable',
           UNCHANGED <<guiWakes, guiKilled, guiCleanup>>,
           InPoll(t)', guiTasks[t].status # "Dead", guiTasks'[t].status # "Dead",
           \A u \in GuiTask : u # t => guiTasks'[u] = guiTasks[u],
           \A h \in DOMAIN guiWin : guiWin[h].owner # t => h \in DOMAIN guiWin' /\ guiWin'[h] = guiWin[h]
    PROVE  GuiInv'
  <1>1. \A u \in GuiTask : u # t => Spared(u) BY DEF Spared, GuiInv
  <1>2. \A u \in GuiTask : InPoll(u)' BY <1>1, SparedInPoll DEF GuiInv
  <1>3. \A u \in guiKilled' \cup guiCleanup' : guiTasks'[u].status = "Dead" BY DEF GuiInv
  <1>4. \A h \in DOMAIN guiWin' : guiWin'[h].owner \in GuiTask
    BY DEF Windows, WinTable, GuiWindow
  <1>5. GuiNoOrphans'
    BY <1>4 DEF GuiNoOrphans, GuiInv, Windows
  <1> QED BY <1>2, <1>3, <1>5 DEF GuiInv, Windows

\* The system calls of a program that runs, except its exit.
LEMMA GuiCalls ==
    ASSUME GuiInv, NEW t \in GuiTask, user_gui_open(t) \/ user_gui_poll_event(t) \/ user_gui_close(t)
    PROVE  GuiInv'
  <1>0. guiTasks[t].status = "Ready" /\ guiTasks[t].on = 0
    BY DEF user_gui_open, user_gui_poll_event, user_gui_close, GuiRuns
  <1>1. guiTasks' = guiTasks /\ UNCHANGED <<guiWakes, guiKilled, guiCleanup>>
    BY DEF user_gui_open, user_gui_poll_event, user_gui_close
  <1>2. TaskTable' /\ InPoll(t)' BY <1>0, <1>1 DEF GuiInv, TaskTable, InPoll
  <1>3. CASE user_gui_open(t)
    <2> DEFINE w == [owner |-> t, events |-> <<>>, waiters |-> {}, close |-> "no"]
    <2>1. /\ guiWin' = [h \in DOMAIN guiWin \cup {guiNext} |-> IF h = guiNext THEN w ELSE guiWin[h]]
          /\ guiNext' = guiNext + 1
      BY <1>3 DEF user_gui_open
    <2>2. w \in GuiWindow /\ w.owner = t BY SeqEmpty DEF GuiWindow
    <2> HIDE DEF w
    <2>3. guiNext \notin DOMAIN guiWin /\ guiNext \in Nat \ {0} BY DEF GuiInv, WinTable
    <2>4. /\ DOMAIN guiWin' = DOMAIN guiWin \cup {guiNext} /\ guiWin'[guiNext] = w
          /\ \A h \in DOMAIN guiWin : guiWin'[h] = guiWin[h]
      BY <2>1, <2>3
    <2>5. WinTable'
      <3>1. guiWin' = [h \in DOMAIN guiWin' |-> guiWin'[h]] BY <2>1
      <3>2. \A h \in DOMAIN guiWin' : guiWin'[h] \in GuiWindow BY <2>2, <2>4 DEF GuiInv, WinTable
      <3>3. guiNext' \in Nat \ {0} /\ \A h \in DOMAIN guiWin' : h \in Nat /\ h < guiNext'
        BY <2>1, <2>3, <2>4 DEF GuiInv, WinTable
      <3>4. \A h \in DOMAIN guiWin' : h # 0 BY <2>3, <2>4 DEF GuiInv, WinTable
      <3> QED BY <3>1, <3>2, <3>3, <3>4 DEF WinTable
    <2>6. \A u \in GuiTask : Spared(u) BY <1>1, <2>4 DEF Spared
    <2>7. \A u \in GuiTask : InPoll(u)' BY <2>6, SparedInPoll DEF GuiInv
    <2>8. GuiNoOrphans' BY <1>0, <1>1, <2>2, <2>4 DEF GuiNoOrphans, GuiInv
    <2> QED BY <1>1, <1>2, <2>5, <2>7, <2>8 DEF GuiInv
  <1>4. CASE user_gui_poll_event(t)
    <2>1. PICK h \in OwnedBy(t) : guiWin[h].events # <<>> /\ guiWin' = [guiWin EXCEPT ![h].events = Tail(@)]
      BY Zenon, <1>4 DEF user_gui_poll_event
    <2> DEFINE w == [guiWin[h] EXCEPT !.events = Tail(@)]
    <2>2. h \in DOMAIN guiWin /\ guiWin[h].owner = t /\ guiWin[h] \in GuiWindow
      BY DEF OwnedBy, GuiInv, WinTable
    <2>3. w \in GuiWindow /\ w.owner = guiWin[h].owner
      <3>1. Tail(guiWin[h].events) \in Seq(GuiEvents) BY <2>1, <2>2, SeqHeadTail DEF GuiWindow
      <3> QED BY <2>2, <3>1 DEF GuiWindow
    <2>4. guiWin' = [guiWin EXCEPT ![h] = w] /\ guiNext' = guiNext BY Zenon, <1>4, <2>1 DEF user_gui_poll_event
    <2> HIDE DEF w
    <2>5. /\ Windows /\ DOMAIN guiWin' = DOMAIN guiWin
          /\ \A g \in DOMAIN guiWin : g # h => guiWin'[g] = guiWin[g]
      BY Zenon, <2>2, <2>3, <2>4, OneWindow
    <2> QED BY <1>0, <1>1, <1>2, <2>2, <2>5, GuiOwnStep
  <1>5. CASE user_gui_close(t)
    <2>1. PICK h \in OwnedBy(t) : guiWin' = Without({h}) /\ guiNext' = guiNext
      BY <1>5 DEF user_gui_close
    <2>2. /\ Windows /\ DOMAIN guiWin' = DOMAIN guiWin \ {h}
          /\ \A g \in DOMAIN guiWin \ {h} : guiWin'[g] = guiWin[g]
      BY Zenon, <2>1, FewerWindows
    <2>3. guiWin[h].owner = t BY DEF OwnedBy
    <2> QED BY <1>0, <1>1, <1>2, <2>2, <2>3, GuiOwnStep
  <1> QED BY <1>3, <1>4, <1>5

\* exit_current(): at once, or left to compose().
LEMMA GuiExits ==
    ASSUME GuiInv, NEW t \in GuiTask, GuiExit(t)
    PROVE  GuiInv'
  <1> DEFINE r == [guiTasks[t] EXCEPT !.status = "Dead"]
  <1>0. UNCHANGED <<guiNext, guiWakes, guiKilled>> BY DEF GuiExit
  <1>1. r \in [status : {"Ready", "Blocked", "Dead"}, on : Nat, deadline : BOOLEAN] /\ r.status = "Dead"
    BY DEF GuiInv, TaskTable
  <1>2. guiTasks' = [guiTasks EXCEPT ![t] = r] BY DEF GuiExit
  <1> HIDE DEF r
  <1>3. TaskTable' /\ guiTasks'[t].status = "Dead" /\ \A u \in GuiTask : u # t => guiTasks'[u] = guiTasks[u]
    BY Zenon, <1>1, <1>2, OneTask
  <1>4. InPoll(t)' BY <1>3 DEF InPoll
  <1>5. CASE WmFree
    <2>1. guiWin' = Without(OwnedBy(t)) /\ guiCleanup' = guiCleanup BY <1>5 DEF GuiExit
    <2>2. /\ Windows /\ DOMAIN guiWin' = DOMAIN guiWin \ OwnedBy(t)
          /\ \A g \in DOMAIN guiWin \ OwnedBy(t) : guiWin'[g] = guiWin[g]
      BY Zenon, <1>0, <2>1, FewerWindows
    <2>3. \A h \in DOMAIN guiWin' : guiWin'[h].owner # t /\ guiWin'[h].owner \in GuiTask
      BY <2>2 DEF OwnedBy, Windows, WinTable, GuiWindow
    <2>4. \A u \in GuiTask : u # t => Spared(u)
      BY <1>0, <1>3, <2>2 DEF Spared, OwnedBy, GuiInv
    <2>5. \A u \in GuiTask : InPoll(u)' BY <1>4, <2>4, SparedInPoll DEF GuiInv
    <2>6. GuiNoOrphans' BY <1>0, <1>3, <2>1, <2>2, <2>3 DEF GuiNoOrphans, GuiInv, Windows
    <2>7. \A u \in guiKilled' \cup guiCleanup' : guiTasks'[u].status = "Dead"
      BY <1>0, <1>3, <2>1 DEF GuiInv
    <2> QED BY <1>0, <1>3, <2>1, <2>2, <2>5, <2>6, <2>7 DEF GuiInv, Windows
  <1>6. CASE ~WmFree
    <2>1. guiCleanup' = guiCleanup \cup {t} /\ guiWin' = guiWin BY <1>6 DEF GuiExit
    <2>2. WinTable' BY <1>0, <2>1 DEF GuiInv, WinTable
    <2>3. \A u \in GuiTask : u # t => Spared(u) BY <1>0, <1>3, <2>1 DEF Spared
    <2>4. \A u \in GuiTask : InPoll(u)' BY <1>4, <2>3, SparedInPoll DEF GuiInv
    <2>5. \A h \in DOMAIN guiWin' : guiWin'[h].owner \in GuiTask BY <2>2 DEF WinTable, GuiWindow
    <2>6. GuiNoOrphans' BY <1>0, <1>3, <2>1, <2>5 DEF GuiNoOrphans, GuiInv
    <2>7. \A u \in guiKilled' \cup guiCleanup' : guiTasks'[u].status = "Dead"
      BY <1>0, <1>3, <2>1 DEF GuiInv
    <2> QED BY <1>0, <1>3, <2>1, <2>2, <2>4, <2>6, <2>7 DEF GuiInv
  <1> QED BY <1>5, <1>6

\* A program goes to sleep in poll on its window h.
LEMMA GuiSleeps ==
    ASSUME GuiInv, NEW t \in GuiTask, NEW h \in DOMAIN guiWin, guiWin[h].owner = t,
           guiTasks[t].status # "Dead", ~(WmFree /\ guiWin[h].events # <<>>), SleepInPoll(t, h),
           UNCHANGED <<guiNext, guiWakes, guiKilled, guiCleanup>>
    PROVE  GuiInv'
  <1> DEFINE r == [status |-> "Blocked", on |-> h, deadline |-> PollDeadline]
             w == [guiWin[h] EXCEPT !.waiters = @ \cup {t}]
  <1>1. h \in Nat /\ h # 0 /\ guiWin[h] \in GuiWindow BY DEF GuiInv, WinTable
  <1>2. guiTasks' = [guiTasks EXCEPT ![t] = r] BY DEF SleepInPoll
  <1>3. r \in [status : {"Ready", "Blocked", "Dead"}, on : Nat, deadline : BOOLEAN]
    BY <1>1 DEF PollDeadline
  <1>4. r.status = "Blocked" /\ r.on = h /\ (r.deadline <=> ~WmFree) BY Zenon DEF PollDeadline
  <1> HIDE DEF r
  <1>5. TaskTable' /\ guiTasks'[t] = r /\ \A u \in GuiTask : u # t => guiTasks'[u] = guiTasks[u]
    BY Zenon, <1>2, <1>3, OneTask
  <1>6. CASE WmFree
    <2>1. w \in GuiWindow /\ w.owner = guiWin[h].owner /\ w.events = guiWin[h].events /\ t \in w.waiters
      BY <1>1 DEF GuiWindow
    <2>2. guiWin' = [guiWin EXCEPT ![h] = w] BY <1>6 DEF SleepInPoll
    <2> HIDE DEF w
    <2>3. /\ Windows /\ DOMAIN guiWin' = DOMAIN guiWin /\ guiWin'[h] = w
          /\ \A g \in DOMAIN guiWin : g # h => guiWin'[g] = guiWin[g]
      BY Zenon, <2>1, <2>2, OneWindow
    <2>4. InPoll(t)' BY <1>1, <1>4, <1>5, <1>6, <2>1, <2>3 DEF InPoll
    <2>5. guiTasks'[t].status # "Dead" BY <1>4, <1>5
    <2> QED BY <1>5, <2>3, <2>4, <2>5, GuiOwnStep
  <1>7. CASE ~WmFree
    <2>1. guiWin' = guiWin BY <1>7 DEF SleepInPoll
    <2>2. Windows BY <2>1 DEF Windows, GuiInv, WinTable
    <2>3. InPoll(t)' BY <1>1, <1>4, <1>5, <1>7, <2>1 DEF InPoll
    <2>4. guiTasks'[t].status # "Dead" BY <1>4, <1>5
    <2> QED BY <1>5, <2>1, <2>2, <2>3, <2>4, GuiOwnStep
  <1> QED BY <1>6, <1>7

\* sys_poll() on a window: it sleeps, is woken and looks again.
LEMMA GuiPolls ==
    ASSUME GuiInv, NEW t \in GuiTask, sys_poll_gui(t) \/ PollAgain(t) \/ GuiTick(t)
    PROVE  GuiInv'
  <1>0. UNCHANGED <<guiNext, guiWakes, guiKilled, guiCleanup>> BY DEF sys_poll_gui, PollAgain, GuiTick
  <1>1. CASE sys_poll_gui(t)
    <2>1. PICK h \in OwnedBy(t) : ~(WmFree /\ guiWin[h].events # <<>>) /\ SleepInPoll(t, h)
      BY <1>1 DEF sys_poll_gui
    <2>2. h \in DOMAIN guiWin /\ guiWin[h].owner = t /\ guiTasks[t].status # "Dead"
      BY <1>1 DEF OwnedBy, sys_poll_gui, GuiRuns
    <2> QED BY <1>0, <2>1, <2>2, GuiSleeps
  <1>2. CASE PollAgain(t)
    <2> DEFINE h == guiTasks[t].on
    <2>1. guiTasks[t].status = "Ready" /\ h # 0 BY <1>2 DEF PollAgain
    <2>2. h \in DOMAIN guiWin /\ guiWin[h].owner = t BY <2>1 DEF GuiInv, InPoll
    <2>3. CASE ~(WmFree /\ guiWin[h].events # <<>>)
      <3>1. SleepInPoll(t, h) BY <1>2, <2>3 DEF PollAgain
      <3> QED BY <1>0, <2>1, <2>2, <2>3, <3>1, GuiSleeps
    <2>4. CASE WmFree /\ guiWin[h].events # <<>>
      <3> DEFINE r == [guiTasks[t] EXCEPT !.on = 0, !.deadline = FALSE]
                 w == [guiWin[h] EXCEPT !.waiters = @ \ {t}]
      <3>1. /\ guiTasks' = [guiTasks EXCEPT ![t].on = 0, ![t].deadline = FALSE]
            /\ guiWin' = [guiWin EXCEPT ![h] = w]
        BY <1>2, <2>4 DEF PollAgain
      <3>2. guiTasks' = [guiTasks EXCEPT ![t] = r] BY Zenon, <3>1 DEF GuiInv, TaskTable
      <3>3. /\ r \in [status : {"Ready", "Blocked", "Dead"}, on : Nat, deadline : BOOLEAN]
            /\ r.status = "Ready" /\ r.on = 0
        BY Zenon, <2>1 DEF GuiInv, TaskTable
      <3>4. w \in GuiWindow /\ w.owner = guiWin[h].owner
        <4>1. guiWin[h] \in GuiWindow BY <2>2 DEF GuiInv, WinTable
        <4> HIDE DEF h
        <4> QED BY <4>1 DEF GuiWindow
      <3> HIDE DEF r, w
      <3>5. TaskTable' /\ guiTasks'[t] = r /\ \A u \in GuiTask : u # t => guiTasks'[u] = guiTasks[u]
        BY Zenon, <3>2, <3>3, OneTask
      <3>6. /\ Windows /\ DOMAIN guiWin' = DOMAIN guiWin
            /\ \A g \in DOMAIN guiWin : g # h => guiWin'[g] = guiWin[g]
        BY Zenon, <1>0, <2>2, <3>1, <3>4, OneWindow
      <3>7. InPoll(t)' BY <3>3, <3>5 DEF InPoll
      <3>8. guiTasks'[t].status # "Dead" BY <3>3, <3>5
      <3> QED BY <1>0, <2>1, <2>2, <3>5, <3>6, <3>7, <3>8, GuiOwnStep
    <2> QED BY <2>3, <2>4
  <1>3. CASE GuiTick(t)
    <2> DEFINE r == [guiTasks[t] EXCEPT !.status = "Ready"]
    <2>1. guiTasks' = [guiTasks EXCEPT ![t] = r] /\ guiWin' = guiWin /\ guiTasks[t].status = "Blocked"
      BY <1>3 DEF GuiTick
    <2>2. /\ r \in [status : {"Ready", "Blocked", "Dead"}, on : Nat, deadline : BOOLEAN]
          /\ r.status = "Ready" /\ r.on = guiTasks[t].on
      BY DEF GuiInv, TaskTable
    <2> HIDE DEF r
    <2>3. TaskTable' /\ guiTasks'[t] = r /\ \A u \in GuiTask : u # t => guiTasks'[u] = guiTasks[u]
      BY Zenon, <2>1, <2>2, OneTask
    <2>4. Windows BY <1>0, <2>1 DEF Windows, GuiInv, WinTable
    <2>5. InPoll(t)' BY <2>1, <2>2, <2>3 DEF InPoll, GuiInv
    <2>6. guiTasks[t].status # "Dead" /\ guiTasks'[t].status # "Dead" BY <2>1, <2>2, <2>3
    <2> QED BY <1>0, <2>1, <2>3, <2>4, <2>5, <2>6, GuiOwnStep
  <1> QED BY <1>1, <1>2, <1>3

\* push_event(): a window of the right type, with nobody registered any more.
LEMMA PushEventType ==
    ASSUME GuiInv, NEW h \in DOMAIN guiWin, NEW event \in GuiEvents
    PROVE  PushEvent(h, event) \in GuiWindow /\ PushEvent(h, event).owner = guiWin[h].owner
  <1> DEFINE old == guiWin[h].events
             left == IF Len(old) >= MAX_EVENTS THEN Tail(old) ELSE old
             all == Append(left, event)
  <1>1. guiWin[h] \in GuiWindow BY DEF GuiInv, WinTable
  <1>2. old \in Seq(GuiEvents) /\ Len(old) \in Nat BY <1>1, SeqLength DEF GuiWindow
  <1>3. left \in Seq(GuiEvents)
    <2>1. CASE Len(old) >= MAX_EVENTS
      <3>1. old # <<>> BY <1>2, <2>1, GuiAssumption, SeqEmpty
      <3> QED BY <1>2, <2>1, <3>1, SeqHeadTail
    <2>2. CASE ~(Len(old) >= MAX_EVENTS) BY <1>2, <2>2
    <2> QED BY <2>1, <2>2
  <1> HIDE DEF left
  <1>4. all \in Seq(GuiEvents) BY <1>3, SeqAppend
  <1>5. PushEvent(h, event) = [guiWin[h] EXCEPT !.events = all, !.waiters = {}] BY DEF PushEvent, left
  <1> HIDE DEF all
  <1> QED BY Zenon, <1>1, <1>4, <1>5 DEF GuiWindow

\* handle_key() and the close request: an event for window h, whose waiters
\* task 0 will wake.
LEMMA GuiPush ==
    ASSUME GuiInv, NEW h \in DOMAIN guiWin, NEW w \in GuiWindow, w.owner = guiWin[h].owner,
           guiWin' = [guiWin EXCEPT ![h] = w], guiWakes = {}, guiWakes' = guiWin[h].waiters,
           UNCHANGED <<guiNext, guiTasks, guiKilled, guiCleanup>>
    PROVE  GuiInv'
  <1>1. /\ Windows /\ DOMAIN guiWin' = DOMAIN guiWin /\ guiWin'[h] = w
        /\ \A g \in DOMAIN guiWin : g # h => guiWin'[g] = guiWin[g]
    BY Zenon, OneWindow
  <1>2. guiWakes' \subseteq GuiTask BY DEF GuiInv, WinTable, GuiWindow
  <1>3. ASSUME NEW t \in GuiTask PROVE InPoll(t)'
    <2>1. CASE guiTasks[t].on = h BY <1>1, <2>1 DEF InPoll, GuiInv
    <2>2. CASE guiTasks[t].on # h BY <1>1, <2>2 DEF InPoll, GuiInv
    <2> QED BY <2>1, <2>2
  <1>4. GuiNoOrphans' BY <1>1 DEF GuiNoOrphans, GuiInv
  <1>5. TaskTable' BY DEF GuiInv, TaskTable
  <1> QED BY <1>1, <1>2, <1>3, <1>4, <1>5 DEF GuiInv, Windows

\* Events and close requests of the user.
LEMMA GuiUserActs ==
    ASSUME GuiInv, GuiInput \/ request_close \/ CloseTimesOut
    PROVE  GuiInv'
  <1>1. CASE GuiInput
    <2>1. PICK h \in DOMAIN guiWin : guiWin' = [guiWin EXCEPT ![h] = PushEvent(h, "input")] /\ guiWakes' = guiWin[h].waiters
      BY Zenon, <1>1 DEF GuiInput
    <2>2. PushEvent(h, "input") \in GuiWindow /\ PushEvent(h, "input").owner = guiWin[h].owner
      BY PushEventType DEF GuiEvents
    <2>3. guiWakes = {} /\ UNCHANGED <<guiNext, guiTasks, guiKilled, guiCleanup>>
      BY <1>1 DEF GuiInput, Composing
    <2> QED BY Zenon, <2>1, <2>2, <2>3, GuiPush
  <1>2. CASE request_close
    <2>1. PICK h \in DOMAIN guiWin :
             /\ guiWin' = [guiWin EXCEPT ![h] = [PushEvent(h, "close") EXCEPT !.close = "asked"]]
             /\ guiWakes' = guiWin[h].waiters
      BY Zenon, <1>2 DEF request_close
    <2> DEFINE w == [PushEvent(h, "close") EXCEPT !.close = "asked"]
    <2>2. PushEvent(h, "close") \in GuiWindow /\ PushEvent(h, "close").owner = guiWin[h].owner
      BY PushEventType DEF GuiEvents
    <2>3. w \in GuiWindow /\ w.owner = guiWin[h].owner BY <2>2 DEF GuiWindow
    <2>4. guiWakes = {} /\ UNCHANGED <<guiNext, guiTasks, guiKilled, guiCleanup>>
      BY <1>2 DEF request_close, Composing
    <2>5. guiWin' = [guiWin EXCEPT ![h] = w] BY <2>1
    <2> HIDE DEF w
    <2> QED BY Zenon, <2>1, <2>3, <2>4, <2>5, GuiPush
  <1>3. CASE CloseTimesOut
    <2>1. PICK h \in DOMAIN guiWin : guiWin' = [guiWin EXCEPT ![h].close = "late"]
      BY Zenon, <1>3 DEF CloseTimesOut
    <2> DEFINE w == [guiWin[h] EXCEPT !.close = "late"]
    <2>2. guiWin[h] \in GuiWindow BY DEF GuiInv, WinTable
    <2>3. /\ w \in GuiWindow /\ w.owner = guiWin[h].owner
          /\ w.events = guiWin[h].events /\ w.waiters = guiWin[h].waiters
      BY <2>2 DEF GuiWindow
    <2>4. guiWin' = [guiWin EXCEPT ![h] = w] /\ UNCHANGED <<guiNext, guiTasks, guiWakes, guiKilled, guiCleanup>>
      BY Zenon, <1>3, <2>1 DEF CloseTimesOut
    <2> HIDE DEF w
    <2>5. /\ Windows /\ DOMAIN guiWin' = DOMAIN guiWin /\ guiWin'[h] = w
          /\ \A g \in DOMAIN guiWin : g # h => guiWin'[g] = guiWin[g]
      BY Zenon, <2>3, <2>4, OneWindow
    <2>6. \A t \in GuiTask : InPoll(t)' BY <2>3, <2>4, <2>5 DEF InPoll, GuiInv
    <2>7. GuiNoOrphans' BY <2>4, <2>5 DEF GuiNoOrphans, GuiInv, Windows
    <2>8. TaskTable' BY <2>4 DEF GuiInv, TaskTable
    <2> QED BY <2>4, <2>5, <2>6, <2>7, <2>8 DEF GuiInv, Windows
  <1> QED BY <1>1, <1>2, <1>3

\* The steps of compose().
LEMMA GuiFrames ==
    ASSUME GuiInv, GuiFrameStep
    PROVE  GuiInv'
  <1>1. CASE ComposeBegins
    <2> DEFINE S == UNION {OwnedBy(t) : t \in guiCleanup}
    <2>1. /\ guiWin' = Without(S) /\ guiCleanup' = {}
          /\ UNCHANGED <<guiNext, guiTasks, guiWakes, guiKilled>>
      BY <1>1 DEF ComposeBegins
    <2>2. \A h \in DOMAIN guiWin : h \in S <=> guiWin[h].owner \in guiCleanup BY DEF OwnedBy
    <2> HIDE DEF S
    <2>3. /\ Windows /\ DOMAIN guiWin' = DOMAIN guiWin \ S
          /\ \A g \in DOMAIN guiWin \ S : guiWin'[g] = guiWin[g]
      BY Zenon, <2>1, FewerWindows
    <2>4. ASSUME NEW t \in GuiTask PROVE InPoll(t)'
      <3>1. CASE t \in guiCleanup BY <2>1, <3>1 DEF InPoll, GuiInv
      <3>2. CASE t \notin guiCleanup
        <4>1. InPoll(t) BY DEF GuiInv
        <4> QED BY <2>1, <2>2, <2>3, <3>2, <4>1 DEF InPoll
      <3> QED BY <3>1, <3>2
    <2>5. GuiNoOrphans' BY <2>1, <2>2, <2>3 DEF GuiNoOrphans, GuiInv
    <2>6. TaskTable' BY <2>1 DEF GuiInv, TaskTable
    <2> QED BY <2>1, <2>3, <2>4, <2>5, <2>6 DEF GuiInv, Windows
  <1>2. CASE GuiWake
    <2>1. PICK t \in guiWakes :
             /\ guiWakes' = guiWakes \ {t}
             /\ guiTasks' = IF guiTasks[t].status = "Blocked" THEN [guiTasks EXCEPT ![t].status = "Ready"] ELSE guiTasks
             /\ UNCHANGED <<guiWin, guiNext, guiKilled, guiCleanup>>
      BY Zenon, <1>2 DEF GuiWake
    <2>2. t \in GuiTask BY DEF GuiInv
    <2>3. WinTable' BY <2>1 DEF GuiInv, WinTable
    <2>4. /\ TaskTable' /\ \A u \in GuiTask : u # t => guiTasks'[u] = guiTasks[u]
          /\ guiTasks'[t].status # "Blocked" /\ guiTasks'[t].on = guiTasks[t].on
          /\ (guiTasks'[t].status = "Dead" <=> guiTasks[t].status = "Dead")
      <3>1. CASE guiTasks[t].status = "Blocked"
        <4> DEFINE r == [guiTasks[t] EXCEPT !.status = "Ready"]
        <4>1. /\ r \in [status : {"Ready", "Blocked", "Dead"}, on : Nat, deadline : BOOLEAN]
              /\ r.status = "Ready" /\ r.on = guiTasks[t].on
          BY <2>2 DEF GuiInv, TaskTable
        <4>2. guiTasks' = [guiTasks EXCEPT ![t] = r] BY <2>1, <3>1
        <4> HIDE DEF r
        <4> QED BY Zenon, <2>2, <3>1, <4>1, <4>2, OneTask
      <3>2. CASE guiTasks[t].status # "Blocked" BY <2>1, <3>2 DEF GuiInv, TaskTable
      <3> QED BY <3>1, <3>2
    <2>5. ASSUME NEW u \in GuiTask PROVE InPoll(u)'
      <3>1. CASE u = t BY <2>1, <2>4, <3>1 DEF InPoll, GuiInv
      <3>2. CASE u # t BY <2>1, <2>4, <3>2 DEF InPoll, GuiInv
      <3> QED BY <3>1, <3>2
    <2>6. \A u \in GuiTask : guiTasks'[u].status = "Dead" <=> guiTasks[u].status = "Dead" BY <2>4
    <2>7. \A h \in DOMAIN guiWin : guiWin[h].owner \in GuiTask BY DEF GuiInv, WinTable, GuiWindow
    <2>8. GuiNoOrphans' BY <2>1, <2>6, <2>7 DEF GuiNoOrphans, GuiInv
    <2>9. \A u \in guiKilled' \cup guiCleanup' : guiTasks'[u].status = "Dead" BY <2>1, <2>6 DEF GuiInv
    <2> QED BY <2>1, <2>3, <2>4, <2>5, <2>8, <2>9 DEF GuiInv
  <1>3. CASE reap_unresponsive_user_gui_closes
    <2>1. PICK h \in DOMAIN guiWin :
             /\ guiTasks' = [guiTasks EXCEPT ![guiWin[h].owner].status = "Dead"]
             /\ guiKilled' = {guiWin[h].owner}
      BY Zenon, <1>3 DEF reap_unresponsive_user_gui_closes
    <2> DEFINE t == guiWin[h].owner
               r == [guiTasks[t] EXCEPT !.status = "Dead"]
    <2>2. guiKilled = {} /\ UNCHANGED <<guiWin, guiNext, guiWakes, guiCleanup>>
      BY <1>3 DEF reap_unresponsive_user_gui_closes, Composing
    <2>3. t \in GuiTask /\ \A g \in DOMAIN guiWin : guiWin[g].owner \in GuiTask
      BY DEF GuiInv, WinTable, GuiWindow
    <2>4. guiTasks' = [guiTasks EXCEPT ![t] = r] /\ guiKilled' = {t} BY <2>1
    <2> HIDE DEF t
    <2>5. r \in [status : {"Ready", "Blocked", "Dead"}, on : Nat, deadline : BOOLEAN] /\ r.status = "Dead"
      BY <2>3 DEF GuiInv, TaskTable
    <2> HIDE DEF r
    <2>6. TaskTable' /\ guiTasks'[t].status = "Dead" /\ \A u \in GuiTask : u # t => guiTasks'[u] = guiTasks[u]
      BY Zenon, <2>3, <2>4, <2>5, OneTask
    <2>7. WinTable' BY <2>2 DEF GuiInv, WinTable
    <2>8. ASSUME NEW u \in GuiTask PROVE InPoll(u)'
      <3>1. CASE u = t BY <2>6, <3>1 DEF InPoll
      <3>2. CASE u # t BY <2>2, <2>6, <3>2 DEF InPoll, GuiInv
      <3> QED BY <3>1, <3>2
    <2>9. GuiNoOrphans' BY <2>2, <2>3, <2>4, <2>6 DEF GuiNoOrphans, GuiInv
    <2>10. \A u \in guiKilled' \cup guiCleanup' : guiTasks'[u].status = "Dead"
      BY <2>2, <2>4, <2>6 DEF GuiInv
    <2> QED BY <2>2, <2>3, <2>4, <2>6, <2>7, <2>8, <2>9, <2>10 DEF GuiInv
  <1>4. CASE KillCleansUp \/ ComposeEnds
    <2>1. guiKilled' \cup guiCleanup' = guiKilled \cup guiCleanup /\ UNCHANGED <<guiWin, guiNext, guiTasks, guiWakes>>
      BY <1>4 DEF KillCleansUp, ComposeEnds
    <2>2. WinTable' /\ TaskTable' BY <2>1 DEF GuiInv, WinTable, TaskTable
    <2>3. \A u \in GuiTask : InPoll(u)' BY <2>1 DEF InPoll, GuiInv
    <2> QED BY <2>1, <2>2, <2>3 DEF GuiInv, GuiNoOrphans
  <1> QED BY <1>1, <1>2, <1>3, <1>4 DEF GuiFrameStep

\* Every step of programs, user and compositor.
LEMMA GuiNextInv == GuiInv /\ [GuiNextStep]_guiVars => GuiInv'
  <1> SUFFICES ASSUME GuiInv, [GuiNextStep]_guiVars PROVE GuiInv' OBVIOUS
  <1>1. CASE UNCHANGED guiVars
    BY <1>1 DEF guiVars, GuiInv, WinTable, TaskTable, InPoll, GuiNoOrphans
  <1> QED BY <1>1, GuiCalls, GuiExits, GuiPolls, GuiUserActs, GuiFrames DEF GuiNextStep

\* sys_poll() on a window, push_event() and compose(): a program that sleeps
\* without a deadline is registered with its window and nothing has come for
\* it, or task 0 is about to wake it, for any number of programs and windows.
THEOREM GuiPollersAreWoken == GuiSpec => []GuiPollerIsWoken
  <1>1. GuiInv => GuiPollerIsWoken BY DEF GuiInv, InPoll, GuiPollerIsWoken
  <1> QED BY GuiInitInv, GuiNextInv, <1>1, PTL DEF GuiSpec

\* exit_current(), kill_task() and drain_user_gui_owner_cleanup(): no window of
\* a dead program is forgotten, whoever holds the WM mutex when it dies.
THEOREM DeadWindowsGo == GuiSpec => []GuiNoOrphans
  <1>1. GuiInv => GuiNoOrphans BY DEF GuiInv
  <1> QED BY GuiInitInv, GuiNextInv, <1>1, PTL DEF GuiSpec
=============================================================================
