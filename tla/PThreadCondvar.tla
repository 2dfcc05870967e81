--------------------------- MODULE PThreadCondvar ---------------------------
(***************************************************************************)
(* PThreadCondvar of libcool over the futex calls.  The environment uses   *)
(* it the way it is meant to be used: consumers wait for items under a     *)
(* mutex, producers put items under the mutex and notify before or after   *)
(* they give it back (/bin/tlsdemo is the case of one consumer).  The      *)
(* mutex is the lock that PThreadMutex implements.                         *)
(***************************************************************************)
EXTENDS Futex

CONSTANTS
    Consumer,  \* threads that wait for items
    Producer,  \* threads that put items
    MaxPuts    \* bound: items that are put

VARIABLES
    cvPc,      \* the next instruction of a thread
    cvHolder,  \* the thread that holds the mutex
    observed,  \* local variable observed of wait()
    items,     \* what the mutex protects
    puts       \* bound: how many items were put

cvLocal == <<cvPc, cvHolder, observed, items, puts>>
cvVars == <<mem, kernel, cvLocal>>

Nobody == "nobody"
Seq0 == CHOOSE a \in Addr : TRUE

CvTypeOK ==
    /\ FutexTypeOK
    /\ cvPc \in [Thread -> {"lock", "check", "load", "release", "wait", "asleep", "relock",
                          "unlock", "put", "bump", "notify", "leave"}]
    /\ cvHolder \in Thread \cup {Nobody}
    /\ observed \in [Thread -> Value]
    /\ items \in 0 .. MaxPuts /\ puts \in 0 .. MaxPuts

CvInit ==
    /\ FutexInit
    /\ cvPc = [t \in Thread |-> "lock"] /\ cvHolder = Nobody
    /\ observed = [t \in Thread |-> 0] /\ items = 0 /\ puts = 0

CvAt(t, from, to) == cvPc[t] = from /\ cvPc' = [cvPc EXCEPT ![t] = to]

\* The mutex: lock() ends when it is free.
TakeMutex(t) == cvHolder = Nobody /\ cvHolder' = t
GiveMutex(t) == cvHolder = t /\ cvHolder' = Nobody

ConsumerLock(t) ==
    /\ t \in Consumer /\ CvAt(t, "lock", "check") /\ TakeMutex(t)
    /\ UNCHANGED <<mem, kernel, observed, items, puts>>

\* while items == 0 { cond.wait(&mutex) }; items -= 1
CvCheck(t) ==
    /\ \/ items = 0 /\ CvAt(t, "check", "load") /\ UNCHANGED items
       \/ items > 0 /\ CvAt(t, "check", "unlock") /\ items' = items - 1
    /\ UNCHANGED <<mem, kernel, cvHolder, observed, puts>>

CvUnlock(t) ==
    /\ \/ CvAt(t, "unlock", IF t \in Consumer THEN "lock" ELSE "bump")
       \/ CvAt(t, "leave", "lock")
    /\ GiveMutex(t)
    /\ UNCHANGED <<mem, kernel, observed, items, puts>>

\* wait(): the load, the unlock, futex_wait() and the lock.
CvLoad(t) ==
    /\ CvAt(t, "load", "release")
    /\ observed' = [observed EXCEPT ![t] = Word(t, Seq0)]
    /\ UNCHANGED <<mem, kernel, cvHolder, items, puts>>

CvRelease(t) ==
    /\ CvAt(t, "release", "wait") /\ GiveMutex(t)
    /\ UNCHANGED <<mem, kernel, observed, items, puts>>

CvWait(t) ==
    /\ UNCHANGED <<mem, cvHolder, observed, items, puts>>
    /\ \/ /\ Mismatch(t, Seq0, observed[t]) \/ MayFail
          /\ CvAt(t, "wait", "relock") /\ UNCHANGED kernel
       \/ /\ ~Mismatch(t, Seq0, observed[t]) /\ Sleep(t, Seq0, "none")
          /\ CvAt(t, "wait", "asleep")

CvAwake(t) ==
    /\ Leave(t) /\ CvAt(t, "asleep", "relock")
    /\ UNCHANGED <<mem, cvHolder, observed, items, puts>>

CvRelock(t) ==
    /\ CvAt(t, "relock", "check") /\ TakeMutex(t)
    /\ UNCHANGED <<mem, kernel, observed, items, puts>>

ProducerLock(t) ==
    /\ t \in Producer /\ puts < MaxPuts /\ CvAt(t, "lock", "put") /\ TakeMutex(t)
    /\ puts' = puts + 1
    /\ UNCHANGED <<mem, kernel, observed, items>>

CvPut(t) ==
    /\ CvAt(t, "put", "unlock") \/ CvAt(t, "put", "bump")
    /\ items' = items + 1
    /\ UNCHANGED <<mem, kernel, cvHolder, observed, puts>>

\* notify_one() and notify_all(): fetch_add(1), then futex_wake().
CvBump(t) ==
    /\ CvAt(t, "bump", "notify") /\ SetWord(t, Seq0, Word(t, Seq0) + 1)
    /\ UNCHANGED <<kernel, cvHolder, observed, items, puts>>

CvNotify(t, count) ==
    /\ CvAt(t, "notify", IF cvHolder = t THEN "leave" ELSE "lock") /\ FutexWake(Seq0, count)
    /\ UNCHANGED <<mem, cvHolder, observed, items, puts>>

CvStep(t) ==
    \/ ConsumerLock(t) \/ CvCheck(t) \/ CvUnlock(t) \/ CvLoad(t) \/ CvRelease(t) \/ CvWait(t)
    \/ CvAwake(t) \/ CvRelock(t) \/ ProducerLock(t) \/ CvPut(t) \/ CvBump(t)
    \/ CvNotify(t, 1) \/ CvNotify(t, 64)

CvNext == \E t \in Thread : CvStep(t) \/ (OtherWake(t) /\ UNCHANGED cvLocal)

CvSpec == CvInit /\ [][CvNext]_cvVars

\* The scheduler is round robin: a thread that can run does.
CvFairSpec == CvSpec /\ \A t \in Thread : WF_cvVars(CvStep(t))
-----------------------------------------------------------------------------
\* PThreadCondvar loses no notification: once the producers have put their last
\* item and notified, the consumers, however they raced into wait(), empty the
\* store.
Drained == <>[](items = 0)
=============================================================================
