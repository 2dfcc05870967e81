---------------------------- MODULE PThreadMutex ----------------------------
(***************************************************************************)
(* PThreadMutex of libcool (src/userspace/libcool/src/thread.rs) over the  *)
(* futex calls.  Every atomic instruction of a thread is a step: a timer   *)
(* interrupt may come between any two.  The word is 0 when the mutex is    *)
(* free, 1 when it is locked, 2 when it is locked and somebody may wait.   *)
(* The mutex is at the same virtual address in every address space: the    *)
(* copies of a program have theirs at the same place.                      *)
(***************************************************************************)
EXTENDS Futex

ASSUME MutexAssumption == Addr # {} /\ {0, 1, 2} \subseteq Value /\ Zero = 0

VARIABLE pc  \* the next instruction of a thread

vars == <<mem, kernel, pc>>

Here == CHOOSE a \in Addr : TRUE

At(t, from, to) == pc[t] = from /\ pc' = [pc EXCEPT ![t] = to]

TypeOK ==
    /\ FutexTypeOK
    /\ pc \in [Thread -> {"out", "lock", "swap", "wait", "asleep", "in", "unlock", "wake"}]

Init == FutexInit /\ pc = [t \in Thread |-> "out"]

Begin(t) == At(t, "out", "lock") /\ UNCHANGED <<mem, kernel>>

\* Mutant: the load and the store of lock() are not one instruction.
LockTorn(t) ==
    /\ pc[t] = "lock"
    /\ \/ At(t, "lock", "swap") /\ UNCHANGED <<mem, kernel>>
       \/ /\ Word(t, Here) \in {0, 1} /\ SetWord(t, Here, 1)
          /\ At(t, "lock", "in") /\ UNCHANGED kernel

\* lock(): the fast path.
CompareExchange(t) ==
    \/ /\ Word(t, Here) = 0 /\ SetWord(t, Here, 1)
       /\ At(t, "lock", "in") /\ UNCHANGED kernel
    \/ /\ Word(t, Here) # 0
       /\ At(t, "lock", "swap") /\ UNCHANGED <<mem, kernel>>

\* Mutant: the slow path takes a free mutex as the fast path does and forgets
\* that others may wait.
SwapOne(t) ==
    /\ SetWord(t, Here, IF Word(t, Here) = 0 THEN 1 ELSE 2) /\ UNCHANGED kernel
    /\ \/ Word(t, Here) = 0 /\ At(t, "swap", "in")
       \/ Word(t, Here) # 0 /\ At(t, "swap", "wait")

\* Mutant: what the swap returns is ignored.
SwapIgnored(t) == SetWord(t, Here, 2) /\ At(t, "swap", "wait") /\ UNCHANGED kernel

Swap(t) ==
    /\ SetWord(t, Here, 2) /\ UNCHANGED kernel
    /\ \/ Word(t, Here) = 0 /\ At(t, "swap", "in")
       \/ Word(t, Here) # 0 /\ At(t, "swap", "wait")

\* futex_wait(addr, 2, TIMEOUT_FOREVER); the result is ignored.
Wait(t) ==
    /\ UNCHANGED mem
    /\ \/ /\ Mismatch(t, Here, 2) \/ MayFail
          /\ At(t, "wait", "swap") /\ UNCHANGED kernel
       \/ /\ ~Mismatch(t, Here, 2) /\ Sleep(t, Here, "none")
          /\ At(t, "wait", "asleep")

Awake(t) == Leave(t) /\ At(t, "asleep", "swap") /\ UNCHANGED mem

Finish(t) == At(t, "in", "unlock") /\ UNCHANGED <<mem, kernel>>

\* unlock(): the swap, then futex_wake(addr, 1) if somebody may wait.
Unlock(t) ==
    /\ SetWord(t, Here, 0) /\ UNCHANGED kernel
    /\ \/ Word(t, Here) = 2 /\ At(t, "unlock", "wake")
       \/ Word(t, Here) # 2 /\ At(t, "unlock", "out")

WakeOne(t) == At(t, "wake", "out") /\ FutexWake(Here, 1) /\ UNCHANGED mem

Step(t) ==
    \/ CompareExchange(t) \/ Swap(t) \/ Wait(t) \/ Awake(t)
    \/ Finish(t) \/ Unlock(t) \/ WakeOne(t)

Next == \E t \in Thread : Begin(t) \/ Step(t) \/ (OtherWake(t) /\ UNCHANGED pc)

Spec == Init /\ [][Next]_vars

\* The scheduler is round robin: a thread that can run does.  Nobody has to
\* ask for the mutex.
FairSpec == Spec /\ \A t \in Thread : WF_vars(Step(t))
-----------------------------------------------------------------------------
Holds(t) == pc[t] \in {"in", "unlock"}

\* PThreadMutex::lock(): two threads of a process never hold the mutex at the
\* same time.
MutualExclusion ==
    \A t, u \in Thread : t # u /\ SpaceOf[t] = SpaceOf[u] => ~(Holds(t) /\ Holds(u))

\* unlock() and futex_wait() (lost wake-up): a thread sleeps only while the
\* word says that somebody may wait, or while another thread of its process is
\* about to wake somebody or to try the mutex itself.
NoLostWake ==
    \A t \in Thread : status[t] = "Blocked" =>
        \/ Word(t, Here) = 2
        \/ \E u \in Thread : /\ SpaceOf[u] = SpaceOf[t]
                             /\ pc[u] \in {"wake", "swap"} \/ (pc[u] = "asleep" /\ status[u] = "Ready")

\* As long as threads want the mutex somebody gets it, again and again: the
\* mutex cannot be left free with everybody asleep.
SomebodyEnters ==
    \A s \in Space :
        []<>(\E t \in Thread : SpaceOf[t] = s /\ pc[t] \in {"lock", "swap", "wait", "asleep"})
            => []<>(\E t \in Thread : SpaceOf[t] = s /\ Holds(t))

Lock == INSTANCE AbstractLock
            WITH holder <- [s \in Space |-> {t \in Thread : SpaceOf[t] = s /\ Holds(t)}]

\* The mutex implements a lock per process: it passes from nobody to one
\* thread and back.
ImplementsLock == Lock!Spec
=============================================================================
