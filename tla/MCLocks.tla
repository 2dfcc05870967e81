------------------------------- MODULE MCLocks -------------------------------
(***************************************************************************)
(* The three locks of libcool on one instance of the futex calls: a        *)
(* behaviour uses a mutex, a condition variable or a once, as part says.   *)
(***************************************************************************)
EXTENDS PThreadMutex, PThreadCondvar, PThreadOnce

CONSTANT Contender  \* the threads that use the mutex

VARIABLE part  \* what this behaviour is about

locksVars == <<mem, kernel, pc, part, cvLocal, onceLocal>>

LocksInit == part \in {"mutex", "condvar", "once"} /\ Init /\ CvInit /\ OnceInit

LocksStep(t) ==
    /\ UNCHANGED part
    /\ \/ part = "mutex" /\ t \in Contender /\ Step(t) /\ UNCHANGED <<cvLocal, onceLocal>>
       \/ part = "condvar" /\ CvStep(t) /\ UNCHANGED <<pc, onceLocal>>
       \/ part = "once" /\ OnceStep(t) /\ UNCHANGED <<pc, cvLocal>>

LocksNext ==
    \E t \in Thread :
        \/ LocksStep(t)
        \/ part = "mutex" /\ t \in Contender /\ Begin(t) /\ UNCHANGED <<part, cvLocal, onceLocal>>
        \/ OtherWake(t) /\ UNCHANGED <<pc, part, cvLocal, onceLocal>>

\* The scheduler is round robin: a thread that can run does.  Nobody has to
\* ask for the mutex.
LocksSpec == LocksInit /\ [][LocksNext]_locksVars /\ \A t \in Thread : WF_locksVars(LocksStep(t))

\* unlock() and futex_wait() lose no wake-up: see NoLostWake of PThreadMutex.
\* call_once() initialises once and before anybody returns: see PThreadOnce.
LocksSafe == (part = "mutex" => NoLostWake) /\ OnceAndBefore

\* Nobody waits for ever: threads that want the mutex get it again and again
\* (SomebodyEnters of PThreadMutex), a notification of PThreadCondvar is not
\* lost (Drained), and every caller of call_once() returns (EverybodyReturns).
NobodyWaitsForever ==
    /\ SomebodyEnters
    /\ Drained
    /\ part = "once" => EverybodyReturns
=============================================================================
