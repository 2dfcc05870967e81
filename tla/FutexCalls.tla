----------------------------- MODULE FutexCalls -----------------------------
(***************************************************************************)
(* Threads that use the futex calls in any order, with and without a       *)
(* timeout, on any word of their address space, exit, and are killed by    *)
(* task 0, which is preempted between the mark and the clean-up.           *)
(***************************************************************************)
EXTENDS Futex

CONSTANTS
    Count,    \* bound: how many waiters one futex_wake() asks for
    FcStored  \* bound: the words that the threads change

VARIABLES
    fcAt,  \* where a thread is: "user" or "wait"
    fcRet, \* what futex_wait() returned, if the last step was its return
    fcDying \* task 0: threads that are marked and not yet cleaned up

fcVars == <<mem, kernel, fcAt, fcRet, fcDying>>

FcTypeOK ==
    /\ FutexTypeOK
    /\ fcAt \in [Thread -> {"user", "wait"}]
    /\ fcRet \in {"none", "woken", "mismatch", "timeout", "error"}
    /\ fcDying \in SUBSET Thread

FcInit ==
    /\ FutexInit
    /\ fcAt = [t \in Thread |-> "user"]
    /\ fcRet = "none"
    /\ fcDying = {}

InUserMode(t) == fcAt[t] = "user" /\ status[t] # "Dead"

Store(t, a, v) ==
    /\ InUserMode(t)
    /\ SetWord(t, a, v)
    /\ fcRet' = "none" /\ UNCHANGED <<kernel, fcAt, fcDying>>

\* timeout: "zero", "armed" or "none" for TIMEOUT_FOREVER.
sys_futex_wait(t, a, expected, timeout) ==
    /\ InUserMode(t)
    /\ \/ /\ Mismatch(t, a, expected)
          /\ fcRet' = "mismatch"
          /\ UNCHANGED <<kernel, fcAt>>
       \/ /\ ~Mismatch(t, a, expected) /\ timeout = "zero"
          /\ fcRet' = "timeout"
          /\ UNCHANGED <<kernel, fcAt>>
       \/ /\ ~Mismatch(t, a, expected) /\ timeout # "zero" /\ MayFail
          /\ fcRet' = "error"
          /\ UNCHANGED <<kernel, fcAt>>
       \/ /\ ~Mismatch(t, a, expected) /\ timeout # "zero"
          /\ Sleep(t, a, timeout)
          /\ fcAt' = [fcAt EXCEPT ![t] = "wait"] /\ fcRet' = "none"
    /\ UNCHANGED <<mem, fcDying>>

WaitReturns(t) ==
    /\ fcAt[t] = "wait" /\ Leave(t)
    /\ fcRet' = WaitResult(t)
    /\ fcAt' = [fcAt EXCEPT ![t] = "user"]
    /\ UNCHANGED <<mem, fcDying>>

sys_futex_wake(t, a, count) ==
    /\ InUserMode(t) /\ FutexWake(a, count)
    /\ fcRet' = "none" /\ UNCHANGED <<mem, fcAt, fcDying>>

drop_task_waiters(t) == waiters' = Unregistered(t)

\* exit_current(), and kill_task() inside another thread's call.
Exit(t) ==
    /\ "exit" \in Wakes /\ status[t] # "Dead"
    /\ status' = [status EXCEPT ![t] = "Dead"]
    /\ drop_task_waiters(t)
    /\ fcRet' = "none" /\ UNCHANGED <<mem, deadline, chosen, fcAt, fcDying>>

\* kill_task() in the main loop.
IKill(t) ==
    /\ "exit" \in Wakes /\ status[t] # "Dead" /\ fcDying = {}
    /\ status' = [status EXCEPT ![t] = "Dead"] /\ fcDying' = {t}
    /\ fcRet' = "none" /\ UNCHANGED <<mem, waiters, deadline, chosen, fcAt>>

IDrop(t) ==
    /\ t \in fcDying /\ fcDying' = {}
    /\ drop_task_waiters(t)
    /\ fcRet' = "none" /\ UNCHANGED <<mem, status, deadline, chosen, fcAt>>

FcNext ==
    \E t \in Thread :
        \/ \E a \in FcStored, v \in Value : Store(t, a, v)
        \/ \E a \in Addr, v \in Value, w \in {"zero", "armed", "none"} : sys_futex_wait(t, a, v, w)
        \/ WaitReturns(t)
        \/ \E a \in Addr, n \in 0 .. Count : sys_futex_wake(t, a, n)
        \/ (Deadline(t) \/ OtherWake(t)) /\ fcRet' = "none" /\ UNCHANGED <<fcAt, fcDying>>
        \/ Exit(t) \/ IKill(t) \/ IDrop(t)

FcSpec == FcInit /\ [][FcNext]_fcVars
-----------------------------------------------------------------------------
\* A thread that is asleep in sys_futex_wait() is in the queue, once and for
\* the right word (register_waiter, unregister_waiter, wake): a futex_wake()
\* can find it, whatever deadlines and other wake-ups came in between.  A dead
\* thread, which would swallow a wake-up, is in it only until task 0 has
\* finished its clean-up.
SleeperIsQueued ==
    \A t \in Thread :
        /\ status[t] = "Blocked" => Queued(t)
        /\ Queued(t) => fcAt[t] = "wait" /\ (status[t] = "Dead" => t \in fcDying)
        /\ Cardinality({i \in 1 .. Len(waiters) : waiters[i][2] = t}) <= 1

\* futex_wake() counts a waiter as woken only if that waiter reports the
\* wake-up: a deadline that passes between the two does not turn it into a
\* timeout, so that a wake-up handed to one waiter is not lost.
WakeIsReported ==
    [][\A t \in Thread : fcAt[t] = "wait" /\ fcAt'[t] = "user" /\ t \in chosen => fcRet' = "woken"]_fcVars
=============================================================================
