----------------------------- MODULE PThreadOnce -----------------------------
(***************************************************************************)
(* PThreadOnce of libcool over the futex calls.  The word is 0 before, 1   *)
(* during and 2 after the initialisation.                                  *)
(***************************************************************************)
EXTENDS Futex

VARIABLES
    oncePc, \* the next instruction of a thread in call_once_with()
    inits   \* history: how many threads have started the initialisation

onceLocal == <<oncePc, inits>>
onceVars == <<mem, kernel, onceLocal>>

OnceHere == CHOOSE a \in Addr : TRUE

OnceAt(t, from, to) == oncePc[t] = from /\ oncePc' = [oncePc EXCEPT ![t] = to]

OnceTypeOK ==
    /\ FutexTypeOK
    /\ oncePc \in [Thread -> {"load", "cas", "init", "store", "wake", "wait", "asleep", "ok", "error"}]
    /\ inits \in Nat

OnceInit == FutexInit /\ oncePc = [t \in Thread |-> "load"] /\ inits = 0

OnceLoad(t) ==
    /\ \/ Word(t, OnceHere) = 2 /\ OnceAt(t, "load", "ok")
       \/ Word(t, OnceHere) = 0 /\ OnceAt(t, "load", "cas")
       \/ Word(t, OnceHere) = 1 /\ OnceAt(t, "load", "wait")
    /\ UNCHANGED <<mem, kernel, inits>>

OnceCompareExchange(t) ==
    /\ \/ Word(t, OnceHere) = 0 /\ SetWord(t, OnceHere, 1) /\ OnceAt(t, "cas", "init")
       \/ Word(t, OnceHere) # 0 /\ OnceAt(t, "cas", "load") /\ UNCHANGED mem
    /\ UNCHANGED <<kernel, inits>>

OnceRunInit(t) ==
    /\ OnceAt(t, "init", "store") /\ inits' = inits + 1
    /\ UNCHANGED <<mem, kernel>>

OnceStoreDone(t) ==
    /\ SetWord(t, OnceHere, 2) /\ OnceAt(t, "store", "wake")
    /\ UNCHANGED <<kernel, inits>>

OnceWakeAll(t) ==
    /\ FutexWake(OnceHere, 64) /\ OnceAt(t, "wake", "ok")
    /\ UNCHANGED <<mem, inits>>

\* futex_wait(addr, 1, TIMEOUT_FOREVER)?: a failed call is an error.
OnceWait(t) ==
    /\ \/ Mismatch(t, OnceHere, 1) /\ OnceAt(t, "wait", "load") /\ UNCHANGED kernel
       \/ ~Mismatch(t, OnceHere, 1) /\ MayFail /\ OnceAt(t, "wait", "error") /\ UNCHANGED kernel
       \/ ~Mismatch(t, OnceHere, 1) /\ Sleep(t, OnceHere, "none") /\ OnceAt(t, "wait", "asleep")
    /\ UNCHANGED <<mem, inits>>

OnceAwake(t) == Leave(t) /\ OnceAt(t, "asleep", "load") /\ UNCHANGED <<mem, inits>>

OnceStep(t) ==
    \/ OnceLoad(t) \/ OnceCompareExchange(t) \/ OnceRunInit(t) \/ OnceStoreDone(t)
    \/ OnceWakeAll(t) \/ OnceWait(t) \/ OnceAwake(t)

OnceNext == \E t \in Thread : OnceStep(t) \/ (OtherWake(t) /\ UNCHANGED onceLocal)

\* The scheduler is round robin: a thread that can run does.
OnceSpec == OnceInit /\ [][OnceNext]_onceVars /\ \A t \in Thread : WF_onceVars(OnceStep(t))
-----------------------------------------------------------------------------
\* call_once(): the initialisation runs at most once, and whoever returns Ok
\* returns after it has been completed.
OnceAndBefore ==
    /\ inits <= 1
    /\ \A t \in Thread : oncePc[t] = "ok" => inits = 1 /\ \A u \in Thread : oncePc[u] \notin {"init", "store"}

\* Every caller returns, with Ok or, when futex_wait() fails, an error:
\* nobody sleeps through the end of the initialisation.
EverybodyReturns == \A t \in Thread : <>(oncePc[t] \in {"ok", "error"})
=============================================================================
