---------------------------- MODULE AbstractLock ----------------------------
(***************************************************************************)
(* What a mutex promises: in each address space it is free or held by one  *)
(* thread, which alone can give it back.                                   *)
(***************************************************************************)
CONSTANTS Thread, Space, SpaceOf

VARIABLE holder  \* the threads that hold the mutex of an address space

Init == holder = [s \in Space |-> {}]

Acquire(t) ==
    /\ holder[SpaceOf[t]] = {}
    /\ holder' = [holder EXCEPT ![SpaceOf[t]] = {t}]

Release(t) ==
    /\ holder[SpaceOf[t]] = {t}
    /\ holder' = [holder EXCEPT ![SpaceOf[t]] = {}]

Next == \E t \in Thread : Acquire(t) \/ Release(t)

Spec == Init /\ [][Next]_holder
=============================================================================
