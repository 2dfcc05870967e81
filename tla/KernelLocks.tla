---------------------------- MODULE KernelLocks ----------------------------
(* Spin locks on one CPU.  Task 0 (the main loop of main.rs) takes locks     *)
(* with interrupts on and can be preempted while it holds them; system calls *)
(* run with interrupts off (SFMASK, syscall/mod.rs), so a system call that   *)
(* has to spin for a lock spins forever unless its owner is the CPU's task.  *)
(* Two disciplines avoid that: the WM mutex is only tried by system calls,   *)
(* and the timer does not switch tasks while SCHEDULER is held.              *)
EXTENDS Naturals, FiniteSets

CONSTANTS KlUser,    \* tasks other than task 0
          KlPlain    \* locks that system calls take with lock(), e.g. VFS, TTYS

VARIABLES klHeld,     \* the locks task 0 holds
          klCurrent,  \* the task the CPU runs
          klSpin      \* the locks the current task spins for, interrupts off

klVars == <<klHeld, klCurrent, klSpin>>
KlLocks == {"WM", "SCHEDULER"} \cup KlPlain

KlInit == klHeld = {} /\ klCurrent = 0 /\ klSpin = {}

\* The main loop: compose() takes WM and, under it, the locks of the subsystems;
\* SCHEDULER is taken for short sections inside any of them.
MainLocks(l) ==
    /\ klCurrent = 0 /\ l \notin klHeld /\ "SCHEDULER" \notin klHeld
    /\ klHeld' = klHeld \cup {l}
    /\ UNCHANGED <<klCurrent, klSpin>>

MainUnlocks(l) ==
    /\ klCurrent = 0 /\ l \in klHeld
    /\ klHeld' = klHeld \ {l}
    /\ UNCHANGED <<klCurrent, klSpin>>

\* timer_schedule(): try_lock() on SCHEDULER.
MaySwitch == "SCHEDULER" \notin klHeld

timer_schedule(t) ==
    /\ klSpin = {} /\ MaySwitch
    /\ klCurrent' = t /\ t # klCurrent
    /\ UNCHANGED <<klHeld, klSpin>>

\* A system call wants a lock: WM.try_lock() gives up, lock() spins.  With the
\* lock free the whole call runs at once, as nothing can interrupt it.
SystemCall(l) ==
    /\ klCurrent # 0 /\ klSpin = {}
    /\ l \in klHeld /\ l # "WM"
    /\ klSpin' = {l}
    /\ UNCHANGED <<klHeld, klCurrent>>

KlNext ==
    \/ \E l \in KlLocks : MainLocks(l) \/ MainUnlocks(l) \/ SystemCall(l)
    \/ \E t \in KlUser \cup {0} : timer_schedule(t)

KlSpec == KlInit /\ [][KlNext]_klVars
-----------------------------------------------------------------------------
\* No system call ever spins for a lock that a preempted task holds: with
\* interrupts off nobody could give the lock back (main.rs: "the WM mutex inside
\* compose() provides the only exclusion needed").
NobodySpinsForever == klSpin = {}
=============================================================================
