------------------------------ MODULE Scheduler ------------------------------
(***************************************************************************)
(* The task table of the kernel (src/src/scheduler.rs) together with the   *)
(* system calls that change it (src/src/syscall/process.rs, core.rs,       *)
(* fs.rs), the loader's spawn path (src/src/elf.rs) and the registry of    *)
(* user address spaces (ADDRESS_SPACES in src/src/vmm.rs).                 *)
(*                                                                         *)
(* Interleaving.  There is one CPU.  A system call runs with interrupts    *)
(* off (SFMASK clears IF), so it is one action up to its `sti; hlt; cli`   *)
(* wait loop.  Task 0 is the boot stack: the compositor's main loop, which *)
(* runs kernel code with interrupts ON, so the timer can take the CPU      *)
(* away from it between any two critical sections; ipc, itask and ifree    *)
(* are its program counter and its two local variables.                    *)
(*                                                                         *)
(* Abstractions.  Credentials are left out: a permitted call is one of the *)
(* actions, a refused one changes nothing.  A group signal is the sequence *)
(* of the single signals its loop sends.  wake[t] counts the ticks that    *)
(* are left until tasks[t].wake_tick, so the clock itself is not needed.   *)
(* A PML4 frame is handed out by the frame allocator in any order.         *)
(***************************************************************************)
EXTENDS Naturals, FiniteSets

CONSTANTS
    MaxTasks,          \* bound: length the task vector may reach
    MAX_ACTIVE_TASKS,  \* resource_limits::MAX_ACTIVE_TASKS
    Space,             \* PML4 frames
    NoSpace,           \* pml4 = None, the boot PML4
    MaxSleep,          \* bound: longest timeout, in ticks
    UserOps,           \* the calls that the user programs make
    KernelOps          \* the operations of the compositor and the terminal

ASSUME SchedulerAssumption ==
    /\ MaxTasks \in Nat /\ MaxTasks >= 1
    /\ MAX_ACTIVE_TASKS \in Nat
    /\ NoSpace \notin Space
    /\ MaxSleep \in Nat

VARIABLES
    ntasks,    \* tasks.len()
    current,   \* Scheduler.current
    cr3,       \* the PML4 the CPU uses
    status,    \* Task.status ("Free" beyond the end of the vector)
    parent,    \* Task.parent
    pml4,      \* Task.pml4
    pending,   \* Task.pending_signal
    wake,      \* ticks left until Task.wake_tick
    stack,     \* the tasks whose Task.stack is allocated
    res,       \* the tasks that own entries of the fd, futex and socket tables
    at,        \* where the task is: user code or the wait loop of a call
    wchild,    \* the child a sys_waitpid loop waits for
    spaces,    \* ADDRESS_SPACES: the registered PML4 frames
    ipc,       \* task 0: next critical section
    itask,     \* task 0: local variable task_id
    ifree      \* task 0: local variable pml4_to_free, image.pml4

vars == <<ntasks, current, cr3, status, parent, pml4, pending, wake, stack, res,
          at, wchild, spaces, ipc, itask, ifree>>

idleVars == <<ipc, itask, ifree>>

Task == 0 .. (MaxTasks - 1)
Idle == 0
NoTask == MaxTasks
NoWake == MaxSleep + 1

TaskStatus == {"Ready", "Running", "Blocked", "Stopped", "Exited", "Reaped"}
Signal == {"Term", "Int", "User1", "Stop", "Continue"}
NoSignal == "none"

Dead == {"Exited", "Reaped"}
Existing == {t \in Task : status[t] # "Free"}

TypeOK ==
    /\ ntasks \in 1 .. MaxTasks
    /\ current \in Task
    /\ cr3 \in Space \cup {NoSpace}
    /\ status \in [Task -> TaskStatus \cup {"Free"}]
    /\ parent \in [Task -> Task \cup {NoTask}]
    /\ pml4 \in [Task -> Space \cup {NoSpace}]
    /\ pending \in [Task -> {NoSignal, "User1"}]
    /\ wake \in [Task -> 0 .. NoWake]
    /\ stack \in SUBSET Task
    /\ res \in SUBSET Task
    /\ at \in [Task -> {"user", "sleep", "event", "waitpid", "spin"}]
    /\ wchild \in [Task -> Task \cup {NoTask}]
    /\ spaces \in SUBSET Space
    /\ ipc \in {"loop", "kill", "wake", "cleanup", "free", "spawn", "start"}
    /\ itask \in Task \cup {NoTask}
    /\ ifree \in SUBSET Space

(* add_idle: the table after boot holds the idle task, which is running.   *)
Init ==
    /\ ntasks = 1 /\ current = Idle /\ cr3 = NoSpace
    /\ status = [t \in Task |-> IF t = Idle THEN "Running" ELSE "Free"]
    /\ parent = [t \in Task |-> NoTask]
    /\ pml4 = [t \in Task |-> NoSpace]
    /\ pending = [t \in Task |-> NoSignal]
    /\ wake = [t \in Task |-> NoWake]
    /\ stack = {Idle}
    /\ res = {Idle}
    /\ at = [t \in Task |-> "user"]
    /\ wchild = [t \in Task |-> NoTask]
    /\ spaces = {}
    /\ ipc = "loop" /\ itask = NoTask /\ ifree = {}
-----------------------------------------------------------------------------
(* Helpers: the effects that several operations share.                     *)

\* Mutant: stopped tasks are woken as well.
UnblockedAny(S, st) ==
    [t \in Task |-> IF t \in S /\ st[t] \in {"Blocked", "Stopped"} THEN "Ready" ELSE st[t]]

\* unblock(): a blocked task becomes ready, any other is left alone.
Unblocked(S, st) == [t \in Task |-> IF t \in S /\ st[t] = "Blocked" THEN "Ready" ELSE st[t]]

\* unblock() also disarms the timeout of the tasks it wakes.
Disarmed(S, st) == [t \in Task |-> IF t \in S /\ st[t] = "Blocked" THEN NoWake ELSE wake[t]]

\* Mutant: the address space has one owner.
sole_owner(t) == FALSE

\* take_reap_pml4_locked(): some other task that is not reaped shares the PML4.
still_live(t) == \E u \in Existing \ {t} : pml4[u] = pml4[t] /\ status[u] # "Reaped"

\* take_reap_pml4_locked(): the frames the caller has to free.
ReapFrees(t) == IF pml4[t] = NoSpace \/ still_live(t) THEN {} ELSE {pml4[t]}

\* take_reap_pml4_locked(): the field is put back while a sibling is alive.
ReapPml4(t) == IF still_live(t) THEN pml4 ELSE [pml4 EXCEPT ![t] = NoSpace]

\* free_address_space(): the PML4 in CR3 and an unregistered one are skipped.
free_address_space(P, registered, loaded) == registered \ (P \ {loaded})

active_task_count == Cardinality({t \in Existing \ {Idle} : status[t] # "Reaped"})

can_spawn_user_task == active_task_count < MAX_ACTIVE_TASKS
-----------------------------------------------------------------------------
(* The timer interrupt.                                                     *)

\* Mutant: no test for a deadline that has passed.
TickDownPast(w) == IF w # NoWake THEN w - 1 ELSE w

TickDown(w) == IF w \in 1 .. MaxSleep THEN w - 1 ELSE w

\* Mutant: the preempted task is not put back.
SweptStatusNoSave(t) == IF status[t] = "Blocked" /\ TickDown(wake[t]) = 0 THEN "Ready" ELSE status[t]

\* The status that the sweep of schedule() gives task t: the running task is
\* put back, an expired timeout wakes, then the pending signal is taken.
SweptStatus(t) ==
    LET saved == IF t = current /\ status[t] = "Running" THEN "Ready" ELSE status[t]
        timed == IF saved = "Blocked" /\ TickDown(wake[t]) = 0 THEN "Ready" ELSE saved
    IN  CASE pending[t] = "User1" /\ timed = "Blocked" -> "Ready"
          [] pending[t] = "Stop" /\ t # Idle /\ timed \notin Dead -> "Stopped"
          [] pending[t] = "Continue" /\ timed = "Stopped" -> "Ready"
          [] OTHER -> timed

SweptWake(t) ==
    IF \/ status[t] = "Blocked" /\ TickDown(wake[t]) = 0
       \/ pending[t] = "User1"
       \/ pending[t] = "Stop" /\ t # Idle /\ status[t] \notin Dead
    THEN NoWake
    ELSE TickDown(wake[t])

\* schedule() takes every pending signal.
TakenSignals == [t \in Task |-> NoSignal]

\* Mutant: the search starts at the current task.
DistanceFromSelf(t) == (t + ntasks - current) % ntasks

\* The forward, wrapping search that starts behind the current task.
Distance(t) == (t + ntasks - (current + 1)) % ntasks

IsNext(t, st) ==
    LET ready == {u \in Existing : st[u] = "Ready"}
    IN  IF ready = {} THEN t = Idle
        ELSE t \in ready /\ \A u \in ready : Distance(t) <= Distance(u)

schedule ==
    LET swept == [t \in Task |-> IF t \in Existing THEN SweptStatus(t) ELSE status[t]]
    IN  \E next \in Existing :
          /\ IsNext(next, swept)
          /\ status' = [swept EXCEPT ![next] = "Running"]
          /\ wake' = [t \in Task |-> IF t \in Existing THEN SweptWake(t) ELSE wake[t]]
          /\ pending' = TakenSignals
          /\ current' = next
          /\ cr3' = pml4[next]
          /\ UNCHANGED <<ntasks, parent, pml4, stack, res, at, wchild, spaces, idleVars>>

\* timer_schedule() finds the scheduler lock taken: only task 0 can hold it
\* with interrupts on.  The tick counts, nothing is scheduled.
TickLocked ==
    /\ current = Idle
    /\ wake' = [t \in Task |-> TickDown(wake[t])]
    /\ wake' # wake
    /\ UNCHANGED <<ntasks, current, cr3, status, parent, pml4, pending, stack, res, at,
                   wchild, spaces, idleVars>>
-----------------------------------------------------------------------------
(* System calls of the current task.  A task that has just exited, stopped *)
(* or been blocked by its own call keeps the CPU until the next tick,      *)
(* whatever its status says.                                               *)

InUserMode(t) == t = current /\ t # Idle /\ at[t] = "user"

\* block_current() and block_current_until(d).  The wait loop is left at once
\* when a signal is pending; the status stays Blocked.
Block(t, d, site) ==
    /\ status' = [status EXCEPT ![t] = "Blocked"]
    /\ wake' = IF d = NoWake THEN wake ELSE [wake EXCEPT ![t] = d]
    /\ at' = IF pending[t] # NoSignal THEN [at EXCEPT ![t] = "user"]
             ELSE [at EXCEPT ![t] = site]

\* The condition on which every wait loop falls through.
WaitLoopEnds(t) == status[t] # "Blocked" \/ pending[t] # NoSignal

sys_sleep_ms(t, d) ==
    /\ "sleep" \in UserOps /\ InUserMode(t)
    /\ Block(t, d, "sleep")
    /\ UNCHANGED <<ntasks, current, cr3, parent, pml4, pending, stack, res, wchild,
                   spaces, idleVars>>

\* The waits whose wake-up is some other component's unblock(): futex words,
\* pipes, terminals, poll sets; with or without a timeout.
EventWait(t, d) ==
    /\ "event" \in UserOps /\ InUserMode(t)
    /\ Block(t, d, "event")
    /\ UNCHANGED <<ntasks, current, cr3, parent, pml4, pending, stack, res, wchild,
                   spaces, idleVars>>

WaitReturn(t) ==
    /\ t = current /\ at[t] \in {"sleep", "event"} /\ WaitLoopEnds(t)
    /\ at' = [at EXCEPT ![t] = "user"]
    /\ UNCHANGED <<ntasks, current, cr3, status, parent, pml4, pending, wake, stack, res,
                   wchild, spaces, idleVars>>

\* evented::wake_task(): from an interrupt handler or another call.
EventWake(t) ==
    /\ at[t] = "event" /\ status[t] = "Blocked"
    /\ status' = Unblocked({t}, status) /\ wake' = Disarmed({t}, status)
    /\ UNCHANGED <<ntasks, current, cr3, parent, pml4, pending, stack, res, at, wchild,
                   spaces, idleVars>>

\* One pass of the sys_waitpid loop: reap, fail, or block.
WaitTry(t, c) ==
    \/ /\ c \in Existing \ {Idle} /\ parent[c] = t /\ status[c] = "Exited"
       /\ status' = [status EXCEPT ![c] = "Reaped"]
       /\ stack' = stack \ {c}
       /\ pml4' = ReapPml4(c)
       /\ spaces' = free_address_space(ReapFrees(c), spaces, cr3)
       /\ at' = [at EXCEPT ![t] = "user"]
       /\ wchild' = [wchild EXCEPT ![t] = NoTask]
       /\ UNCHANGED wake
    \/ /\ c \notin Existing \ {Idle} \/ parent[c] # t \/ status[c] = "Reaped"
       /\ at' = [at EXCEPT ![t] = "user"]
       /\ wchild' = [wchild EXCEPT ![t] = NoTask]
       /\ UNCHANGED <<status, wake, stack, pml4, spaces>>
    \/ /\ c \in Existing \ {Idle} /\ parent[c] = t /\ status[c] \notin Dead
       /\ Block(t, NoWake, "waitpid")
       /\ wchild' = [wchild EXCEPT ![t] = IF pending[t] = NoSignal THEN c ELSE NoTask]
       /\ UNCHANGED <<stack, pml4, spaces>>

sys_waitpid(t, c) ==
    /\ "waitpid" \in UserOps /\ InUserMode(t)
    /\ WaitTry(t, c)
    /\ UNCHANGED <<ntasks, current, cr3, parent, pending, res, idleVars>>

\* Behind the wait loop: an interrupted call returns, any other tries again.
WaitpidLoop(t) ==
    /\ t = current /\ at[t] = "waitpid" /\ WaitLoopEnds(t)
    /\ \/ /\ pending[t] # NoSignal
          /\ at' = [at EXCEPT ![t] = "user"]
          /\ wchild' = [wchild EXCEPT ![t] = NoTask]
          /\ UNCHANGED <<status, wake, stack, pml4, spaces>>
       \/ pending[t] = NoSignal /\ WaitTry(t, wchild[t])
    /\ UNCHANGED <<ntasks, current, cr3, parent, pending, res, idleVars>>

\* Mutant: the waiting parent is not woken.
ExitSilently(t) ==
    /\ status' = [status EXCEPT ![t] = "Exited"]
    /\ res' = res \ {t}

\* Mutant: the tables of the task are not cleaned up.
ExitNoCleanup(t) ==
    /\ status' = Unblocked({parent[t]}, [status EXCEPT ![t] = "Exited"])
    /\ UNCHANGED res

\* The part of exit_current(), kill_task() and fault_current() that the
\* scheduler lock protects, followed by wake_waiting_parent().
Exit(t) ==
    LET ended == [status EXCEPT ![t] = "Exited"]
    IN  /\ status' = Unblocked({parent[t]}, ended)
        /\ res' = res \ {t}

exit_current(t, site) ==
    /\ Exit(t)
    /\ wake' = [Disarmed({parent[t]}, status) EXCEPT ![t] = NoWake]
    /\ at' = [at EXCEPT ![t] = site]
    /\ UNCHANGED <<ntasks, current, cr3, parent, pml4, pending, stack, wchild, spaces,
                   idleVars>>

\* exit() of the runtime never returns: it spins until the timer fires.
sys_exit(t) == "exit" \in UserOps /\ InUserMode(t) /\ exit_current(t, "spin")

\* A page fault or another exception of user code; the timeout is not cleared.
fault_current(t) ==
    /\ "fault" \in UserOps /\ InUserMode(t)
    /\ Exit(t)
    /\ wake' = Disarmed({parent[t]}, status)
    /\ at' = [at EXCEPT ![t] = "spin"]
    /\ UNCHANGED <<ntasks, current, cr3, parent, pml4, pending, stack, wchild, spaces,
                   idleVars>>

Killable(t) == t \in Existing \ {Idle} /\ status[t] \notin Dead

kill_task(a, t) ==
    /\ t # a /\ Killable(t)
    /\ Exit(t)
    /\ wake' = [Disarmed({parent[t]}, status) EXCEPT ![t] = NoWake]
    /\ UNCHANGED <<ntasks, current, cr3, parent, pml4, pending, stack, at, wchild, spaces,
                   idleVars>>

\* send_signal() for the signals that have no exit code.
Deliver(t, sig) ==
    /\ Killable(t)
    /\ \/ /\ sig = "User1"
          /\ pending' = [pending EXCEPT ![t] = sig]
          /\ status' = Unblocked({t}, status) /\ wake' = Disarmed({t}, status)
       \/ /\ sig = "Stop"
          /\ pending' = [pending EXCEPT ![t] = NoSignal]
          /\ wake' = [wake EXCEPT ![t] = NoWake]
          /\ status' = [status EXCEPT ![t] = "Stopped"]
       \/ /\ sig = "Continue"
          /\ pending' = [pending EXCEPT ![t] = NoSignal]
          /\ status' = IF status[t] = "Stopped" THEN [status EXCEPT ![t] = "Ready"]
                       ELSE status
          /\ UNCHANGED wake
    /\ UNCHANGED <<ntasks, current, cr3, parent, pml4, stack, res, at, wchild, spaces,
                   idleVars>>

\* sys_signal(): a fatal signal to oneself returns to the program.
sys_signal(a, t, sig) ==
    /\ InUserMode(a)
    /\ IF t = a THEN "selfsignal" \in UserOps ELSE "signal" \in UserOps
    /\ \/ sig \notin {"Term", "Int"} /\ Deliver(t, sig)
       \/ sig \in {"Term", "Int"} /\ t # a /\ kill_task(a, t)
       \/ sig \in {"Term", "Int"} /\ t = a /\ exit_current(a, "user")
-----------------------------------------------------------------------------
(* Creating tasks and replacing their address space.                       *)

\* spawn_context(): the entry that is pushed at the end of the vector.
Push(p, st) ==
    /\ ntasks < MaxTasks
    /\ ntasks' = ntasks + 1
    /\ status' = [status EXCEPT ![ntasks] = st]
    /\ parent' = [parent EXCEPT ![ntasks] = current]
    /\ pml4' = [pml4 EXCEPT ![ntasks] = p]
    /\ stack' = stack \cup {ntasks}
    /\ res' = res \cup {ntasks}

\* sys_spawn*: load the image, push the task blocked, unblock it.
sys_spawn(t) ==
    /\ "spawn" \in UserOps /\ InUserMode(t) /\ can_spawn_user_task
    /\ \E p \in Space \ spaces : Push(p, "Ready") /\ spaces' = spaces \cup {p}
    /\ UNCHANGED <<current, cr3, pending, wake, at, wchild, idleVars>>

sys_thread_spawn(t) ==
    /\ "thread" \in UserOps /\ InUserMode(t) /\ can_spawn_user_task
    /\ pml4[t] # NoSpace
    /\ Push(pml4[t], "Ready")
    /\ UNCHANGED <<current, cr3, pending, wake, at, wchild, spaces, idleVars>>

\* sys_exec(): switch to the new image and free the old address space, whoever
\* else uses it ("texec": programs that have other threads call exec too).
sys_exec(t) ==
    /\ InUserMode(t)
    /\ IF still_live(t) THEN "texec" \in UserOps ELSE "exec" \in UserOps
    /\ \E p \in Space \ spaces :
         /\ pml4' = [pml4 EXCEPT ![t] = p]
         /\ cr3' = p
         /\ spaces' = IF pml4[t] = NoSpace THEN spaces \cup {p}
                      ELSE free_address_space({pml4[t]}, spaces \cup {p}, p)
    /\ UNCHANGED <<ntasks, current, status, parent, pending, wake, stack, res, at, wchild,
                   idleVars>>

\* Mutant: the caller is not excluded.
OomVictimAny(t) == t \in Existing \ {Idle} /\ pml4[t] # NoSpace /\ status[t] \notin Dead

\* reclaim_largest_user_task(): any other user task may be the largest one.
OomVictim(t) == t \in Existing \ {Idle, current} /\ pml4[t] # NoSpace /\ status[t] \notin Dead

\* force_reclaim_task() up to the release of the lock.
OomReap(t) ==
    /\ stack' = stack \ {t}
    /\ pml4' = ReapPml4(t)

\* admit_allocation() in a system call that needs memory (open, pipe).
OomBySyscall(a, t) ==
    /\ "oom" \in UserOps /\ InUserMode(a) /\ OomVictim(t)
    /\ OomReap(t)
    /\ status' = Unblocked({parent[t]}, [status EXCEPT ![t] = "Reaped"])
    /\ wake' = [Disarmed({parent[t]}, status) EXCEPT ![t] = NoWake]
    /\ res' = res \ {t}
    /\ spaces' = free_address_space(ReapFrees(t), spaces, cr3)
    /\ UNCHANGED <<ntasks, current, cr3, parent, pending, at, wchild, idleVars>>
-----------------------------------------------------------------------------
(* Task 0: one action per critical section.                                 *)

IdleAt(pc) == current = Idle /\ ipc = pc

\* kill_task() of the terminal and the compositor: the check ...
IKillCheck(t) ==
    /\ "killrace" \in KernelOps /\ IdleAt("loop") /\ Killable(t)
    /\ ipc' = "kill" /\ itask' = t
    /\ UNCHANGED <<ntasks, current, cr3, status, parent, pml4, pending, wake, stack, res,
                   at, wchild, spaces, ifree>>

\* ... and, under a second lock, the update, without looking again.
IKillCommit ==
    /\ IdleAt("kill")
    /\ status' = [status EXCEPT ![itask] = "Exited"]
    /\ wake' = [wake EXCEPT ![itask] = NoWake]
    /\ ipc' = "wake"
    /\ UNCHANGED <<ntasks, current, cr3, parent, pml4, pending, stack, res, at, wchild,
                   spaces, itask, ifree>>

\* The same two critical sections when no tick falls between them.
IKill(t) ==
    /\ "kill" \in KernelOps /\ IdleAt("loop") /\ Killable(t)
    /\ status' = [status EXCEPT ![t] = "Exited"]
    /\ wake' = [wake EXCEPT ![t] = NoWake]
    /\ ipc' = "wake" /\ itask' = t
    /\ UNCHANGED <<ntasks, current, cr3, parent, pml4, pending, stack, res, at, wchild,
                   spaces, ifree>>

\* force_reclaim_task() from the periodic memory_pressure::tick().
IOomReap(t) ==
    /\ "oom" \in KernelOps /\ IdleAt("loop") /\ OomVictim(t)
    /\ OomReap(t)
    /\ status' = [status EXCEPT ![t] = "Reaped"]
    /\ wake' = [wake EXCEPT ![t] = NoWake]
    /\ ipc' = "wake" /\ itask' = t /\ ifree' = ReapFrees(t)
    /\ UNCHANGED <<ntasks, current, cr3, parent, pending, res, at, wchild, spaces>>

\* Mutant: nobody is woken.
IWakeParentSkip ==
    /\ IdleAt("wake")
    /\ ipc' = "cleanup"
    /\ UNCHANGED <<ntasks, current, cr3, status, parent, pml4, pending, wake, stack, res, at,
                   wchild, spaces, itask, ifree>>

\* wake_waiting_parent() of a task that was killed or reclaimed.
IWakeParent ==
    /\ IdleAt("wake")
    /\ status' = Unblocked({parent[itask]}, status)
    /\ wake' = Disarmed({parent[itask]}, status)
    /\ ipc' = "cleanup"
    /\ UNCHANGED <<ntasks, current, cr3, parent, pml4, pending, stack, res, at, wchild,
                   spaces, itask, ifree>>

ICleanup ==
    /\ IdleAt("cleanup")
    /\ res' = res \ {itask}
    /\ ipc' = "free" /\ itask' = NoTask
    /\ UNCHANGED <<ntasks, current, cr3, status, parent, pml4, pending, wake, stack, at,
                   wchild, spaces, ifree>>

\* free_address_space() of what was collected under the lock.
IFree ==
    /\ IdleAt("free")
    /\ spaces' = free_address_space(ifree, spaces, cr3)
    /\ ipc' = "loop" /\ ifree' = {}
    /\ UNCHANGED <<ntasks, current, cr3, status, parent, pml4, pending, wake, stack, res,
                   at, wchild, itask>>

\* send_signal() from the terminal or a job.
ISignal(t, sig) ==
    /\ "signal" \in KernelOps /\ IdleAt("loop") /\ Deliver(t, sig)

\* waitpid(0, c): the shell may reap any task.
IWaitpid(c) ==
    /\ "wait" \in KernelOps /\ IdleAt("loop")
    /\ c \in Existing \ {Idle} /\ status[c] = "Exited"
    /\ status' = [status EXCEPT ![c] = "Reaped"]
    /\ stack' = stack \ {c}
    /\ pml4' = ReapPml4(c)
    /\ ipc' = "free" /\ ifree' = ReapFrees(c)
    /\ UNCHANGED <<ntasks, current, cr3, parent, pending, wake, res, at, wchild, spaces,
                   itask>>

\* reap_all_exited(0): the exited tasks are reaped in index order, so of
\* those that share a PML4 the last one gives it up.
reap_all_exited ==
    LET Z == {t \in Existing \ {Idle} : status[t] = "Exited"}
        stillLive(t) == \E u \in Existing \ {t} : /\ pml4[u] = pml4[t] /\ status[u] # "Reaped"
                                                  /\ ~(u \in Z /\ u < t)
        last == {t \in Z : ~stillLive(t)}
    IN  /\ "reap" \in KernelOps /\ IdleAt("loop") /\ Z # {}
        /\ status' = [t \in Task |-> IF t \in Z THEN "Reaped" ELSE status[t]]
        /\ stack' = stack \ Z
        /\ pml4' = [t \in Task |-> IF t \in last THEN NoSpace ELSE pml4[t]]
        /\ ipc' = "free" /\ ifree' = {pml4[t] : t \in last} \ {NoSpace}
        /\ UNCHANGED <<ntasks, current, cr3, parent, pending, wake, res, at, wchild,
                       spaces, itask>>

\* spawn_elf_process*: the image is loaded with interrupts on ...
ISpawnLoad ==
    /\ "spawn" \in KernelOps /\ IdleAt("loop") /\ can_spawn_user_task
    /\ \E p \in Space \ spaces : ifree' = {p} /\ spaces' = spaces \cup {p}
    /\ ipc' = "spawn"
    /\ UNCHANGED <<ntasks, current, cr3, status, parent, pml4, pending, wake, stack, res,
                   at, wchild, itask>>

\* ... then the task is pushed blocked, or the image freed when the table has
\* filled up in the meantime, no memory is left or the fds do not fit ...
ISpawnPush ==
    /\ IdleAt("spawn")
    /\ \/ /\ can_spawn_user_task
          /\ \E p \in ifree : Push(p, "Blocked")
          /\ ipc' = "start" /\ itask' = ntasks /\ ifree' = {}
          /\ UNCHANGED spaces
       \/ /\ spaces' = free_address_space(ifree, spaces, cr3)
          /\ ipc' = "loop" /\ ifree' = {}
          /\ UNCHANGED <<ntasks, status, parent, pml4, stack, res, itask>>
    /\ UNCHANGED <<current, cr3, pending, wake, at, wchild>>

\* ... and unblocked.
ISpawnStart ==
    /\ IdleAt("start")
    /\ status' = Unblocked({itask}, status) /\ wake' = Disarmed({itask}, status)
    /\ ipc' = "loop" /\ itask' = NoTask
    /\ UNCHANGED <<ntasks, current, cr3, parent, pml4, pending, stack, res, at, wchild,
                   spaces, ifree>>
-----------------------------------------------------------------------------
UserStep(t) ==
    \/ \E d \in 1 .. MaxSleep : sys_sleep_ms(t, d)
    \/ \E d \in 1 .. NoWake : EventWait(t, d)
    \/ WaitReturn(t)
    \/ \E c \in Task : sys_waitpid(t, c)
    \/ WaitpidLoop(t)
    \/ sys_exit(t)
    \/ fault_current(t)
    \/ \E u \in Task, sig \in Signal : sys_signal(t, u, sig)
    \/ sys_spawn(t)
    \/ sys_thread_spawn(t)
    \/ sys_exec(t)
    \/ \E u \in Task : OomBySyscall(t, u)

IdleStep ==
    \/ \E t \in Task : IKillCheck(t)
    \/ IKillCommit
    \/ \E t \in Task : IKill(t)
    \/ \E t \in Task : IOomReap(t)
    \/ IWakeParent
    \/ ICleanup
    \/ IFree
    \/ \E t \in Task, sig \in Signal \ {"Term", "Int"} : ISignal(t, sig)
    \/ \E c \in Task : IWaitpid(c)
    \/ reap_all_exited
    \/ ISpawnLoad
    \/ ISpawnPush
    \/ ISpawnStart

Next ==
    \/ schedule
    \/ TickLocked
    \/ \E t \in Task : EventWake(t)
    \/ \E t \in Task : UserStep(t)
    \/ IdleStep

Spec == Init /\ [][Next]_vars
-----------------------------------------------------------------------------
(* The timer interrupt keeps firing, and a task that is given the CPU     *)
(* again and again finishes its next critical section.                     *)
Fairness ==
    /\ WF_vars(schedule)
    /\ SF_vars(IWakeParent) /\ SF_vars(ICleanup)

FairSpec == Spec /\ Fairness
-----------------------------------------------------------------------------
Schedulable == {"Ready", "Running", "Blocked", "Stopped"}

\* The kernel never switches to a stack that it has freed: the CPU's task and
\* every task that schedule() may still choose own their kernel stack.  Reaping
\* (waitpid, reap_all_exited, force_reclaim_task) is what frees stacks.
StackSafe ==
    /\ current \in stack
    /\ \A t \in Task : status[t] \in Schedulable => t \in stack

\* No page table is freed under its users: CR3 holds the PML4 of the current
\* task, and the PML4s of all tasks that may run again are registered.  The
\* last user of a shared PML4 frees it (take_reap_pml4_locked, sys_exec).
SpaceSafe ==
    /\ cr3 = pml4[current]
    /\ cr3 # NoSpace => cr3 \in spaces
    /\ \A t \in Task : status[t] \in Schedulable /\ pml4[t] # NoSpace => pml4[t] \in spaces

\* The registered address spaces are exactly the ones in use: none is freed
\* under its users, and none is forgotten, that is, it belongs to a task that
\* is not reaped yet or to the operation task 0 is in the middle of.
SpacesExact ==
    /\ SpaceSafe
    /\ \A p \in spaces : p \in ifree \/ \E t \in Existing : pml4[t] = p /\ status[t] # "Reaped"

\* sys_waitpid loses no wake-up: a parent is blocked on a dead child only while
\* task 0 is between marking the child and wake_waiting_parent().
NoLostChildWake ==
    \A t \in Task : at[t] = "waitpid" /\ status[t] = "Blocked" =>
        \/ status[wchild[t]] \notin Dead
        \/ ipc = "wake" /\ itask = wchild[t]

\* Deaths and signals are not left half-done.  cleanup_task_resources() reaches
\* every dead task: fds, futex waits and sockets outlive the task only while
\* task 0 is on its way to the cleanup.  And schedule() takes the signals of all
\* tasks before it picks one, so that a task that does not signal itself never
\* sees one pending: the "interrupted" exits of the wait loops are not taken on
\* behalf of another task's signal.
Settled ==
    /\ \A t \in Task : status[t] \in Dead /\ t \in res => itask = t /\ ipc \in {"wake", "cleanup"}
    /\ pending[current] = NoSignal

\* One task runs, it is the current one, and task 0 can always be chosen, so
\* the search of schedule() never comes back empty-handed.
RunningIsCurrent ==
    /\ status[Idle] \in {"Ready", "Running"}
    /\ \A t \in Task : status[t] = "Running" => t = current

\* An exited task stays a zombie until it is reaped, and a stopped task runs
\* again only when CONT is sent to it, whatever blocks, wakes or signals it in
\* between (zombie_policy_lines).
LifecycleOrder ==
    [][\A t \in Task :
         /\ status[t] = "Exited" => status'[t] \in Dead
         /\ status[t] = "Stopped" /\ status'[t] \notin Dead \cup {"Stopped"} => Deliver(t, "Continue")]_vars

\* Whatever is sent to it or done around it, a reaped task never becomes
\* schedulable again: its stack and address space are gone.
ReapedForever == [][\A t \in Task : status[t] = "Reaped" => status'[t] \in Dead]_vars

\* Round robin starves nobody: a ready task gets the CPU or stops being ready.
\* A sleeper is woken by its deadline, whatever the other tasks do.
NobodyStarves ==
    \A t \in Task :
        /\ status[t] = "Ready" ~> status[t] # "Ready" \/ current = t
        /\ at[t] = "sleep" /\ status[t] = "Blocked" ~> status[t] # "Blocked"

\* A parent that is blocked on a child that is dead is woken, and what a dead
\* task owned is released, also when task 0 was preempted in the middle.
ChildDeathSettles ==
    \A t \in Task :
        /\ at[t] = "waitpid" /\ status[t] = "Blocked" /\ status[wchild[t]] \in Dead
              ~> status[t] # "Blocked"
        /\ status[t] \in Dead ~> t \notin res
=============================================================================
