--------------------------- MODULE SchedulerProofs ---------------------------
(***************************************************************************)
(* Proofs about the task table for any number of tasks, address spaces and *)
(* ticks and for any set of calls and kernel operations; and from the      *)
(* shape of the table, what the scheduler promises to waiting parents,     *)
(* about the tasks that have died, about the life of a task and about      *)
(* address spaces.                                                         *)
(***************************************************************************)
EXTENDS Scheduler, TLAPS

\* Replacing a value of a function keeps the function's type.
LEMMA ExceptType ==
  ASSUME NEW S, NEW T, NEW f \in [S -> T], NEW x, NEW v \in T
  PROVE  [f EXCEPT ![x] = v] \in [S -> T]
BY Zenon

USE DEF Task, Idle, NoTask, NoWake, TaskStatus, NoSignal, Dead, idleVars

\* What unblock() does to the table, for any set of tasks.
LEMMA UnblockType ==
  ASSUME TypeOK, NEW S, NEW st \in [Task -> TaskStatus \cup {"Free"}]
  PROVE  /\ Unblocked(S, st) \in [Task -> TaskStatus \cup {"Free"}]
         /\ Disarmed(S, st) \in [Task -> 0 .. NoWake]
BY SchedulerAssumption DEF Unblocked, Disarmed, TypeOK

\* Types are preserved by a timer tick.
LEMMA TypeTick == ASSUME TypeOK, schedule \/ TickLocked PROVE TypeOK'
<1> USE SchedulerAssumption
<1>1. \A w \in 0 .. NoWake : TickDown(w) \in 0 .. NoWake
  BY DEF TickDown
<1>2. \A t \in Task : SweptStatus(t) \in TaskStatus \cup {"Free"}
  BY DEF SweptStatus, TypeOK
<1>3. \A t \in Task : SweptWake(t) \in 0 .. NoWake
  BY <1>1 DEF SweptWake, TypeOK
<1>4. CASE schedule
  <2> DEFINE swept == [t \in Task |-> IF t \in Existing THEN SweptStatus(t) ELSE status[t]]
  <2>1. swept \in [Task -> TaskStatus \cup {"Free"}]
    BY <1>2 DEF TypeOK
  <2>2. PICK next \in Existing :
          /\ status' = [swept EXCEPT ![next] = "Running"]
          /\ wake' = [t \in Task |-> IF t \in Existing THEN SweptWake(t) ELSE wake[t]]
          /\ pending' = TakenSignals
          /\ current' = next
          /\ cr3' = pml4[next]
          /\ UNCHANGED <<ntasks, parent, pml4, stack, res, at, wchild, spaces, idleVars>>
    BY Zenon, <1>4 DEF schedule
  <2> HIDE DEF swept
  <2>3. next \in Task
    BY DEF Existing
  <2>4. status' \in [Task -> TaskStatus \cup {"Free"}]
    BY <2>1, <2>2, <2>3
  <2>5. wake' \in [Task -> 0 .. NoWake]
    BY <2>2, <1>3 DEF TypeOK
  <2> QED BY Zenon, <2>2, <2>3, <2>4, <2>5 DEF TypeOK, TakenSignals
<1>5. CASE TickLocked
  BY Zenon, <1>1, <1>5 DEF TickLocked, TypeOK
<1> QED BY <1>4, <1>5

\* Types are preserved by a signal that is not fatal.
LEMMA DeliverType ==
  ASSUME TypeOK, NEW u \in Task, NEW sig, Deliver(u, sig) PROVE TypeOK'
<1> USE SchedulerAssumption
<1>1. /\ Unblocked({u}, status) \in [Task -> TaskStatus \cup {"Free"}]
      /\ Disarmed({u}, status) \in [Task -> 0 .. NoWake]
  BY Zenon, UnblockType DEF TypeOK
<1>2. /\ status' \in [Task -> TaskStatus \cup {"Free"}]
      /\ wake' \in [Task -> 0 .. NoWake]
  <2>1. CASE sig = "User1"
    BY Zenon, <1>1, <2>1 DEF Deliver
  <2>2. CASE sig # "User1"
    BY <2>2 DEF Deliver, TypeOK
  <2> QED BY <2>1, <2>2
<1>3. pending' \in [Task -> {NoSignal, "User1"}]
  BY DEF Deliver, TypeOK
<1> QED BY <1>2, <1>3 DEF Deliver, TypeOK

\* The types of what Push writes.
PushedOK ==
    /\ ntasks' \in 1 .. MaxTasks
    /\ status' \in [Task -> TaskStatus \cup {"Free"}]
    /\ parent' \in [Task -> Task \cup {NoTask}]
    /\ pml4' \in [Task -> Space \cup {NoSpace}]
    /\ stack' \in SUBSET Task
    /\ res' \in SUBSET Task

\* The scheduler's push keeps the types of the table, for any image and state.
LEMMA PushType ==
  ASSUME TypeOK, NEW p \in Space, NEW st \in TaskStatus, Push(p, st) PROVE PushedOK
<1> USE SchedulerAssumption
<1>1. ntasks' \in 1 .. MaxTasks /\ ntasks \in Task
  BY DEF Push, TypeOK
<1>2. status' \in [Task -> TaskStatus \cup {"Free"}]
  BY Zenon DEF Push, TypeOK
<1>3. parent' \in [Task -> Task \cup {NoTask}]
  BY Zenon DEF Push, TypeOK
<1>4. pml4' \in [Task -> Space \cup {NoSpace}]
  BY Zenon DEF Push, TypeOK
<1>5. stack' \in SUBSET Task /\ res' \in SUBSET Task
  BY Zenon, <1>1 DEF Push, TypeOK
<1> QED BY Zenon, <1>1, <1>2, <1>3, <1>4, <1>5 DEF PushedOK

\* Types are preserved by the system calls.
LEMMA TypeUser ==
  ASSUME TypeOK, NEW t \in Task, UserStep(t) PROVE TypeOK'
<1> USE SchedulerAssumption
<1>1. CASE \E d \in 1 .. MaxSleep : sys_sleep_ms(t, d)
  BY <1>1 DEF sys_sleep_ms, Block, TypeOK
<1>2. CASE \E d \in 1 .. NoWake : EventWait(t, d)
  BY <1>2 DEF EventWait, Block, TypeOK
<1>3. CASE WaitReturn(t)
  BY <1>3 DEF WaitReturn, TypeOK
<1>4. ASSUME NEW c \in Task \cup {NoTask}, WaitTry(t, c),
             UNCHANGED <<ntasks, current, cr3, parent, pending, res, idleVars>>
      PROVE  TypeOK'
  <2>1. ReapPml4(c) \in [Task -> Space \cup {NoSpace}]
    BY Zenon DEF ReapPml4, TypeOK
  <2>2. free_address_space(ReapFrees(c), spaces, cr3) \in SUBSET Space
    BY DEF free_address_space, TypeOK
  <2>3. CASE Block(t, NoWake, "waitpid") /\ UNCHANGED <<stack, pml4, spaces>>
                /\ wchild' = [wchild EXCEPT ![t] = IF pending[t] = NoSignal THEN c ELSE NoTask]
    BY <1>4, <2>3 DEF Block, TypeOK
  <2>4. CASE UNCHANGED <<status, wake, stack, pml4, spaces>>
                /\ at' = [at EXCEPT ![t] = "user"] /\ wchild' = [wchild EXCEPT ![t] = NoTask]
    BY <1>4, <2>4 DEF TypeOK
  <2>5. CASE status[c] = "Exited" /\ c \in Existing
                /\ status' = [status EXCEPT ![c] = "Reaped"]
                /\ stack' = stack \ {c}
                /\ pml4' = ReapPml4(c)
                /\ spaces' = free_address_space(ReapFrees(c), spaces, cr3)
                /\ at' = [at EXCEPT ![t] = "user"]
                /\ wchild' = [wchild EXCEPT ![t] = NoTask]
                /\ UNCHANGED wake
    <3>1. /\ status' \in [Task -> TaskStatus \cup {"Free"}]
          /\ stack' \in SUBSET Task
      BY Zenon, <2>5, ExceptType DEF TypeOK
    <3>2. /\ at' \in [Task -> {"user", "sleep", "event", "waitpid", "spin"}]
          /\ wchild' \in [Task -> Task \cup {NoTask}]
      BY <2>5, ExceptType DEF TypeOK
    <3> QED BY <1>4, <2>1, <2>2, <2>5, <3>1, <3>2 DEF TypeOK
  <2> QED BY <1>4, <2>3, <2>4, <2>5 DEF WaitTry
<1>5. CASE \E c \in Task : sys_waitpid(t, c)
  BY <1>4, <1>5 DEF sys_waitpid
<1>6. CASE WaitpidLoop(t)
  <2>1. CASE pending[t] # NoSignal
    BY Zenon, <1>6, <2>1 DEF WaitpidLoop, TypeOK
  <2>2. CASE pending[t] = NoSignal
    <3>1. wchild[t] \in Task \cup {NoTask}
      BY DEF TypeOK
    <3> QED BY <1>4, <1>6, <2>2, <3>1 DEF WaitpidLoop
  <2> QED BY <2>1, <2>2
<1>7. \A u \in Task : Exit(u) => /\ status' \in [Task -> TaskStatus \cup {"Free"}]
                               /\ res' \in SUBSET Task
  <2> TAKE u \in Task
  <2>1. [status EXCEPT ![u] = "Exited"] \in [Task -> TaskStatus \cup {"Free"}]
    BY DEF TypeOK
  <2>2. Unblocked({parent[u]}, [status EXCEPT ![u] = "Exited"]) \in
          [Task -> TaskStatus \cup {"Free"}]
    BY Zenon, <2>1, UnblockType
  <2> QED BY Zenon, <2>2 DEF Exit, TypeOK
<1>8. ASSUME NEW u \in Task
      PROVE  /\ Disarmed({parent[u]}, status) \in [Task -> 0 .. NoWake]
             /\ [Disarmed({parent[u]}, status) EXCEPT ![u] = NoWake] \in
                  [Task -> 0 .. NoWake]
  <2>1. Disarmed({parent[u]}, status) \in [Task -> 0 .. NoWake]
    <3>1. status \in [Task -> TaskStatus \cup {"Free"}]
      BY DEF TypeOK
    <3> QED BY <3>1, UnblockType
  <2>2. NoWake \in 0 .. NoWake
    OBVIOUS
  <2> QED BY Zenon, <2>1, <2>2
<1>9. ASSUME NEW site \in {"user", "spin"}, exit_current(t, site) PROVE TypeOK'
  <2>1. wake' \in [Task -> 0 .. NoWake]
    BY Zenon, <1>8, <1>9 DEF exit_current
  <2> QED BY Zenon, <1>7, <1>9, <2>1 DEF exit_current, TypeOK
<1>10. CASE sys_exit(t) \/ fault_current(t)
  <2>1. CASE sys_exit(t)
    BY <1>9, <2>1 DEF sys_exit
  <2>2. CASE fault_current(t)
    BY Zenon, <1>7, <1>8, <2>2 DEF fault_current, TypeOK
  <2> QED BY <1>10, <2>1, <2>2
<1>11. ASSUME NEW u \in Task, NEW sig \in Signal, sys_signal(t, u, sig)
       PROVE  TypeOK'
  <2>1. CASE kill_task(t, u)
    BY Zenon, <1>7, <1>8, <2>1 DEF kill_task, TypeOK
  <2>2. CASE Deliver(u, sig)
    BY DeliverType, <2>2
  <2> QED BY <1>9, <1>11, <2>1, <2>2 DEF sys_signal
<1>12. CASE sys_spawn(t)
  <2>1. PICK p \in Space : Push(p, "Ready") /\ spaces' = spaces \cup {p}
    BY <1>12 DEF sys_spawn
  <2>2. spaces' \in SUBSET Space
    BY <2>1 DEF TypeOK
  <2>3. UNCHANGED <<current, cr3, pending, wake, at, wchild, idleVars>>
    BY Zenon, <1>12 DEF sys_spawn
  <2>4. PushedOK
    BY Zenon, <2>1, PushType
  <2> QED BY Zenon, <2>2, <2>3, <2>4 DEF PushedOK, TypeOK, idleVars
<1>13. CASE sys_thread_spawn(t)
  <2>1. pml4[t] \in Space
    BY <1>13 DEF sys_thread_spawn, TypeOK
  <2>2. Push(pml4[t], "Ready")
    BY Zenon, <1>13 DEF sys_thread_spawn
  <2>3. UNCHANGED <<current, cr3, pending, wake, at, wchild, spaces, idleVars>>
    BY Zenon, <1>13 DEF sys_thread_spawn
  <2>4. PushedOK
    BY Zenon, <2>1, <2>2, PushType
  <2> QED BY Zenon, <2>3, <2>4 DEF PushedOK, TypeOK, idleVars
<1>14. CASE sys_exec(t)
  BY <1>14 DEF sys_exec, free_address_space, TypeOK
<1>15. CASE \E u \in Task : OomBySyscall(t, u)
  <2>1. PICK u \in Task : OomBySyscall(t, u)
    BY <1>15
  <2>2. ReapPml4(u) \in [Task -> Space \cup {NoSpace}]
    BY DEF ReapPml4, TypeOK
  <2>3. [status EXCEPT ![u] = "Reaped"] \in [Task -> TaskStatus \cup {"Free"}]
    BY DEF TypeOK
  <2>4. status' \in [Task -> TaskStatus \cup {"Free"}]
    BY Zenon, <2>1, <2>3, UnblockType DEF OomBySyscall
  <2>5. spaces' \in SUBSET Space
    BY <2>1 DEF OomBySyscall, free_address_space, TypeOK
  <2> QED BY Zenon, <1>8, <2>1, <2>2, <2>4, <2>5 DEF OomBySyscall, OomReap, TypeOK
<1> QED BY Zenon, <1>1, <1>2, <1>3, <1>5, <1>6, <1>10, <1>11, <1>12, <1>13, <1>14, <1>15
        DEF UserStep

\* Types are preserved by the critical sections of task 0.
LEMMA TypeIdle ==
  ASSUME TypeOK, IdleStep PROVE TypeOK'
<1> USE SchedulerAssumption
<1>2. \A u \in Task : /\ ReapPml4(u) \in [Task -> Space \cup {NoSpace}]
                      /\ ReapFrees(u) \in SUBSET Space
  BY DEF ReapPml4, ReapFrees, TypeOK
<1>3. CASE \E t \in Task : IKillCheck(t)
  BY <1>3 DEF IKillCheck, TypeOK
<1>4. CASE IKillCommit
  <2>1. status' \in [Task -> TaskStatus \cup {"Free"}]
    BY Zenon, <1>4 DEF IKillCommit, TypeOK
  <2>2. wake' \in [Task -> 0 .. NoWake]
    <3>1. wake' = [wake EXCEPT ![itask] = NoWake] /\ wake \in [Task -> 0 .. NoWake]
      BY <1>4 DEF IKillCommit, TypeOK
    <3>2. NoWake \in 0 .. NoWake
      OBVIOUS
    <3> HIDE DEF NoWake, Task
    <3> QED BY Zenon, <3>1, <3>2
  <2> QED BY <1>4, <2>1, <2>2 DEF IKillCommit, TypeOK
<1>5. CASE \E t \in Task : IKill(t)
  BY <1>5 DEF IKill, TypeOK
<1>6. CASE \E t \in Task : IOomReap(t)
  BY <1>2, <1>6 DEF IOomReap, OomReap, TypeOK
<1>7. CASE IWakeParent
  BY Zenon, UnblockType, <1>7 DEF IWakeParent, TypeOK
<1>8. CASE ICleanup
  BY <1>8 DEF ICleanup, TypeOK
<1>9. CASE IFree
  <2>1. spaces' \in SUBSET Space
    BY Zenon, <1>9 DEF IFree, free_address_space, TypeOK
  <2>2. ifree' \in SUBSET Space /\ ipc' \in {"loop", "kill", "wake", "cleanup", "free", "spawn", "start"}
    BY Zenon, <1>9 DEF IFree, TypeOK
  <2> QED BY Zenon, <1>9, <2>1, <2>2 DEF IFree, TypeOK
<1>10. CASE \E t \in Task, sig \in Signal \ {"Term", "Int"} : ISignal(t, sig)
  BY <1>10, DeliverType DEF ISignal
<1>11. CASE \E c \in Task : IWaitpid(c)
  BY <1>2, <1>11 DEF IWaitpid, TypeOK
<1>12. CASE reap_all_exited
  <2>1. ifree' \in SUBSET Space /\ pml4' \in [Task -> Space \cup {NoSpace}]
    BY <1>12 DEF reap_all_exited, Existing, TypeOK
  <2>2. /\ status' \in [Task -> TaskStatus \cup {"Free"}]
        /\ stack' \in SUBSET Task
    BY Zenon, <1>12 DEF reap_all_exited, TypeOK
  <2> QED BY <1>12, <2>1, <2>2 DEF reap_all_exited, TypeOK
<1>13. CASE ISpawnLoad
  BY <1>13 DEF ISpawnLoad, TypeOK
<1>14. CASE ISpawnPush
  <2>1. CASE \E p \in ifree : Push(p, "Blocked") /\ ipc' = "start" /\ itask' = ntasks
                /\ ifree' = {} /\ UNCHANGED <<current, cr3, pending, wake, at, wchild, spaces>>
    <3>1. PICK p \in ifree : Push(p, "Blocked")
      BY Zenon, <2>1
    <3>2. p \in Space
      BY Zenon DEF TypeOK
    <3>3. PushedOK
      BY <3>1, <3>2, PushType
    <3>4. itask' \in Task
      <4>1. itask' = ntasks
        BY Zenon, <2>1
      <4>2. ntasks < MaxTasks
        BY Zenon, <3>1 DEF Push
      <4> QED BY <4>1, <4>2 DEF TypeOK
    <3>5. ifree' \in SUBSET Space /\ ipc' \in {"loop", "kill", "wake", "cleanup", "free", "spawn", "start"}
      BY <2>1
    <3>6. UNCHANGED <<current, cr3, pending, wake, at, wchild, spaces>>
      BY Zenon, <2>1
    <3> QED BY Zenon, <3>3, <3>4, <3>5, <3>6 DEF PushedOK, TypeOK
  <2>2. CASE UNCHANGED <<ntasks, status, parent, pml4, stack, res, itask, current, cr3, pending, wake,
                         at, wchild>>
             /\ spaces' = free_address_space(ifree, spaces, cr3) /\ ipc' = "loop" /\ ifree' = {}
    BY <2>2 DEF free_address_space, TypeOK
  <2> QED BY <1>14, <2>1, <2>2 DEF ISpawnPush
<1>15. CASE ISpawnStart
  BY Zenon, UnblockType, <1>15 DEF ISpawnStart, TypeOK
<1> QED BY <1>3, <1>4, <1>5, <1>6, <1>7, <1>8, <1>9, <1>10, <1>11, <1>12, <1>13, <1>14,
           <1>15 DEF IdleStep

\* Every variable of the task table keeps its type, whatever the programs and
\* the kernel do.
THEOREM TypeCorrect == Spec => []TypeOK
<1>1. Init => TypeOK
  BY SchedulerAssumption DEF Init, TypeOK
<1>2. TypeOK /\ [Next]_vars => TypeOK'
  <2> SUFFICES ASSUME TypeOK, [Next]_vars PROVE TypeOK'
    OBVIOUS
  <2>1. CASE schedule \/ TickLocked
    BY <2>1, TypeTick
  <2>2. CASE \E t \in Task : EventWake(t)
    BY <2>2, SchedulerAssumption DEF EventWake, Unblocked, Disarmed, TypeOK
  <2>3. CASE \E t \in Task : UserStep(t)
    BY <2>3, TypeUser
  <2>4. CASE IdleStep
    BY <2>4, TypeIdle
  <2>5. CASE UNCHANGED vars
    BY <2>5 DEF vars, TypeOK
  <2> QED BY <2>1, <2>2, <2>3, <2>4, <2>5 DEF Next
<1> QED BY <1>1, <1>2, PTL DEF Spec
-----------------------------------------------------------------------------
(* The shape of the task table.  StackSafe, the lifecycle property and the  *)
(* invariants about address spaces and parents all rest on it.              *)
Table ==
    /\ \A t \in Task : status[t] = "Free" <=> t >= ntasks
    /\ \A t \in Task : status[t] = "Free" \/ t = Idle => at[t] = "user"
    /\ current \in Existing /\ status[current] # "Reaped"
    /\ RunningIsCurrent
    /\ \A t \in Task : parent[t] # t
    /\ ipc \in {"kill", "wake", "cleanup", "start"} => itask \in Existing \ {Idle}

\* The timer interrupt keeps the table in shape.
LEMMA TableTick ==
  ASSUME TypeOK, Table, schedule \/ TickLocked PROVE Table'
<1> USE SchedulerAssumption
<1>1. CASE schedule
  <2> DEFINE swept == [t \in Task |-> IF t \in Existing THEN SweptStatus(t) ELSE status[t]]
  <2>1. PICK next \in Existing :
          /\ IsNext(next, swept)
          /\ status' = [swept EXCEPT ![next] = "Running"]
          /\ current' = next
          /\ UNCHANGED <<ntasks, parent, at, ipc, itask>>
    BY Zenon, <1>1 DEF schedule
  <2>2. \A t \in Task : /\ swept[t] = "Free" <=> status[t] = "Free"
                        /\ swept[t] # "Running"
                        /\ swept[t] = "Reaped" => status[t] = "Reaped"
    BY DEF SweptStatus, Existing, TypeOK, Table, RunningIsCurrent
  <2>3. swept[Idle] = "Ready"
    <3>1. Idle \in Task /\ Idle \in Existing
      BY DEF TypeOK, Table, RunningIsCurrent, Existing
    <3>2. SweptStatus(Idle) = "Ready"
      <4>1. CASE status[Idle] = "Running"
        BY Zenon, <3>1, <4>1 DEF SweptStatus, TypeOK, Table, RunningIsCurrent
      <4>2. CASE status[Idle] = "Ready"
        BY <3>1, <4>2 DEF SweptStatus, TypeOK
      <4> QED BY <4>1, <4>2 DEF Table, RunningIsCurrent
    <3> QED BY <3>1, <3>2
  <2>4. swept \in [Task -> TaskStatus \cup {"Free"}] /\ next \in Task
    BY DEF SweptStatus, TypeOK, Existing
  <2> HIDE DEF swept
  <2>5. \A t \in Task : status'[t] = IF t = next THEN "Running" ELSE swept[t]
    BY <2>1, <2>4
  <2>6. \A t \in Task : t \in Existing' <=> t \in Existing
    BY <2>1, <2>2, <2>5 DEF Existing
  <2> QED BY <2>1, <2>2, <2>3, <2>4, <2>5, <2>6 DEF Table, RunningIsCurrent, TypeOK, Existing
<1>2. CASE TickLocked
  BY <1>2 DEF TickLocked, Table, RunningIsCurrent, Existing
<1> QED BY <1>1, <1>2

\* Pushing a task keeps the table in shape.
LEMMA TablePush ==
  ASSUME TypeOK, Table, NEW p, NEW st \in {"Ready", "Blocked"}, Push(p, st),
         UNCHANGED <<current, at>>,
         ipc' \in {"kill", "wake", "cleanup", "start"} =>
            \/ ipc' = "start" /\ itask' = ntasks
            \/ ipc' = ipc /\ itask' = itask
  PROVE  Table'
<1> USE SchedulerAssumption
<1>1. ntasks \in Task /\ ntasks # Idle /\ ntasks' = ntasks + 1
  BY DEF Push, TypeOK
<1>2. \A t \in Task : status'[t] = IF t = ntasks THEN st ELSE status[t]
  BY <1>1 DEF Push, TypeOK
<1>3. \A t \in Task : parent'[t] = IF t = ntasks THEN current ELSE parent[t]
  BY <1>1 DEF Push, TypeOK
<1>4. \A t \in Task : t \in Existing' <=> t \in Existing \/ t = ntasks
  BY <1>2 DEF Existing
<1>5. current # ntasks
  BY <1>1 DEF Table, Existing
<1> QED BY <1>1, <1>2, <1>3, <1>4, <1>5 DEF Table, RunningIsCurrent, TypeOK, Existing

\* A step that creates no task keeps the table in shape when it leaves task 0
\* alone, makes nobody running, and neither reaps the current task nor moves
\* any other.
Tame ==
    /\ UNCHANGED <<ntasks, current, parent>>
    /\ \A t \in Task : status'[t] = "Free" <=> status[t] = "Free"
    /\ \A t \in Task : status'[t] = "Running" => status[t] = "Running"
    /\ status'[Idle] = status[Idle]
    /\ status'[current] # "Reaped"
    /\ \A t \in Task : t # current \/ t = Idle => at'[t] = at[t]

TameIdle == ipc' \in {"kill", "wake", "cleanup", "start"} => itask' \in Existing \ {Idle}

\* Steps that create and wake up nobody keep the facts about the table.
LEMMA TableTame == ASSUME TypeOK, Table, Tame, TameIdle PROVE Table'
<1>1. \A t \in Task : t \in Existing' <=> t \in Existing
  BY DEF Tame, Existing
<1> QED BY <1>1, SchedulerAssumption DEF Tame, TameIdle, Table, RunningIsCurrent, TypeOK, Existing

\* What the end of task u does to every task: it is marked, its parent woken.
LEMMA EndStatus ==
  ASSUME TypeOK, Table, NEW u \in Task, NEW mark \in {"Exited", "Reaped"},
         status' = Unblocked({parent[u]}, [status EXCEPT ![u] = mark])
  PROVE  \A v \in Task : status'[v] =
           IF v = u THEN mark
           ELSE IF v = parent[u] /\ status[v] = "Blocked" THEN "Ready" ELSE status[v]
BY DEF Unblocked, TypeOK, Table

\* What a signal that is not fatal does to every task.
LEMMA DeliverStatus ==
  ASSUME TypeOK, NEW u \in Task, NEW sig, Deliver(u, sig)
  PROVE  /\ \A v \in Task \ {u} : status'[v] = status[v]
         /\ u \in Existing \ {Idle} /\ status[u] \notin Dead
         /\ status'[u] \in {status[u], "Ready", "Stopped"}
         /\ status'[u] = "Ready" => status[u] \in {"Ready", "Blocked", "Stopped"}
<1>1. CASE sig = "User1"
  BY <1>1 DEF Deliver, Killable, Unblocked, TypeOK
<1>2. CASE sig = "Stop"
  BY Zenon, <1>2 DEF Deliver, Killable, TypeOK
<1>3. CASE sig = "Continue"
  BY Zenon, <1>3 DEF Deliver, Killable, TypeOK
<1> QED BY <1>1, <1>2, <1>3 DEF Deliver

\* What one pass of the sys_waitpid loop does to every task.
LEMMA WaitTryStatus ==
  ASSUME TypeOK, Table, NEW t \in Task, NEW c, WaitTry(t, c)
  PROVE  \/ UNCHANGED status
         \/ \A v \in Task : status'[v] = IF v = t THEN "Blocked" ELSE status[v]
         \/ /\ c \in Existing \ {Idle, t} /\ status[c] = "Exited"
            /\ \A v \in Task : status'[v] = IF v = c THEN "Reaped" ELSE status[v]
<1>1. CASE Block(t, NoWake, "waitpid")
  BY <1>1 DEF Block, TypeOK
<1>2. CASE c \in Existing \ {Idle} /\ parent[c] = t /\ status[c] = "Exited"
              /\ status' = [status EXCEPT ![c] = "Reaped"]
  <2>1. c # t
    BY <1>2 DEF Table, Existing
  <2> QED BY <1>2, <2>1 DEF TypeOK, Existing
<1> QED BY <1>1, <1>2 DEF WaitTry

\* The system calls that create no task are tame.
LEMMA TameUser ==
  ASSUME TypeOK, Table, NEW t \in Task, UserStep(t), UNCHANGED ntasks
  PROVE  Tame
<1> USE SchedulerAssumption
<1>1. CASE \E d \in 1 .. MaxSleep : sys_sleep_ms(t, d)
  BY <1>1 DEF sys_sleep_ms, InUserMode, Block, TypeOK, Table, Tame, Existing
<1>2. CASE \E d \in 1 .. NoWake : EventWait(t, d)
  BY <1>2 DEF EventWait, InUserMode, Block, TypeOK, Table, Tame, Existing
<1>3. CASE WaitReturn(t)
  BY <1>3 DEF WaitReturn, TypeOK, Table, Tame
<1>4. ASSUME NEW c, WaitTry(t, c), t = current, t # Idle, UNCHANGED <<current, parent>>
      PROVE  Tame
  <2>1. UNCHANGED ntasks /\ \A v \in Task : v # current \/ v = Idle => at'[v] = at[v]
    BY <1>4 DEF WaitTry, Block, TypeOK
  <2>2. \/ UNCHANGED status
        \/ \A v \in Task : status'[v] = IF v = t THEN "Blocked" ELSE status[v]
        \/ /\ c \in Existing \ {Idle, t} /\ status[c] = "Exited"
           /\ \A v \in Task : status'[v] = IF v = c THEN "Reaped" ELSE status[v]
    BY <1>4, WaitTryStatus
  <2> QED BY <1>4, <2>1, <2>2 DEF TypeOK, Table, Tame, Existing
<1>5. CASE \E c \in Task : sys_waitpid(t, c)
  BY <1>4, <1>5 DEF sys_waitpid, InUserMode
<1>6. CASE WaitpidLoop(t)
  <2>1. t # Idle
    BY <1>6 DEF WaitpidLoop, Table
  <2> QED BY <1>4, <1>6, <2>1 DEF WaitpidLoop, TypeOK, Table, Tame
<1>7. ASSUME NEW u \in Existing \ {Idle}, Exit(u), UNCHANGED <<current, parent>>,
             \A v \in Task : v # current \/ v = Idle => at'[v] = at[v]
      PROVE  Tame
  <2>1. u \in Task
    BY DEF Existing
  <2>2. \A v \in Task : status'[v] =
          IF v = u THEN "Exited"
          ELSE IF v = parent[u] /\ status[v] = "Blocked" THEN "Ready" ELSE status[v]
    BY Zenon, <1>7, <2>1, EndStatus DEF Exit
  <2>3. status[u] # "Free" /\ u # Idle
    BY DEF Existing
  <2>4. /\ Idle \in Task /\ current \in Task
        /\ status[Idle] \in {"Ready", "Running"} /\ status[current] # "Reaped"
    BY DEF TypeOK, Table, RunningIsCurrent
  <2> QED BY <1>7, <2>2, <2>3, <2>4 DEF Tame
<1>8. CASE sys_exit(t) \/ fault_current(t)
  BY <1>7, <1>8 DEF sys_exit, exit_current, fault_current, InUserMode, Table, TypeOK
<1>9. ASSUME NEW u \in Task, NEW sig, Deliver(u, sig) PROVE Tame
  <2>1. /\ \A v \in Task \ {u} : status'[v] = status[v]
        /\ u \in Existing \ {Idle} /\ status[u] \notin Dead
        /\ status'[u] \in {status[u], "Ready", "Stopped"}
    BY <1>9, DeliverStatus
  <2> QED BY <1>9, <2>1 DEF Deliver, TypeOK, Table, Tame, Existing
<1>10. CASE \E u \in Task, sig \in Signal : sys_signal(t, u, sig)
  BY <1>7, <1>9, <1>10 DEF sys_signal, exit_current, kill_task, Killable, InUserMode, Table, TypeOK
<1>11. CASE sys_spawn(t) \/ sys_thread_spawn(t)
  BY <1>11 DEF sys_spawn, sys_thread_spawn, Push, TypeOK
<1>12. CASE sys_exec(t)
  BY <1>12 DEF sys_exec, Table, Tame
<1>13. CASE \E u \in Task : OomBySyscall(t, u)
  <2>1. PICK u \in Task : OomBySyscall(t, u)
    BY <1>13
  <2>2. \A v \in Task : status'[v] =
          IF v = u THEN "Reaped"
          ELSE IF v = parent[u] /\ status[v] = "Blocked" THEN "Ready" ELSE status[v]
    BY Zenon, <2>1, EndStatus DEF OomBySyscall
  <2>3. status[u] # "Free" /\ u # Idle /\ u # current /\ UNCHANGED <<current, parent, at>>
    BY <2>1 DEF OomBySyscall, OomVictim, Existing
  <2>4. /\ Idle \in Task /\ current \in Task
        /\ status[Idle] \in {"Ready", "Running"} /\ status[current] # "Reaped"
    BY DEF TypeOK, Table, RunningIsCurrent
  <2> QED BY <2>2, <2>3, <2>4 DEF Tame
<1> QED BY <1>1, <1>2, <1>3, <1>5, <1>6, <1>8, <1>10, <1>11, <1>12, <1>13 DEF UserStep

\* The critical sections of task 0 that create no task are tame.
LEMMA TameIdleStep ==
  ASSUME TypeOK, Table, IdleStep, UNCHANGED ntasks
  PROVE  Tame /\ TameIdle
<1> USE SchedulerAssumption
<1>1. CASE \E t \in Task : IKillCheck(t)
  BY <1>1 DEF IKillCheck, Killable, IdleAt, Table, Tame, TameIdle
<1>2. CASE IKillCommit
  BY <1>2 DEF IKillCommit, IdleAt, TypeOK, Table, RunningIsCurrent, Tame, TameIdle, Existing
<1>3. CASE \E t \in Task : IKill(t)
  BY <1>3 DEF IKill, Killable, IdleAt, TypeOK, Table, RunningIsCurrent, Tame, TameIdle, Existing
<1>4. CASE \E t \in Task : IOomReap(t)
  BY <1>4 DEF IOomReap, OomVictim, IdleAt, TypeOK, Table, RunningIsCurrent, Tame, TameIdle,
              Existing
<1>5. CASE IWakeParent \/ ISpawnStart
  BY <1>5 DEF IWakeParent, ISpawnStart, Unblocked, IdleAt, TypeOK, Table, RunningIsCurrent, Tame,
              TameIdle, Existing
<1>6. CASE ICleanup \/ IFree
  BY <1>6 DEF ICleanup, IFree, IdleAt, Table, Tame, TameIdle
<1>7. CASE \E t \in Task, sig \in Signal \ {"Term", "Int"} : ISignal(t, sig)
  <2>1. PICK t \in Task, sig \in Signal \ {"Term", "Int"} : ISignal(t, sig)
    BY <1>7
  <2>2. /\ \A v \in Task \ {t} : status'[v] = status[v]
        /\ t \in Existing \ {Idle} /\ status[t] \notin Dead
        /\ status'[t] \in {status[t], "Ready", "Stopped"}
    BY <2>1, DeliverStatus DEF ISignal
  <2> QED BY <2>1, <2>2 DEF ISignal, Deliver, TypeOK, Table, RunningIsCurrent, Tame, TameIdle, IdleAt,
                            Existing
<1>8. CASE \E c \in Task : IWaitpid(c)
  BY <1>8 DEF IWaitpid, IdleAt, TypeOK, Table, RunningIsCurrent, Tame, TameIdle, Existing
<1>9. CASE reap_all_exited
  BY <1>9 DEF reap_all_exited, IdleAt, TypeOK, Table, RunningIsCurrent, Tame, TameIdle, Existing
<1>10. CASE ISpawnLoad
  BY <1>10 DEF ISpawnLoad, IdleAt, TypeOK, Table, Tame, TameIdle
<1>11. CASE ISpawnPush
  BY <1>11 DEF ISpawnPush, Push, IdleAt, TypeOK, Table, Tame, TameIdle
<1> QED BY <1>1, <1>2, <1>3, <1>4, <1>5, <1>6, <1>7, <1>8, <1>9, <1>10, <1>11 DEF IdleStep

\* Every step keeps the table in shape.
LEMMA TableNext ==
  ASSUME TypeOK, Table, [Next]_vars PROVE Table'
<1> USE SchedulerAssumption
<1>1. CASE schedule \/ TickLocked
  BY <1>1, TableTick
<1>2. CASE \E t \in Task : EventWake(t)
  <2>1. Tame /\ TameIdle
    BY <1>2 DEF EventWake, Unblocked, TypeOK, Table, RunningIsCurrent, Tame, TameIdle, Existing
  <2> QED BY <2>1, TableTame
<1>3. CASE \E t \in Task : UserStep(t)
  <2>1. PICK t \in Task : UserStep(t)
    BY <1>3
  <2>2. CASE sys_spawn(t) \/ sys_thread_spawn(t)
    <3>1. PICK p : Push(p, "Ready") /\ UNCHANGED <<current, at, ipc, itask>>
      BY <2>2 DEF sys_spawn, sys_thread_spawn
    <3> QED BY <3>1, TablePush
  <2>3. CASE ~(sys_spawn(t) \/ sys_thread_spawn(t))
    <3>1. UNCHANGED <<ntasks, ipc, itask>>
      BY Zenon, <2>1, <2>3 DEF UserStep, sys_sleep_ms, EventWait, WaitReturn, sys_waitpid, WaitpidLoop,
         sys_exit, exit_current, fault_current, sys_signal, kill_task, Deliver, sys_exec,
         OomBySyscall
    <3>2. Tame
      BY <2>1, <3>1, TameUser
    <3>3. TameIdle
      BY <3>1 DEF TameIdle, Table
    <3> QED BY <3>2, <3>3, TableTame
  <2> QED BY <2>2, <2>3
<1>4. CASE IdleStep
  <2>1. CASE UNCHANGED ntasks
    BY <1>4, <2>1, TameIdleStep, TableTame
  <2>2. CASE ntasks' # ntasks
    <3>1. PICK p : Push(p, "Blocked") /\ ipc' = "start" /\ itask' = ntasks /\ UNCHANGED <<current, at>>
      BY Zenon, <1>4, <2>2 DEF IdleStep, IKillCheck, IKillCommit, IKill, IOomReap, IWakeParent, ICleanup,
         IFree, ISignal, Deliver, IWaitpid, reap_all_exited, ISpawnLoad, ISpawnPush, ISpawnStart
    <3> QED BY <3>1, TablePush
  <2> QED BY <2>1, <2>2
<1>5. CASE UNCHANGED vars
  BY <1>5 DEF vars, Table, RunningIsCurrent, Existing
<1> QED BY <1>1, <1>2, <1>3, <1>4, <1>5 DEF Next

\* The table is in shape after every step.
LEMMA TableInvariant == Spec => [](TypeOK /\ Table)
<1>1. Init => TypeOK /\ Table
  BY SchedulerAssumption DEF Init, TypeOK, Table, RunningIsCurrent, Existing
<1>2. Table /\ TypeOK /\ [Next]_vars => Table'
  BY TableNext
<1> QED BY <1>1, <1>2, TypeCorrect, PTL DEF Spec

\* One task runs, it is the current one, and task 0 can always be chosen.
THEOREM OneTaskRuns == Spec => []RunningIsCurrent
<1>1. Table => RunningIsCurrent
  BY DEF Table
<1> QED BY <1>1, TableInvariant, PTL
-----------------------------------------------------------------------------
(* Kernel stacks.  Outside schedule() a step makes nobody schedulable but    *)
(* the current task and new ones, and frees only the stack of a task that it *)
(* reaps and that is not the current one.                                    *)
StackStep ==
    /\ UNCHANGED current
    /\ \A t \in Task :
         /\ status'[t] \in Schedulable =>
               \/ status[t] \in Schedulable \/ t = current
               \/ status[t] = "Free" /\ t \in stack'
         /\ t \in stack => t \in stack' \/ (status'[t] = "Reaped" /\ t # current)

USE DEF Schedulable

\* A task is pushed with a stack.
LEMMA StackPush ==
  ASSUME TypeOK, Table, NEW p, NEW st \in {"Ready", "Blocked"}, Push(p, st), UNCHANGED current
  PROVE  StackStep
<1>1. ntasks \in Task /\ status[ntasks] = "Free"
  BY SchedulerAssumption DEF Push, TypeOK, Table
<1>2. \A t \in Task : /\ status'[t] = IF t = ntasks THEN st ELSE status[t]
                      /\ t \in stack' <=> t = ntasks \/ t \in stack
  BY <1>1 DEF Push, TypeOK
<1> QED BY <1>1, <1>2 DEF StackStep

\* Reaping one exited task other than the current one.
LEMMA StackReap ==
  ASSUME TypeOK, NEW c \in Task, c # current, UNCHANGED current,
         stack' = stack \ {c},
         \A t \in Task : status'[t] \in Schedulable => status[t] \in Schedulable,
         status'[c] = "Reaped"
  PROVE  StackStep
BY DEF StackStep

\* A step that frees no stack and wakes at most tasks that are schedulable.
LEMMA StackKeep ==
  ASSUME UNCHANGED <<current, stack>>,
         \A t \in Task : status'[t] \in Schedulable => status[t] \in Schedulable \/ t = current
  PROVE  StackStep
BY DEF StackStep

\* The system calls and faults of a task that runs.
LEMMA StackUser ==
  ASSUME TypeOK, Table, NEW t \in Task, UserStep(t)
  PROVE  StackStep
<1> USE SchedulerAssumption
<1>1. CASE (\E d \in 1 .. MaxSleep : sys_sleep_ms(t, d)) \/ (\E d \in 1 .. NoWake : EventWait(t, d))
  BY <1>1 DEF sys_sleep_ms, EventWait, InUserMode, Block, TypeOK, StackStep
<1>2. CASE WaitReturn(t) \/ sys_exec(t)
  BY <1>2 DEF WaitReturn, sys_exec, StackStep
<1>3. ASSUME NEW c, WaitTry(t, c), t = current, UNCHANGED current
      PROVE  StackStep
  <2>1. CASE UNCHANGED <<status, stack>>
    BY <1>3, <2>1 DEF StackStep
  <2>2. CASE Block(t, NoWake, "waitpid") /\ UNCHANGED stack
    BY <1>3, <2>2 DEF Block, TypeOK, StackStep
  <2>3. CASE /\ c \in Existing \ {Idle} /\ parent[c] = t /\ status[c] = "Exited"
             /\ status' = [status EXCEPT ![c] = "Reaped"]
             /\ stack' = stack \ {c}
    <3>1. c \in Task /\ c # current
      BY <1>3, <2>3 DEF Table, Existing
    <3>2. \A v \in Task : status'[v] = IF v = c THEN "Reaped" ELSE status[v]
      BY <2>3, <3>1 DEF TypeOK
    <3> QED BY <1>3, <2>3, <3>1, <3>2, StackReap
  <2> QED BY <1>3, <2>1, <2>2, <2>3 DEF WaitTry
<1>4. CASE \E c \in Task : sys_waitpid(t, c)
  BY <1>3, <1>4 DEF sys_waitpid, InUserMode
<1>5. CASE WaitpidLoop(t)
  <2>1. CASE UNCHANGED <<status, stack>>
    BY <1>5, <2>1 DEF WaitpidLoop, StackStep
  <2> QED BY <1>3, <1>5, <2>1 DEF WaitpidLoop
<1>6. ASSUME NEW u \in Existing, Exit(u), UNCHANGED <<current, stack>>
      PROVE  StackStep
  <2>1. \A v \in Task : status'[v] =
          IF v = u THEN "Exited"
          ELSE IF v = parent[u] /\ status[v] = "Blocked" THEN "Ready" ELSE status[v]
    BY Zenon, <1>6, EndStatus DEF Exit, Existing
  <2> QED BY <1>6, <2>1, StackKeep
<1>7. CASE sys_exit(t) \/ fault_current(t)
  BY <1>6, <1>7 DEF sys_exit, exit_current, fault_current, InUserMode, Table
<1>8. CASE \E u \in Task, sig \in Signal : sys_signal(t, u, sig)
  <2>1. PICK u \in Task, sig \in Signal : sys_signal(t, u, sig)
    BY <1>8
  <2>2. CASE Deliver(u, sig)
    <3>1. /\ \A v \in Task \ {u} : status'[v] = status[v]
          /\ u \in Existing \ {Idle} /\ status[u] \notin Dead
      BY <2>2, DeliverStatus
    <3>2. status[u] \in Schedulable
      BY <3>1 DEF Existing, TypeOK
    <3> QED BY <2>2, <3>1, <3>2, StackKeep DEF Deliver
  <2> QED BY <1>6, <2>1, <2>2 DEF sys_signal, exit_current, kill_task, Killable, InUserMode, Table
<1>9. CASE sys_spawn(t) \/ sys_thread_spawn(t)
  BY <1>9, StackPush DEF sys_spawn, sys_thread_spawn
<1>10. CASE \E u \in Task : OomBySyscall(t, u)
  <2>1. PICK u \in Task : OomBySyscall(t, u)
    BY <1>10
  <2>2. \A v \in Task : status'[v] =
          IF v = u THEN "Reaped"
          ELSE IF v = parent[u] /\ status[v] = "Blocked" THEN "Ready" ELSE status[v]
    BY Zenon, <2>1, EndStatus DEF OomBySyscall
  <2>3. u # current /\ stack' = stack \ {u} /\ UNCHANGED current
    BY <2>1 DEF OomBySyscall, OomVictim, OomReap
  <2> QED BY <2>2, <2>3, StackReap
<1> QED BY <1>1, <1>2, <1>4, <1>5, <1>7, <1>8, <1>9, <1>10 DEF UserStep

\* The timer and the steps of task 0.
LEMMA StackIdle ==
  ASSUME TypeOK, Table, IdleStep
  PROVE  StackStep
<1> USE SchedulerAssumption
<1>1. CASE (\E t \in Task : IKillCheck(t)) \/ ICleanup \/ IFree \/ ISpawnLoad
  BY <1>1, StackKeep DEF IKillCheck, ICleanup, IFree, ISpawnLoad
<1>2. CASE IKillCommit \/ (\E t \in Task : IKill(t))
  BY <1>2, StackKeep DEF IKillCommit, IKill, TypeOK
<1>3. CASE \E t \in Task : IOomReap(t)
  BY <1>3, StackReap DEF IOomReap, OomReap, OomVictim, TypeOK
<1>4. CASE IWakeParent \/ ISpawnStart
  BY <1>4, StackKeep DEF IWakeParent, ISpawnStart, Unblocked
<1>5. CASE \E t \in Task, sig \in Signal \ {"Term", "Int"} : ISignal(t, sig)
  <2>1. PICK t \in Task, sig \in Signal : Deliver(t, sig)
    BY <1>5 DEF ISignal
  <2>2. /\ \A v \in Task \ {t} : status'[v] = status[v]
        /\ t \in Existing \ {Idle} /\ status[t] \notin Dead
    BY <2>1, DeliverStatus
  <2>3. status[t] \in Schedulable
    BY <2>2 DEF Existing, TypeOK
  <2> QED BY <2>1, <2>2, <2>3, StackKeep DEF Deliver
<1>6. CASE \E c \in Task : IWaitpid(c)
  <2>1. PICK c \in Task : IWaitpid(c)
    BY <1>6
  <2>2. c # current /\ UNCHANGED current
    BY <2>1 DEF IWaitpid, IdleAt
  <2> QED BY <2>1, <2>2, StackReap DEF IWaitpid, TypeOK
<1>7. CASE reap_all_exited
  BY <1>7 DEF reap_all_exited, IdleAt, StackStep, TypeOK
<1>8. CASE ISpawnPush
  BY <1>8, StackPush, StackKeep DEF ISpawnPush
<1> QED BY <1>1, <1>2, <1>3, <1>4, <1>5, <1>6, <1>7, <1>8 DEF IdleStep

\* schedule() makes nobody schedulable.
LEMMA StackSchedule ==
  ASSUME TypeOK, Table, schedule
  PROVE  /\ UNCHANGED stack /\ current' \in Task /\ status'[current'] = "Running"
         /\ \A t \in Task : status'[t] \in Schedulable => status[t] \in Schedulable
<1> USE SchedulerAssumption
<1> DEFINE swept == [t \in Task |-> IF t \in Existing THEN SweptStatus(t) ELSE status[t]]
<1>1. PICK next \in Existing :
        /\ IsNext(next, swept)
        /\ status' = [swept EXCEPT ![next] = "Running"]
        /\ current' = next
        /\ UNCHANGED stack
  BY Zenon DEF schedule
<1>2. \A t \in Task : swept[t] \in Schedulable => status[t] \in Schedulable
  BY DEF SweptStatus, Existing, TypeOK
<1>3. next \in Task /\ swept[next] = "Ready"
  <2>1. swept[Idle] = "Ready"
    <3>1. Idle \in Task /\ Idle \in Existing
      BY DEF TypeOK, Table, RunningIsCurrent, Existing
    <3>2. SweptStatus(Idle) = "Ready"
      <4>1. CASE status[Idle] = "Running"
        BY Zenon, <3>1, <4>1 DEF SweptStatus, TypeOK, Table, RunningIsCurrent
      <4>2. CASE status[Idle] = "Ready"
        BY <3>1, <4>2 DEF SweptStatus, TypeOK
      <4> QED BY <4>1, <4>2 DEF Table, RunningIsCurrent
    <3> QED BY <3>1, <3>2
  <2> HIDE DEF swept
  <2> QED BY <1>1, <2>1 DEF IsNext, Existing
<1>4. swept \in [Task -> TaskStatus \cup {"Free"}]
  BY DEF SweptStatus, TypeOK, Existing
<1> HIDE DEF swept
<1> QED BY <1>1, <1>2, <1>3, <1>4 DEF Existing

\* Every step respects the stacks.
LEMMA StackNext ==
  ASSUME TypeOK, Table, [Next]_vars
  PROVE  StackStep \/ schedule
<1>1. CASE TickLocked \/ UNCHANGED vars
  BY <1>1, StackKeep DEF TickLocked, vars
<1>2. CASE \E t \in Task : EventWake(t)
  BY <1>2, StackKeep DEF EventWake, Unblocked
<1> QED BY <1>1, <1>2, StackUser, StackIdle DEF Next

\* The CPU never runs on a freed kernel stack, whatever is reaped by whom.
THEOREM StacksAreSafe == Spec => []StackSafe
<1>1. Init => StackSafe
  BY SchedulerAssumption DEF Init, StackSafe
<1>2. TypeOK /\ Table /\ StackSafe /\ [Next]_vars => StackSafe'
  <2> SUFFICES ASSUME TypeOK, Table, StackSafe, [Next]_vars PROVE StackSafe'
    OBVIOUS
  <2>1. CASE StackStep
    <3>1. current \in Task
      BY DEF TypeOK
    <3> QED BY <2>1, <3>1 DEF StackStep, StackSafe
  <2>2. CASE schedule
    BY <2>2, StackSchedule DEF StackSafe
  <2> QED BY <2>1, <2>2, StackNext
<1> QED BY <1>1, <1>2, TableInvariant, PTL DEF Spec

\* A reaped task never becomes schedulable again.
THEOREM ReapedTasksStay == Spec => ReapedForever
<1>1. TypeOK /\ Table /\ TypeOK' /\ [Next]_vars
        => [\A t \in Task : status[t] = "Reaped" => status'[t] \in Dead]_vars
  <2> SUFFICES ASSUME TypeOK, Table, TypeOK', Table', [Next]_vars, NEW t \in Task, status[t] = "Reaped"
               PROVE  status'[t] \in Dead
    BY TableNext
  <2>1. t # current /\ t < ntasks
    BY DEF Table, TypeOK
  <2>2. status'[t] \notin Schedulable
    BY <2>1, StackNext, StackSchedule DEF StackStep
  <2>3. ntasks' = ntasks \/ ntasks' = ntasks + 1
    <3>1. CASE \E u \in Task : UserStep(u)
      <4>1. PICK u \in Task : UserStep(u)
        BY <3>1
      <4>2. CASE sys_spawn(u) \/ sys_thread_spawn(u)
        BY <4>2 DEF sys_spawn, sys_thread_spawn, Push
      <4> QED BY Zenon, <4>1, <4>2 DEF UserStep, sys_sleep_ms, EventWait, WaitReturn, sys_waitpid,
                 WaitpidLoop, sys_exit, exit_current, fault_current, sys_signal, kill_task,
                 Deliver, sys_exec, OomBySyscall
    <3>2. CASE IdleStep
      BY Zenon, <3>2 DEF IdleStep, IKillCheck, IKillCommit, IKill, IOomReap, IWakeParent, ICleanup, IFree,
         ISignal, Deliver, IWaitpid, reap_all_exited, ISpawnLoad, ISpawnPush, Push, ISpawnStart
    <3> QED BY Zenon, <3>1, <3>2 DEF Next, schedule, TickLocked, EventWake, vars
  <2>4. status'[t] # "Free"
    BY <2>1, <2>3 DEF Table, TypeOK
  <2> QED BY Zenon, <2>2, <2>4 DEF TypeOK
<1> QED BY <1>1, TableInvariant, PTL DEF Spec, ReapedForever
-----------------------------------------------------------------------------
USE DEF Schedulable

(* Waiting parents.  A task in the loop of sys_waitpid() waits for a child of *)
(* its own.                                                                   *)
WaitsForChild ==
    \A t \in Task : at[t] = "waitpid" => wchild[t] \in Existing \ {Idle} /\ parent[wchild[t]] = t

\* What a step does to waiting parents: one that waits after the step waited
\* before it or waits for a child that is alive; a child that dies, and one task 0
\* has killed and not yet reported, has a parent that is not blocked.
WaitStep ==
    /\ \A t \in Task : at'[t] = "waitpid" =>
         \/ at[t] = "waitpid" /\ wchild'[t] = wchild[t] /\ (status'[t] = "Blocked" => status[t] = "Blocked")
         \/ wchild'[t] \in Existing \ {Idle} /\ parent[wchild'[t]] = t /\ status'[wchild'[t]] \notin Dead
    /\ \A c \in Existing : c \in Existing' /\ parent'[c] = parent[c]
    /\ \A c \in Task : status'[c] \in Dead =>
         \/ status[c] \in Dead
         \/ ipc' = "wake" /\ itask' = c
         \/ parent[c] \in Task => status'[parent[c]] # "Blocked"
    /\ ipc = "wake" => \/ ipc' = "wake" /\ itask' = itask
                       \/ parent[itask] \in Task => status'[parent[itask]] # "Blocked"

\* Such steps keep the invariant.
LEMMA WaitInductive ==
  ASSUME TypeOK, WaitsForChild, NoLostChildWake, WaitStep
  PROVE  WaitsForChild' /\ NoLostChildWake'
<1>1. WaitsForChild'
  BY DEF WaitsForChild, WaitStep, Existing
<1>2. ASSUME NEW t \in Task, at'[t] = "waitpid", status'[t] = "Blocked", status'[wchild'[t]] \in Dead
      PROVE  ipc' = "wake" /\ itask' = wchild'[t]
  <2>1. at[t] = "waitpid" /\ wchild'[t] = wchild[t] /\ status[t] = "Blocked"
    BY <1>2 DEF WaitStep
  <2>2. wchild[t] \in Task /\ parent[wchild[t]] = t
    BY <2>1 DEF WaitsForChild, Existing
  <2>3. CASE status[wchild[t]] \in Dead
    <3>1. ipc = "wake" /\ itask = wchild[t]
      BY <2>1, <2>3 DEF NoLostChildWake
    <3> QED BY <1>2, <2>1, <2>2, <3>1 DEF WaitStep
  <2>4. CASE status[wchild[t]] \notin Dead
    BY <1>2, <2>1, <2>2, <2>4 DEF WaitStep
  <2> QED BY <2>3, <2>4
<1> QED BY <1>1, <1>2 DEF NoLostChildWake

\* Steps that leave the waits, the parents and the steps of task 0 alone and
\* neither end nor block a task.
Quiet ==
    /\ UNCHANGED <<parent, wchild>>
    /\ \A t \in Task : /\ at'[t] = "waitpid" => at[t] = "waitpid"
                       /\ status[t] # "Free" => status'[t] # "Free"
                       /\ at'[t] = "waitpid" /\ status'[t] = "Blocked" => status[t] = "Blocked"
                       /\ status'[t] \in Dead => status[t] \in Dead
    /\ ipc = "wake" => ipc' = "wake" /\ itask' = itask

\* Quiet steps are such steps.
LEMMA QuietWaits == ASSUME Quiet PROVE WaitStep
BY DEF Quiet, WaitStep, Existing

\* schedule() is quiet.
LEMMA WaitSchedule == ASSUME TypeOK, Table, schedule PROVE Quiet
<1> USE SchedulerAssumption
<1> DEFINE swept == [t \in Task |-> IF t \in Existing THEN SweptStatus(t) ELSE status[t]]
<1>1. PICK next \in Existing :
        /\ status' = [swept EXCEPT ![next] = "Running"]
        /\ UNCHANGED <<parent, wchild, at, ipc, itask>>
  BY DEF schedule
<1>2. \A t \in Task : /\ swept[t] = "Blocked" => status[t] = "Blocked"
                      /\ swept[t] \in Dead => status[t] \in Dead
                      /\ swept[t] = "Free" => status[t] = "Free"
  BY DEF SweptStatus, Existing, TypeOK
<1>3. swept \in [Task -> TaskStatus \cup {"Free"}]
  BY DEF SweptStatus, TypeOK, Existing
<1> HIDE DEF swept
<1>4. \A t \in Task : status'[t] = "Running" \/ status'[t] = swept[t]
  BY <1>1, <1>3
<1> QED BY <1>1, <1>2, <1>4 DEF Quiet

\* A task that is pushed waits for nobody.
LEMMA WaitPush ==
  ASSUME TypeOK, Table, NEW p, NEW st \in {"Ready", "Blocked"}, Push(p, st),
         UNCHANGED <<at, wchild>>, ipc # "wake" \/ UNCHANGED <<ipc, itask>>
  PROVE  WaitStep
<1>1. ntasks \in Task /\ status[ntasks] = "Free" /\ at[ntasks] = "user"
  BY SchedulerAssumption DEF Push, TypeOK, Table
<1>2. \A t \in Task : /\ status'[t] = IF t = ntasks THEN st ELSE status[t]
                      /\ t # ntasks => parent'[t] = parent[t]
  BY <1>1 DEF Push, TypeOK
<1> QED BY <1>1, <1>2 DEF WaitStep, Existing

\* The system calls respect waiting parents.
LEMMA WaitUser == ASSUME TypeOK, Table, WaitsForChild, NEW t \in Task, UserStep(t) PROVE WaitStep
<1> USE SchedulerAssumption
<1>1. CASE (\E d \in 1 .. MaxSleep : sys_sleep_ms(t, d)) \/ (\E d \in 1 .. NoWake : EventWait(t, d))
  <2>1. Quiet
    BY <1>1 DEF sys_sleep_ms, EventWait, InUserMode, Block, TypeOK, Quiet
  <2> QED BY <2>1, QuietWaits
<1>2. CASE WaitReturn(t) \/ sys_exec(t)
  <2>1. Quiet
    BY <1>2 DEF WaitReturn, sys_exec, TypeOK, Quiet
  <2> QED BY <2>1, QuietWaits
<1>3. ASSUME NEW c, WaitTry(t, c), UNCHANGED <<parent, idleVars>>
      PROVE  WaitStep
  <2>1. CASE c \in Existing \ {Idle} /\ parent[c] = t /\ status[c] = "Exited"
             /\ status' = [status EXCEPT ![c] = "Reaped"]
             /\ at' = [at EXCEPT ![t] = "user"] /\ wchild' = [wchild EXCEPT ![t] = NoTask]
    <3>1. c \in Task /\ c # t
      BY <2>1 DEF Existing, Table
    <3>2. \A v \in Task : /\ status'[v] = IF v = c THEN "Reaped" ELSE status[v]
                          /\ at'[v] = IF v = t THEN "user" ELSE at[v]
                          /\ wchild'[v] = IF v = t THEN NoTask ELSE wchild[v]
      BY <2>1, <3>1 DEF TypeOK
    <3> QED BY <1>3, <2>1, <3>1, <3>2 DEF WaitStep, Existing
  <2>2. CASE at' = [at EXCEPT ![t] = "user"] /\ wchild' = [wchild EXCEPT ![t] = NoTask] /\ UNCHANGED status
    BY <1>3, <2>2 DEF TypeOK, WaitStep, Existing
  <2>3. CASE c \in Existing \ {Idle} /\ parent[c] = t /\ status[c] \notin Dead
             /\ Block(t, NoWake, "waitpid")
             /\ wchild' = [wchild EXCEPT ![t] = IF pending[t] = NoSignal THEN c ELSE NoTask]
    <3>1. c \in Task /\ c # t
      BY <2>3 DEF Existing, Table
    <3>2. \A v \in Task : /\ status'[v] = IF v = t THEN "Blocked" ELSE status[v]
                          /\ v # t => at'[v] = at[v] /\ wchild'[v] = wchild[v]
      BY <2>3 DEF TypeOK, Block
    <3>3. at'[t] = "waitpid" => wchild'[t] = c
      BY <2>3 DEF TypeOK, Block
    <3> QED BY <1>3, <2>3, <3>1, <3>2, <3>3 DEF WaitStep, Existing
  <2> QED BY <1>3, <2>1, <2>2, <2>3 DEF WaitTry
<1>4. CASE \E c \in Task : sys_waitpid(t, c)
  BY <1>3, <1>4 DEF sys_waitpid
<1>5. CASE WaitpidLoop(t)
  <2>1. CASE at' = [at EXCEPT ![t] = "user"] /\ wchild' = [wchild EXCEPT ![t] = NoTask] /\ UNCHANGED status
    BY <1>5, <2>1 DEF WaitpidLoop, TypeOK, WaitStep, Existing
  <2> QED BY <1>3, <1>5, <2>1 DEF WaitpidLoop
<1>6. ASSUME NEW u \in Existing, NEW mark \in {"Exited", "Reaped"},
             status' = Unblocked({parent[u]}, [status EXCEPT ![u] = mark]), UNCHANGED <<parent, wchild, idleVars>>,
             \A v \in Task : at'[v] = "waitpid" => at[v] = "waitpid"
      PROVE  WaitStep
  <2>1. \A v \in Task : status'[v] =
          IF v = u THEN mark
          ELSE IF v = parent[u] /\ status[v] = "Blocked" THEN "Ready" ELSE status[v]
    BY Zenon, <1>6, EndStatus DEF Existing
  <2>2. status[u] # "Free" /\ u \in Task /\ parent[u] # u
    BY <1>6 DEF Existing, Table
  <2> QED BY Zenon, <1>6, <2>1, <2>2 DEF WaitStep, Existing
<1>7. CASE sys_exit(t) \/ fault_current(t)
  BY Zenon, <1>6, <1>7 DEF sys_exit, exit_current, fault_current, Exit, InUserMode, Table, TypeOK
<1>8. CASE \E u \in Task, sig \in Signal : sys_signal(t, u, sig)
  <2>1. PICK u \in Task, sig \in Signal : sys_signal(t, u, sig)
    BY <1>8
  <2>2. CASE Deliver(u, sig)
    <3>1. /\ \A v \in Task \ {u} : status'[v] = status[v]
          /\ u \in Existing \ {Idle} /\ status[u] \notin Dead
          /\ status'[u] \in {status[u], "Ready", "Stopped"}
      BY <2>2, DeliverStatus
    <3>2. Quiet
      BY <2>2, <3>1 DEF Deliver, Quiet, Existing
    <3> QED BY <3>2, QuietWaits
  <2>3. CASE kill_task(t, u)
    BY Zenon, <1>6, <2>3 DEF kill_task, Killable, Exit
  <2>4. CASE InUserMode(t) /\ exit_current(t, "user")
    BY Zenon, <1>6, <2>4 DEF exit_current, Exit, InUserMode, Table, TypeOK
  <2> QED BY <2>1, <2>2, <2>3, <2>4 DEF sys_signal
<1>9. CASE sys_spawn(t) \/ sys_thread_spawn(t)
  BY <1>9, WaitPush DEF sys_spawn, sys_thread_spawn
<1>10. CASE \E u \in Task : OomBySyscall(t, u)
  BY Zenon, <1>6, <1>10 DEF OomBySyscall, OomVictim
<1> QED BY <1>1, <1>2, <1>4, <1>5, <1>7, <1>8, <1>9, <1>10 DEF UserStep

\* The critical sections of task 0 respect waiting parents.
LEMMA WaitIdle == ASSUME TypeOK, Table, IdleStep PROVE WaitStep
<1> USE SchedulerAssumption
<1>1. CASE (\E t \in Task : IKillCheck(t)) \/ ICleanup \/ IFree \/ ISpawnLoad
  <2>1. Quiet
    BY <1>1 DEF IKillCheck, ICleanup, IFree, ISpawnLoad, IdleAt, Quiet
  <2> QED BY <2>1, QuietWaits
<1>2. ASSUME NEW u \in Existing, NEW mark \in {"Exited", "Reaped"}, status' = [status EXCEPT ![u] = mark],
             ipc # "wake", ipc' = "wake", itask' = u, UNCHANGED <<parent, wchild, at>>
      PROVE  WaitStep
  <2>1. \A v \in Task : status'[v] = IF v = u THEN mark ELSE status[v]
    BY <1>2 DEF TypeOK
  <2> QED BY <1>2, <2>1 DEF WaitStep, Existing
<1>3. CASE IKillCommit
  BY Zenon, <1>2, <1>3 DEF IKillCommit, IdleAt, Table
<1>4. CASE \E t \in Task : IKill(t)
  BY Zenon, <1>2, <1>4 DEF IKill, IdleAt, Killable
<1>5. CASE \E t \in Task : IOomReap(t)
  BY Zenon, <1>2, <1>5 DEF IOomReap, IdleAt, OomVictim
<1>6. CASE IWakeParent
  <2>1. \A v \in Task : status'[v] = IF v = parent[itask] /\ status[v] = "Blocked" THEN "Ready" ELSE status[v]
    BY <1>6 DEF IWakeParent, Unblocked
  <2> QED BY Zenon, <1>6, <2>1 DEF IWakeParent, WaitStep, Existing
<1>7. CASE ISpawnStart
  <2>1. Quiet
    BY <1>7 DEF ISpawnStart, Unblocked, IdleAt, Quiet
  <2> QED BY <2>1, QuietWaits
<1>8. CASE \E t \in Task, sig \in Signal \ {"Term", "Int"} : ISignal(t, sig)
  <2>1. PICK t \in Task, sig \in Signal : Deliver(t, sig)
    BY <1>8 DEF ISignal
  <2>2. /\ \A v \in Task \ {t} : status'[v] = status[v]
        /\ t \in Existing \ {Idle} /\ status[t] \notin Dead
        /\ status'[t] \in {status[t], "Ready", "Stopped"}
    BY <2>1, DeliverStatus
  <2>3. Quiet
    BY <2>1, <2>2 DEF Deliver, Quiet, Existing
  <2> QED BY <2>3, QuietWaits
<1>9. CASE (\E c \in Task : IWaitpid(c)) \/ reap_all_exited
  <2>1. Quiet
    BY <1>9 DEF IWaitpid, reap_all_exited, IdleAt, TypeOK, Existing, Quiet
  <2> QED BY <2>1, QuietWaits
<1>10. CASE ISpawnPush
  <2>1. ipc = "spawn" /\ UNCHANGED <<at, wchild>>
    BY <1>10 DEF ISpawnPush, IdleAt
  <2>2. CASE UNCHANGED <<status, parent>>
    <3>1. Quiet
      BY <2>1, <2>2 DEF Quiet
    <3> QED BY <3>1, QuietWaits
  <2> QED BY <1>10, <2>1, <2>2, WaitPush DEF ISpawnPush
<1> QED BY <1>1, <1>3, <1>4, <1>5, <1>6, <1>7, <1>8, <1>9, <1>10 DEF IdleStep

\* sys_waitpid() loses no wake-up, whoever ends the child (exit, fault, a signal,
\* the terminal, memory pressure) and whenever: a parent is blocked on a dead child
\* only while task 0 is between marking the child and wake_waiting_parent().
THEOREM ParentsAreWoken == Spec => []NoLostChildWake
<1>1. Init => WaitsForChild /\ NoLostChildWake
  BY DEF Init, WaitsForChild, NoLostChildWake
<1>2. TypeOK /\ Table /\ WaitsForChild /\ NoLostChildWake /\ [Next]_vars => WaitsForChild' /\ NoLostChildWake'
  <2> SUFFICES ASSUME TypeOK, Table, WaitsForChild, NoLostChildWake, [Next]_vars
               PROVE  WaitsForChild' /\ NoLostChildWake'
    OBVIOUS
  <2>1. CASE schedule
    BY <2>1, WaitSchedule, QuietWaits, WaitInductive
  <2>2. CASE TickLocked \/ UNCHANGED vars \/ \E t \in Task : EventWake(t)
    <3>1. Quiet
      BY Zenon, <2>2 DEF TickLocked, vars, EventWake, Unblocked, Quiet
    <3> QED BY <3>1, QuietWaits, WaitInductive
  <2>3. CASE \E t \in Task : UserStep(t)
    BY <2>3, WaitUser, WaitInductive
  <2>4. CASE IdleStep
    BY <2>4, WaitIdle, WaitInductive
  <2> QED BY <2>1, <2>2, <2>3, <2>4 DEF Next
<1> QED BY <1>1, <1>2, TableInvariant, PTL DEF Spec
-----------------------------------------------------------------------------
(* Deaths.  What the end of a task leaves to be done is done by the caller in *)
(* the same step, or task 0 is on its way to it.                              *)
DeadAreClean ==
    \A t \in Task : status[t] \in Dead /\ t \in res => itask = t /\ ipc \in {"wake", "cleanup"}

\* What a step does to the resources of tasks: a dead task that still owns some was
\* dead before, or task 0 is on its way to clean it up; and task 0 does not turn back.
CleanStep ==
    /\ \A t \in Task : status'[t] \in Dead /\ t \in res' =>
         \/ status[t] \in Dead /\ t \in res
         \/ itask' = t /\ ipc' \in {"wake", "cleanup"}
    /\ ipc \in {"wake", "cleanup"} =>
         \/ itask' = itask /\ ipc' \in {"wake", "cleanup"}
         \/ itask \notin res'

\* Such steps keep the dead clean.
LEMMA CleanInductive == ASSUME DeadAreClean, CleanStep PROVE DeadAreClean'
BY DEF DeadAreClean, CleanStep

\* A task that is pushed is alive.
LEMMA CleanPush ==
  ASSUME TypeOK, Table, NEW p, NEW st \in {"Ready", "Blocked"}, Push(p, st),
         ipc \notin {"wake", "cleanup"} \/ UNCHANGED <<ipc, itask>>
  PROVE  CleanStep
<1>1. ntasks \in Task
  BY SchedulerAssumption DEF Push, TypeOK
<1>2. \A t \in Task : status'[t] = IF t = ntasks THEN st ELSE status[t]
  BY <1>1 DEF Push, TypeOK
<1> QED BY <1>1, <1>2 DEF Push, CleanStep

\* The system calls clean up after the tasks they end.
LEMMA CleanUser == ASSUME TypeOK, Table, NEW t \in Task, UserStep(t) PROVE CleanStep
<1> USE SchedulerAssumption
<1>1. CASE (\E d \in 1 .. MaxSleep : sys_sleep_ms(t, d)) \/ (\E d \in 1 .. NoWake : EventWait(t, d))
  BY <1>1 DEF sys_sleep_ms, EventWait, Block, TypeOK, CleanStep
<1>2. CASE WaitReturn(t) \/ sys_exec(t)
  BY Zenon, <1>2 DEF WaitReturn, sys_exec, CleanStep
<1>3. ASSUME NEW c, WaitTry(t, c), UNCHANGED <<res, idleVars>>
      PROVE  CleanStep
  BY <1>3, WaitTryStatus DEF CleanStep
<1>4. CASE \E c \in Task : sys_waitpid(t, c)
  BY <1>3, <1>4 DEF sys_waitpid
<1>5. CASE WaitpidLoop(t)
  <2>1. CASE UNCHANGED status
    BY <1>5, <2>1 DEF WaitpidLoop, CleanStep
  <2> QED BY <1>3, <1>5, <2>1 DEF WaitpidLoop
<1>6. ASSUME NEW u \in Task, NEW mark \in {"Exited", "Reaped"},
             status' = Unblocked({parent[u]}, [status EXCEPT ![u] = mark]), UNCHANGED idleVars, res' = res \ {u}
      PROVE  CleanStep
  <2>1. \A v \in Task : status'[v] =
          IF v = u THEN mark
          ELSE IF v = parent[u] /\ status[v] = "Blocked" THEN "Ready" ELSE status[v]
    BY Zenon, <1>6, EndStatus
  <2> QED BY Zenon, <1>6, <2>1 DEF CleanStep
<1>7. CASE sys_exit(t) \/ fault_current(t)
  BY Zenon, <1>6, <1>7 DEF sys_exit, exit_current, fault_current, Exit
<1>8. CASE \E u \in Task, sig \in Signal : sys_signal(t, u, sig)
  <2>1. PICK u \in Task, sig \in Signal : sys_signal(t, u, sig)
    BY <1>8
  <2>2. CASE Deliver(u, sig)
    <3>1. /\ \A v \in Task \ {u} : status'[v] = status[v]
          /\ status[u] \notin Dead /\ status'[u] \in {status[u], "Ready", "Stopped"}
      BY <2>2, DeliverStatus
    <3> QED BY <2>2, <3>1 DEF Deliver, CleanStep
  <2>3. CASE kill_task(t, u) \/ exit_current(t, "user")
    BY Zenon, <1>6, <2>3 DEF kill_task, exit_current, Exit
  <2> QED BY <2>1, <2>2, <2>3 DEF sys_signal
<1>9. CASE sys_spawn(t) \/ sys_thread_spawn(t)
  BY <1>9, CleanPush DEF sys_spawn, sys_thread_spawn
<1>10. CASE \E u \in Task : OomBySyscall(t, u)
  BY Zenon, <1>6, <1>10 DEF OomBySyscall
<1> QED BY <1>1, <1>2, <1>4, <1>5, <1>7, <1>8, <1>9, <1>10 DEF UserStep

\* The critical sections of task 0 lead to the cleanup.
LEMMA CleanIdle == ASSUME TypeOK, Table, IdleStep PROVE CleanStep
<1> USE SchedulerAssumption
<1>1. CASE (\E t \in Task : IKillCheck(t)) \/ ICleanup \/ IFree \/ ISpawnLoad
  BY <1>1 DEF IKillCheck, ICleanup, IFree, ISpawnLoad, IdleAt, CleanStep
<1>2. CASE IKillCommit \/ (\E t \in Task : IKill(t)) \/ (\E t \in Task : IOomReap(t))
  BY <1>2 DEF IKillCommit, IKill, IOomReap, IdleAt, CleanStep, TypeOK
<1>3. CASE IWakeParent \/ ISpawnStart
  BY <1>3 DEF IWakeParent, ISpawnStart, Unblocked, IdleAt, CleanStep
<1>4. CASE \E t \in Task, sig \in Signal \ {"Term", "Int"} : ISignal(t, sig)
  <2>1. PICK t \in Task, sig \in Signal : Deliver(t, sig)
    BY <1>4 DEF ISignal
  <2>2. /\ \A v \in Task \ {t} : status'[v] = status[v]
        /\ status[t] \notin Dead /\ status'[t] \in {status[t], "Ready", "Stopped"}
    BY <2>1, DeliverStatus
  <2> QED BY <2>1, <2>2 DEF Deliver, CleanStep
<1>5. CASE (\E c \in Task : IWaitpid(c)) \/ reap_all_exited
  BY <1>5 DEF IWaitpid, reap_all_exited, IdleAt, TypeOK, CleanStep
<1>6. CASE ISpawnPush
  <2>1. ipc = "spawn"
    BY <1>6 DEF ISpawnPush, IdleAt
  <2>2. CASE UNCHANGED <<status, res>>
    BY <2>1, <2>2 DEF CleanStep
  <2> QED BY <1>6, <2>1, <2>2, CleanPush DEF ISpawnPush
<1> QED BY <1>1, <1>2, <1>3, <1>4, <1>5, <1>6 DEF IdleStep

\* schedule() ends no task.
LEMMA CleanSchedule == ASSUME TypeOK, Table, schedule PROVE CleanStep
<1>1. UNCHANGED <<res, ipc, itask>>
  BY DEF schedule
<1>2. \A t \in Task : status'[t] \in Dead => status[t] \in Dead
  BY WaitSchedule DEF Quiet
<1> QED BY <1>1, <1>2 DEF CleanStep

\* cleanup_task_resources() reaches every dead task: the entries of the fd, futex and
\* socket tables outlive a task only while task 0 is on its way to release them.
LEMMA DeadAreCleanedUp == Spec => []DeadAreClean
<1>1. Init => DeadAreClean
  BY DEF Init, DeadAreClean
<1>2. TypeOK /\ Table /\ DeadAreClean /\ [Next]_vars => DeadAreClean'
  <2> SUFFICES ASSUME TypeOK, Table, DeadAreClean, [Next]_vars PROVE DeadAreClean'
    OBVIOUS
  <2>1. CASE schedule
    BY <2>1, CleanSchedule, CleanInductive
  <2>2. CASE TickLocked \/ UNCHANGED vars \/ \E t \in Task : EventWake(t)
    <3>1. CleanStep
      BY Zenon, <2>2 DEF TickLocked, vars, EventWake, Unblocked, CleanStep
    <3> QED BY <3>1, CleanInductive
  <2>3. CASE \E t \in Task : UserStep(t)
    BY <2>3, CleanUser, CleanInductive
  <2>4. CASE IdleStep
    BY <2>4, CleanIdle, CleanInductive
  <2> QED BY <2>1, <2>2, <2>3, <2>4 DEF Next
<1> QED BY <1>1, <1>2, TableInvariant, PTL DEF Spec

\* The signals of a task that does not signal itself.
Unsignalled == pending[current] = NoSignal

\* Signals go to other tasks than the one on the CPU, and schedule() takes them.
LEMMA UnsignalledNext ==
  ASSUME "selfsignal" \notin UserOps, TypeOK, Unsignalled, [Next]_vars
  PROVE  Unsignalled'
<1> USE SchedulerAssumption DEF Unsignalled
<1>1. CASE schedule
  BY <1>1 DEF schedule, TakenSignals, Existing
<1>2. ASSUME NEW u \in Task, NEW sig, Deliver(u, sig), u # current PROVE Unsignalled'
  BY <1>2 DEF Deliver, TypeOK
<1>3. CASE \E t \in Task, sig \in Signal \ {"Term", "Int"} : ISignal(t, sig)
  BY Zenon, <1>2, <1>3 DEF ISignal, IdleAt, Deliver, Killable
<1>4. ASSUME NEW t \in Task, \E u \in Task, sig \in Signal : sys_signal(t, u, sig) PROVE Unsignalled'
  <2>1. PICK u \in Task, sig \in Signal : sys_signal(t, u, sig)
    BY <1>4
  <2>2. t = current /\ u # t
    BY <2>1 DEF sys_signal, InUserMode
  <2> QED BY <1>2, <2>1, <2>2 DEF sys_signal, kill_task
<1>5. ASSUME UNCHANGED <<pending, current>> PROVE Unsignalled'
  BY <1>5
<1>6. CASE \E t \in Task : UserStep(t)
  BY Zenon, <1>4, <1>5, <1>6 DEF UserStep, sys_sleep_ms, EventWait, WaitReturn, sys_waitpid, WaitpidLoop, sys_exit,
     exit_current, fault_current, sys_spawn, sys_thread_spawn, sys_exec, OomBySyscall
<1>7. CASE IdleStep
  BY Zenon, <1>3, <1>5, <1>7 DEF IdleStep, IKillCheck, IKillCommit, IKill, IOomReap, IWakeParent, ICleanup, IFree,
     IWaitpid, reap_all_exited, ISpawnLoad, ISpawnPush, ISpawnStart
<1> QED BY Zenon, <1>1, <1>5, <1>6, <1>7 DEF Next, TickLocked, EventWake, vars

\* Deaths and signals are not left half-done: every dead task is cleaned up or about to
\* be, and a task that does not signal itself never sees a signal pending, so that the
\* "interrupted" exits of the wait loops are not taken for another task's signal.
THEOREM DeathsAreSettled == ASSUME "selfsignal" \notin UserOps PROVE Spec => []Settled
<1>1. Init => Unsignalled
  BY SchedulerAssumption DEF Init, Unsignalled
<1>2. TypeOK /\ Unsignalled /\ [Next]_vars => Unsignalled'
  BY UnsignalledNext
<1>3. DeadAreClean /\ Unsignalled => Settled
  BY DEF DeadAreClean, Unsignalled, Settled
<1> QED BY <1>1, <1>2, <1>3, TypeCorrect, DeadAreCleanedUp, PTL DEF Spec
-----------------------------------------------------------------------------
(* The life of a task.  The task on the CPU is not stopped, and when it has   *)
(* exited it makes no further call.                                           *)
OnCpu == status[current] # "Stopped" /\ (status[current] = "Exited" => at[current] = "spin")

Lived(t) ==
    /\ status[t] = "Exited" => status'[t] \in Dead
    /\ status[t] = "Stopped" /\ status'[t] \notin Dead \cup {"Stopped"} => Deliver(t, "Continue")

\* A signal that is not fatal brings nobody back but with CONT.
LEMMA LifeDeliver ==
  ASSUME TypeOK, NEW u \in Task, NEW sig, Deliver(u, sig)
  PROVE  \A v \in Task : Lived(v)
<1>1. \A v \in Task \ {u} : status'[v] = status[v]
  BY DeliverStatus
<1>2. \A v \in Task \ {u} : Lived(v)
  BY <1>1 DEF Lived
<1>3. CASE sig = "Continue"
  BY <1>2, <1>3 DEF Lived, Deliver, Killable
<1>4. CASE sig # "Continue"
  <2>1. status[u] \notin Dead /\ (status'[u] \in {status[u], "Stopped"} \/ status[u] # "Stopped")
    BY Zenon, <1>4 DEF Deliver, Killable, Unblocked, TypeOK
  <2> QED BY <1>2, <2>1 DEF Lived
<1> QED BY <1>3, <1>4

\* The system calls bring no task back.
LEMMA LifeUser ==
  ASSUME "selfsignal" \notin UserOps, TypeOK, Table, OnCpu, NEW t \in Task, UserStep(t)
  PROVE  OnCpu' /\ \A v \in Task : Lived(v)
<1> USE SchedulerAssumption
<1>1. ASSUME InUserMode(t) \/ WaitReturn(t) \/ WaitpidLoop(t)
      PROVE  t = current /\ t # Idle /\ status[t] \notin {"Stopped", "Exited", "Free", "Reaped"}
  BY <1>1 DEF OnCpu, Table, TypeOK, Existing, InUserMode, WaitReturn, WaitpidLoop
<1>2. CASE (\E d \in 1 .. MaxSleep : sys_sleep_ms(t, d)) \/ (\E d \in 1 .. NoWake : EventWait(t, d))
  <2>1. /\ t = current /\ UNCHANGED current
        /\ status[t] \notin {"Stopped", "Exited"}
        /\ \A v \in Task : status'[v] = IF v = t THEN "Blocked" ELSE status[v]
    BY <1>1, <1>2 DEF sys_sleep_ms, EventWait, Block, TypeOK
  <2> QED BY <2>1 DEF OnCpu, Lived, TypeOK
<1>3. CASE WaitReturn(t)
  BY <1>1, <1>3 DEF WaitReturn, OnCpu, Lived
<1>4. CASE sys_exec(t)
  BY <1>4 DEF sys_exec, OnCpu, Lived
<1>5. ASSUME NEW c, WaitTry(t, c), UNCHANGED current, t = current, status[t] \notin {"Stopped", "Exited"}
      PROVE  OnCpu' /\ \A v \in Task : Lived(v)
  <2>1. \/ UNCHANGED status
        \/ \A v \in Task : status'[v] = IF v = t THEN "Blocked" ELSE status[v]
        \/ /\ c \in Existing \ {Idle, t} /\ status[c] = "Exited"
           /\ \A v \in Task : status'[v] = IF v = c THEN "Reaped" ELSE status[v]
    BY <1>5, WaitTryStatus
  <2>2. \A v \in Task : Lived(v)
    BY <1>5, <2>1 DEF Lived
  <2>3. OnCpu'
    BY <1>5, <2>1 DEF OnCpu
  <2> QED BY <2>2, <2>3
<1>6. CASE \E c \in Task : sys_waitpid(t, c)
  BY <1>1, <1>5, <1>6 DEF sys_waitpid
<1>7. CASE WaitpidLoop(t)
  <2>1. CASE UNCHANGED status
    BY <1>1, <1>7, <2>1 DEF WaitpidLoop, OnCpu, Lived
  <2> QED BY <1>1, <1>5, <1>7, <2>1 DEF WaitpidLoop
<1>8. ASSUME NEW u \in Task, NEW mark \in {"Exited", "Reaped"}, status[u] # "Exited",
             status' = Unblocked({parent[u]}, [status EXCEPT ![u] = mark]), UNCHANGED current,
             \/ u # current /\ UNCHANGED at
             \/ u = current /\ mark = "Exited" /\ at'[u] = "spin"
      PROVE  OnCpu' /\ \A v \in Task : Lived(v)
  <2>1. \A v \in Task : status'[v] =
          IF v = u THEN mark
          ELSE IF v = parent[u] /\ status[v] = "Blocked" THEN "Ready" ELSE status[v]
    BY Zenon, <1>8, EndStatus
  <2>2. \A v \in Task : Lived(v)
    BY Zenon, <1>8, <2>1 DEF Lived
  <2>3. OnCpu'
    BY Zenon, <1>8, <2>1 DEF OnCpu, TypeOK
  <2> QED BY <2>2, <2>3
<1>9. CASE sys_exit(t) \/ fault_current(t)
  BY Zenon, <1>1, <1>8, <1>9 DEF sys_exit, exit_current, fault_current, Exit, TypeOK
<1>10. CASE \E u \in Task, sig \in Signal : sys_signal(t, u, sig)
  <2>1. PICK u \in Task, sig \in Signal : sys_signal(t, u, sig)
    BY <1>10
  <2>2. t = current /\ u # t
    BY <2>1 DEF sys_signal, InUserMode
  <2>3. CASE Deliver(u, sig)
    <3>1. \A v \in Task \ {u} : status'[v] = status[v]
      BY <2>3, DeliverStatus
    <3>2. UNCHANGED <<current, at>>
      BY <2>3 DEF Deliver
    <3> QED BY <2>2, <2>3, <3>1, <3>2, LifeDeliver DEF OnCpu
  <2>4. CASE kill_task(t, u)
    <3>1. /\ status[u] # "Exited" /\ UNCHANGED <<current, at>>
          /\ status' = Unblocked({parent[u]}, [status EXCEPT ![u] = "Exited"])
      BY <2>4 DEF kill_task, Exit, Killable
    <3> QED BY Zenon, <1>8, <2>2, <3>1
  <2> QED BY <2>1, <2>2, <2>3, <2>4 DEF sys_signal
<1>11. CASE sys_spawn(t) \/ sys_thread_spawn(t)
  <2>1. PICK p : Push(p, "Ready") /\ UNCHANGED <<current, at>>
    BY <1>11 DEF sys_spawn, sys_thread_spawn
  <2>2. ntasks \in Task /\ status[ntasks] = "Free"
    BY <2>1 DEF Push, TypeOK, Table
  <2>3. \A v \in Task : status'[v] = IF v = ntasks THEN "Ready" ELSE status[v]
    BY <2>1, <2>2 DEF Push, TypeOK
  <2> QED BY <2>1, <2>2, <2>3 DEF OnCpu, Lived, TypeOK
<1>12. CASE \E u \in Task : OomBySyscall(t, u)
  <2>1. PICK u \in Task : OomBySyscall(t, u)
    BY <1>12
  <2>2. /\ status[u] # "Exited" /\ u # current /\ UNCHANGED <<current, at>>
        /\ status' = Unblocked({parent[u]}, [status EXCEPT ![u] = "Reaped"])
    BY <2>1 DEF OomBySyscall, OomVictim
  <2> QED BY Zenon, <1>8, <2>2
<1> QED BY <1>2, <1>3, <1>4, <1>6, <1>7, <1>9, <1>10, <1>11, <1>12 DEF UserStep

\* The critical sections of task 0 bring no task back.
LEMMA LifeIdle ==
  ASSUME TypeOK, Table, Table', IdleStep
  PROVE  OnCpu' /\ \A v \in Task : Lived(v)
<1> USE SchedulerAssumption
<1>1. current' = Idle
  BY Zenon DEF IdleStep, IKillCheck, IKillCommit, IKill, IOomReap, IWakeParent, ICleanup, IFree, ISignal, Deliver,
         IWaitpid, reap_all_exited, ISpawnLoad, ISpawnPush, ISpawnStart, IdleAt
<1>2. OnCpu'
  BY <1>1 DEF OnCpu, Table, RunningIsCurrent
<1>3. CASE (\E t \in Task : IKillCheck(t)) \/ ICleanup \/ IFree \/ ISpawnLoad
  BY <1>2, <1>3 DEF IKillCheck, ICleanup, IFree, ISpawnLoad, Lived
<1>4. CASE IKillCommit \/ (\E t \in Task : IKill(t)) \/ (\E t \in Task : IOomReap(t))
  BY <1>2, <1>4 DEF IKillCommit, IKill, IOomReap, Lived, TypeOK
<1>5. CASE IWakeParent \/ ISpawnStart
  BY <1>2, <1>5 DEF IWakeParent, ISpawnStart, Unblocked, Lived
<1>6. CASE \E t \in Task, sig \in Signal \ {"Term", "Int"} : ISignal(t, sig)
  BY <1>2, <1>6, LifeDeliver DEF ISignal
<1>7. CASE (\E c \in Task : IWaitpid(c)) \/ reap_all_exited
  BY <1>2, <1>7 DEF IWaitpid, reap_all_exited, TypeOK, Lived
<1>8. CASE ISpawnPush
  <2>1. CASE UNCHANGED status
    BY <1>2, <2>1 DEF Lived
  <2>2. ASSUME NEW p, Push(p, "Blocked") PROVE \A v \in Task : Lived(v)
    <3>1. ntasks \in Task /\ status[ntasks] = "Free"
      BY <2>2 DEF Push, TypeOK, Table
    <3>2. \A v \in Task : status'[v] = IF v = ntasks THEN "Blocked" ELSE status[v]
      BY <2>2, <3>1 DEF Push, TypeOK
    <3> QED BY <3>1, <3>2 DEF Lived
  <2> QED BY <1>2, <1>8, <2>1, <2>2 DEF ISpawnPush
<1> QED BY <1>2, <1>3, <1>4, <1>5, <1>6, <1>7, <1>8 DEF IdleStep

\* schedule() picks a ready task and leaves zombies and stopped tasks alone.
LEMMA LifeSchedule == ASSUME TypeOK, Table, schedule PROVE OnCpu' /\ \A v \in Task : Lived(v)
<1> USE SchedulerAssumption
<1> DEFINE swept == [t \in Task |-> IF t \in Existing THEN SweptStatus(t) ELSE status[t]]
<1>1. PICK next \in Existing :
        /\ IsNext(next, swept) /\ status' = [swept EXCEPT ![next] = "Running"] /\ current' = next
  BY Zenon DEF schedule
<1>2. \A t \in Task : status[t] \in {"Exited", "Stopped"} => swept[t] = status[t]
  BY DEF SweptStatus, Existing, TypeOK
<1>3. swept \in [Task -> TaskStatus \cup {"Free"}]
  BY DEF SweptStatus, TypeOK, Existing
<1>4. current' \in Task /\ status'[current'] = "Running" /\ status[current'] \in Schedulable
  BY StackSchedule
<1>5. swept[Idle] = "Ready" /\ Idle \in Existing
  <2>1. Idle \in Task /\ Idle \in Existing
    BY DEF TypeOK, Table, RunningIsCurrent, Existing
  <2>2. CASE status[Idle] = "Running"
    BY <2>1, <2>2 DEF SweptStatus, TypeOK, Table, RunningIsCurrent
  <2>3. CASE status[Idle] = "Ready"
    BY <2>1, <2>3 DEF SweptStatus, TypeOK
  <2> QED BY <2>1, <2>2, <2>3 DEF Table, RunningIsCurrent
<1> HIDE DEF swept
<1>6. swept[next] = "Ready" /\ next \in Task
  BY <1>1, <1>5 DEF IsNext, Existing
<1>7. \A t \in Task : status'[t] = IF t = next THEN "Running" ELSE swept[t]
  BY <1>1, <1>3
<1> QED BY <1>2, <1>4, <1>6, <1>7 DEF OnCpu, Lived

\* An exited task stays a zombie until it is reaped, and a stopped one runs again only
\* when CONT is sent to it, whatever blocks, wakes, signals or reclaims it in between.
THEOREM LivesAreOrdered == ASSUME "selfsignal" \notin UserOps PROVE Spec => LifecycleOrder
<1>1. Init => OnCpu
  BY SchedulerAssumption DEF Init, OnCpu
<1>2. TypeOK /\ Table /\ Table' /\ OnCpu /\ [Next]_vars => OnCpu' /\ [\A t \in Task : Lived(t)]_vars
  <2> SUFFICES ASSUME TypeOK, Table, Table', OnCpu, [Next]_vars
               PROVE  OnCpu' /\ [\A t \in Task : Lived(t)]_vars
    OBVIOUS
  <2>1. CASE schedule
    BY <2>1, LifeSchedule
  <2>2. CASE TickLocked \/ \E t \in Task : EventWake(t)
    <3>1. \A v \in Task : status'[v] = IF status[v] = "Blocked" THEN status'[v] ELSE status[v]
      BY Zenon, <2>2 DEF TickLocked, EventWake, Unblocked
    <3>2. UNCHANGED <<current, at>> /\ (status[current] = "Blocked" => status'[current] \in {"Blocked", "Ready"})
      BY Zenon, <2>2 DEF TickLocked, EventWake, Unblocked, TypeOK
    <3> QED BY <3>1, <3>2 DEF OnCpu, Lived, TypeOK
  <2>3. CASE \E t \in Task : UserStep(t)
    BY <2>3, LifeUser
  <2>4. CASE IdleStep
    BY <2>4, LifeIdle
  <2>5. CASE UNCHANGED vars
    BY <2>5 DEF vars, OnCpu
  <2> QED BY <2>1, <2>2, <2>3, <2>4, <2>5 DEF Next
<1>3. LifecycleOrder <=> [][\A t \in Task : Lived(t)]_vars
  BY DEF LifecycleOrder, Lived
<1> QED BY <1>1, <1>2, <1>3, TableInvariant, PTL DEF Spec
-----------------------------------------------------------------------------
\* Tasks that have no address space.
Gone == {"Free", "Reaped"}

(* Address spaces.  Every PML4 has its users or is in the hands of task 0, *)
(* never both.                                                                *)
SpacesInv ==
    /\ cr3 = pml4[current] /\ pml4[Idle] = NoSpace
    /\ \A t \in Task : status[t] \notin Gone => pml4[t] \notin ifree /\ (pml4[t] # NoSpace => pml4[t] \in spaces)
    /\ ifree \subseteq spaces
    /\ \A p \in spaces : p \in ifree \/ \E t \in Task : pml4[t] = p /\ status[t] \notin Gone
    /\ ipc # "kill"
    /\ ipc \in {"loop", "start"} => ifree = {}
    /\ ipc = "spawn" => \E p \in Space : ifree = {p}

USE DEF Gone

\* Task 0 goes on with empty hands, or with what it holds.
SpaceIdle ==
    /\ ipc' # "kill"
    /\ ipc' \in {"loop", "start"} => ifree' = {}
    /\ ipc' = "spawn" => \E p \in Space : ifree' = {p}

\* Steps that change no address space and neither create nor reap a task.
LEMMA SpaceKeep ==
  ASSUME TypeOK, SpacesInv, UNCHANGED <<cr3, current, pml4, spaces, ifree>>, SpaceIdle,
         \A t \in Task : status'[t] \in Gone <=> status[t] \in Gone
  PROVE  SpacesInv'
<1>1. \A p \in spaces' : p \in ifree' \/ \E t \in Task : pml4'[t] = p /\ status'[t] \notin Gone
  <2> TAKE p \in spaces'
  <2>1. p \in ifree \/ \E t \in Task : pml4[t] = p /\ status[t] \notin Gone
    BY DEF SpacesInv
  <2> QED BY <2>1
<1> QED BY <1>1 DEF SpacesInv, SpaceIdle

\* take_reap_pml4_locked() followed by free_address_space(), at once or by task 0 later.
LEMMA SpaceReap ==
  ASSUME TypeOK, Table, SpacesInv, NEW c \in Task \ {Idle}, c # current, status[c] \notin Gone,
         UNCHANGED <<cr3, current>>, pml4' = ReapPml4(c),
         \A t \in Task : status'[t] \in Gone <=> t = c \/ status[t] \in Gone,
         \/ spaces' = free_address_space(ReapFrees(c), spaces, cr3) /\ UNCHANGED <<ifree, ipc>>
         \/ UNCHANGED spaces /\ ifree = {} /\ ifree' = ReapFrees(c) /\ ipc' \in {"wake", "free"}
  PROVE  SpacesInv'
<1> USE SchedulerAssumption
<1> DEFINE p == pml4[c]
<1>1. current \in Task /\ status[current] \notin Gone
  BY DEF Table, TypeOK, Existing
<1>2. still_live(c) <=> \E u \in Task \ {c} : pml4[u] = p /\ status[u] \notin Gone
  BY DEF still_live, Existing
<1>3. \A t \in Task : pml4'[t] = IF t = c /\ ~still_live(c) THEN NoSpace ELSE pml4[t]
  BY DEF ReapPml4, TypeOK
<1>4. CASE p = NoSpace \/ still_live(c)
  <2>1. ReapFrees(c) = {}
    BY <1>4 DEF ReapFrees
  <2>2. UNCHANGED <<spaces, ifree>>
    BY <2>1 DEF free_address_space
  <2>3. \A q \in spaces : q \in ifree \/ \E t \in Task : pml4'[t] = q /\ status'[t] \notin Gone
    <3> TAKE q \in spaces
    <3>1. q # NoSpace
      BY DEF TypeOK
    <3>2. q \in ifree \/ \E t \in Task : pml4[t] = q /\ status[t] \notin Gone
      BY DEF SpacesInv
    <3>3. \A t \in Task : pml4[t] = q /\ status[t] \notin Gone =>
             \E u \in Task \ {c} : pml4[u] = q /\ status[u] \notin Gone
      BY <1>2, <1>4, <3>1
    <3> QED BY <1>3, <3>2, <3>3
  <2>4. \A t \in Task : status'[t] \notin Gone =>
           pml4'[t] \notin ifree /\ (pml4'[t] # NoSpace => pml4'[t] \in spaces)
    BY <1>3 DEF SpacesInv
  <2>5. cr3' = pml4'[current'] /\ pml4'[Idle] = NoSpace
    BY <1>1, <1>3 DEF SpacesInv
  <2> QED BY <2>2, <2>3, <2>4, <2>5 DEF SpacesInv
<1>5. CASE p # NoSpace /\ ~still_live(c)
  <2>1. /\ ReapFrees(c) = {p} /\ p \in spaces /\ p \notin ifree
        /\ \A t \in Task : pml4[t] = p /\ status[t] \notin Gone => t = c
    BY <1>2, <1>5 DEF ReapFrees, SpacesInv
  <2>2. p # cr3
    BY <1>1, <2>1 DEF SpacesInv
  <2>3. spaces' = (IF ifree' = ifree THEN spaces \ {p} ELSE spaces)
        /\ ifree' = (IF ifree' = ifree THEN ifree ELSE {p})
    BY Zenon, <2>1, <2>2 DEF free_address_space
  <2>4. \A q \in spaces' : q \in ifree' \/ \E t \in Task : pml4'[t] = q /\ status'[t] \notin Gone
    <3> TAKE q \in spaces'
    <3>1. CASE q = p
      BY <2>3, <3>1
    <3>2. CASE q # p
      <4>1. q \in spaces
        BY <2>3
      <4>2. CASE q \in ifree
        BY <2>3, <4>2
      <4>3. CASE \E t \in Task : pml4[t] = q /\ status[t] \notin Gone
        BY <1>3, <3>2, <4>3
      <4> QED BY <4>1, <4>2, <4>3 DEF SpacesInv
    <3> QED BY <3>1, <3>2
  <2>5. \A t \in Task : status'[t] \notin Gone =>
           pml4'[t] \notin ifree' /\ (pml4'[t] # NoSpace => pml4'[t] \in spaces')
    BY <1>3, <2>1, <2>3 DEF SpacesInv
  <2>6. cr3' = pml4'[current'] /\ pml4'[Idle] = NoSpace
    BY <1>1, <1>3 DEF SpacesInv
  <2>7. ifree' \subseteq spaces'
    BY <2>1, <2>3 DEF SpacesInv
  <2> QED BY Zenon, <2>1, <2>3, <2>4, <2>5, <2>6, <2>7 DEF SpacesInv
<1> QED BY <1>4, <1>5

\* A new task gets a new PML4, the one of its creator or the one task 0 has loaded.
LEMMA SpacePush ==
  ASSUME TypeOK, Table, SpacesInv, NEW p \in Space, NEW st \in {"Ready", "Blocked"}, Push(p, st),
         UNCHANGED <<cr3, current>>, SpaceIdle,
         \/ p \notin spaces /\ spaces' = spaces \cup {p} /\ UNCHANGED ifree
         \/ p \in spaces \ ifree /\ UNCHANGED <<spaces, ifree>>
         \/ ifree = {p} /\ ifree' = {} /\ UNCHANGED spaces
  PROVE  SpacesInv'
<1> USE SchedulerAssumption
<1>1. ntasks \in Task \ {Idle} /\ status[ntasks] = "Free" /\ current # ntasks
  BY DEF Push, TypeOK, Table, Existing
<1>2. \A t \in Task : /\ status'[t] = IF t = ntasks THEN st ELSE status[t]
                      /\ pml4'[t] = IF t = ntasks THEN p ELSE pml4[t]
  BY <1>1 DEF Push, TypeOK
<1>3. p \in spaces' /\ p \notin ifree' /\ ifree' \subseteq ifree /\ ifree' \subseteq spaces'
  BY DEF SpacesInv
<1>4. cr3' = pml4'[current'] /\ pml4'[Idle] = NoSpace
  <2>1. Idle \in Task /\ current \in Task
    BY DEF TypeOK
  <2>2. pml4'[Idle] = pml4[Idle] /\ pml4'[current] = pml4[current]
    BY <1>1, <1>2, <2>1
  <2> QED BY <2>2 DEF SpacesInv
<1>5. \A q \in spaces' : q \in ifree' \/ \E t \in Task : pml4'[t] = q /\ status'[t] \notin Gone
  <2> TAKE q \in spaces'
  <2>1. CASE q = p
    BY <1>1, <1>2, <2>1
  <2>2. CASE q # p
    <3>1. q \in spaces /\ (q \in ifree => q \in ifree')
      BY <2>2
    <3>2. ASSUME NEW t \in Task, pml4[t] = q, status[t] \notin Gone PROVE pml4'[t] = q /\ status'[t] \notin Gone
      BY <1>1, <1>2, <3>2
    <3> QED BY <3>1, <3>2 DEF SpacesInv
  <2> QED BY <2>1, <2>2
<1>6. \A t \in Task : status'[t] \notin Gone =>
         pml4'[t] \notin ifree' /\ (pml4'[t] # NoSpace => pml4'[t] \in spaces')
  BY <1>2, <1>3 DEF SpacesInv
<1> QED BY <1>3, <1>4, <1>5, <1>6 DEF SpacesInv, SpaceIdle

\* schedule() loads the PML4 of the task it chooses.
LEMMA SpaceSchedule == ASSUME TypeOK, Table, SpacesInv, schedule PROVE SpacesInv'
<1> USE SchedulerAssumption
<1> DEFINE swept == [t \in Task |-> IF t \in Existing THEN SweptStatus(t) ELSE status[t]]
<1>1. PICK next \in Existing :
        /\ status' = [swept EXCEPT ![next] = "Running"] /\ current' = next /\ cr3' = pml4[next]
        /\ UNCHANGED <<pml4, spaces, ipc, ifree>>
  BY Zenon DEF schedule
<1>2. \A t \in Task : swept[t] \in Gone <=> status[t] \in Gone
  BY DEF SweptStatus, Existing, TypeOK
<1>3. swept \in [Task -> TaskStatus \cup {"Free"}]
  BY DEF SweptStatus, TypeOK, Existing
<1> HIDE DEF swept
<1>4. next \in Task /\ status'[next] = "Running" /\ status[next] \in Schedulable
  BY <1>1, StackSchedule
<1>5. \A t \in Task : status'[t] \in Gone <=> status[t] \in Gone
  BY <1>1, <1>2, <1>3, <1>4
<1>6. \A p \in spaces : p \in ifree \/ \E t \in Task : pml4[t] = p /\ status'[t] \notin Gone
  BY <1>5 DEF SpacesInv
<1> QED BY <1>1, <1>5, <1>6 DEF SpacesInv

\* sys_exec() of a task that has its PML4 for itself frees it and no other.
LEMMA SpaceExec ==
  ASSUME TypeOK, Table, SpacesInv, NEW t \in Task, "texec" \notin UserOps, sys_exec(t)
  PROVE  SpacesInv'
<1> USE SchedulerAssumption
<1>1. PICK p \in Space \ spaces :
         /\ pml4' = [pml4 EXCEPT ![t] = p] /\ cr3' = p
         /\ spaces' = IF pml4[t] = NoSpace THEN spaces \cup {p}
                      ELSE free_address_space({pml4[t]}, spaces \cup {p}, p)
  BY Zenon DEF sys_exec
<1>2. /\ t = current /\ t # Idle /\ ~still_live(t)
      /\ UNCHANGED <<current, status, ipc, ifree>> /\ status[t] \notin Gone
  BY DEF sys_exec, InUserMode, Table, Existing
<1>3. \A v \in Task : pml4'[v] = IF v = t THEN p ELSE pml4[v]
  BY <1>1 DEF TypeOK
<1>4. pml4[t] # NoSpace => pml4[t] \in spaces /\ pml4[t] \notin ifree
         /\ \A v \in Task \ {t} : status[v] \notin Gone => pml4[v] # pml4[t]
  BY <1>2 DEF SpacesInv, still_live, Existing
<1>5. spaces' = (spaces \ {pml4[t]}) \cup {p}
  <2>1. CASE pml4[t] = NoSpace
    BY <1>1, <2>1 DEF TypeOK
  <2>2. CASE pml4[t] # NoSpace
    BY <1>1, <1>4, <2>2 DEF free_address_space
  <2> QED BY <2>1, <2>2
<1>6. \A q \in spaces' : q \in ifree \/ \E v \in Task : pml4'[v] = q /\ status[v] \notin Gone
  <2> TAKE q \in spaces'
  <2>1. CASE q = p
    BY <1>2, <1>3, <2>1
  <2>2. CASE q # p
    <3>1. q \in spaces /\ q # pml4[t]
      BY <1>5, <2>2
    <3>2. ASSUME NEW v \in Task, pml4[v] = q, status[v] \notin Gone PROVE pml4'[v] = q
      BY Zenon, <1>3, <3>1, <3>2
    <3> QED BY <3>1, <3>2 DEF SpacesInv
  <2> QED BY <2>1, <2>2
<1>7. \A v \in Task : status[v] \notin Gone =>
         pml4'[v] \notin ifree /\ (pml4'[v] # NoSpace => pml4'[v] \in spaces')
  BY <1>1, <1>3, <1>4, <1>5 DEF SpacesInv
<1>8. ifree \subseteq spaces'
  <2>1. NoSpace \notin spaces
    BY DEF TypeOK
  <2> QED BY <1>4, <1>5, <2>1 DEF SpacesInv
<1>9. cr3' = pml4'[current] /\ pml4'[Idle] = NoSpace
  BY <1>1, <1>2, <1>3 DEF SpacesInv, TypeOK
<1> QED BY <1>2, <1>6, <1>7, <1>8, <1>9 DEF SpacesInv

LOCAL INSTANCE Induction

\* reap_all_exited(): the tasks are reaped in index order.  Of the zombies that share a
\* PML4 that no other task uses, the last one gives it up.
LEMMA SpaceReapAll == ASSUME TypeOK, Table, SpacesInv, reap_all_exited PROVE SpacesInv'
<1> USE SchedulerAssumption
<1> DEFINE Z == {t \in Existing \ {Idle} : status[t] = "Exited"}
           stillLive(t) == \E u \in Existing \ {t} : /\ pml4[u] = pml4[t] /\ status[u] # "Reaped"
                                                     /\ ~(u \in Z /\ u < t)
           last == {t \in Z : ~stillLive(t)}
<1>1. /\ current = Idle /\ ipc = "loop" /\ UNCHANGED <<current, cr3, spaces>>
      /\ status' = [t \in Task |-> IF t \in Z THEN "Reaped" ELSE status[t]]
      /\ pml4' = [t \in Task |-> IF t \in last THEN NoSpace ELSE pml4[t]]
      /\ ipc' = "free" /\ ifree' = {pml4[t] : t \in last} \ {NoSpace}
  BY DEF reap_all_exited, IdleAt
<1>2. ifree = {} /\ Z \subseteq Task \ {Idle} /\ \A t \in Z : status[t] = "Exited"
  BY <1>1 DEF SpacesInv, Existing
<1>3. \A t \in last, u \in Task : u \notin Z /\ status[u] \notin Gone => pml4[u] # pml4[t]
  BY <1>2 DEF Existing
<1>4. last \subseteq Z
  OBVIOUS
<1>5. ASSUME NEW q \in spaces
      PROVE  q \in ifree' \/ \E t \in Task : pml4'[t] = q /\ status'[t] \notin Gone
  <2>1. PICK t \in Task : pml4[t] = q /\ status[t] \notin Gone
    BY <1>2 DEF SpacesInv
  <2>2. CASE \E u \in Task : u \notin Z /\ pml4[u] = q /\ status[u] \notin Gone
    BY <1>1, <1>4, <2>2
  <2>3. CASE \A u \in Task : pml4[u] = q /\ status[u] \notin Gone => u \in Z
    <3> DEFINE T == {u \in Z : pml4[u] = q}
    <3>1. T \in SUBSET (0 .. MaxTasks) /\ T # {} /\ MaxTasks \in Nat
      BY <1>2, <2>1, <2>3
    <3> HIDE DEF T
    <3>2. PICK x \in T : \A y \in T : y <= x
      BY Zenon, <3>1, Greatest
    <3> USE DEF T
    <3>3. \A u \in Existing \ {x} : pml4[u] = q /\ status[u] # "Reaped" => u \in Z /\ u < x
      BY <1>2, <2>3, <3>2 DEF Existing
    <3>4. x \in last /\ pml4[x] = q
      BY <3>2, <3>3
    <3>5. q # NoSpace
      BY DEF TypeOK
    <3> QED BY <1>1, <3>4, <3>5
  <2> QED BY <2>2, <2>3
<1> HIDE DEF last, Z
<1>6. \A t \in Task : status'[t] \notin Gone =>
         /\ t \notin Z /\ status[t] \notin Gone /\ pml4'[t] = pml4[t] /\ pml4[t] \notin ifree'
  BY <1>1, <1>3, <1>4
<1>7. \A t \in Task : status'[t] \notin Gone =>
         pml4'[t] \notin ifree' /\ (pml4'[t] # NoSpace => pml4'[t] \in spaces)
  BY <1>6 DEF SpacesInv
<1>8. ifree' \subseteq spaces
  BY <1>1, <1>2, <1>4 DEF SpacesInv
<1>9. cr3' = pml4'[current'] /\ pml4'[Idle] = NoSpace
  <2>1. Idle \notin last /\ Idle \in Task
    BY <1>2, <1>4
  <2> QED BY <1>1, <2>1 DEF SpacesInv
<1> QED BY <1>1, <1>5, <1>7, <1>8, <1>9 DEF SpacesInv

\* The system calls keep the registry exact.
LEMMA SpaceUser ==
  ASSUME TypeOK, Table, SpacesInv, "texec" \notin UserOps, NEW t \in Task, UserStep(t)
  PROVE  SpacesInv'
<1> USE SchedulerAssumption
<1>1. ASSUME UNCHANGED <<ipc, ifree>> PROVE SpaceIdle
  BY <1>1 DEF SpacesInv, SpaceIdle
<1>2. CASE (\E d \in 1 .. MaxSleep : sys_sleep_ms(t, d)) \/ (\E d \in 1 .. NoWake : EventWait(t, d))
  <2>1. /\ UNCHANGED <<cr3, current, pml4, spaces, ifree, ipc>> /\ t = current
        /\ \A v \in Task : status'[v] = IF v = t THEN "Blocked" ELSE status[v]
    BY <1>2 DEF sys_sleep_ms, EventWait, InUserMode, Block, TypeOK
  <2>2. \A v \in Task : status'[v] \in Gone <=> status[v] \in Gone
    BY <2>1 DEF Table, Existing
  <2> QED BY <1>1, <2>1, <2>2, SpaceKeep
<1>3. CASE WaitReturn(t)
  BY <1>1, <1>3, SpaceKeep DEF WaitReturn
<1>4. CASE sys_exec(t)
  BY <1>4, SpaceExec
<1>5. ASSUME NEW c, WaitTry(t, c), t = current, UNCHANGED <<current, cr3, idleVars>>
      PROVE  SpacesInv'
  <2>1. CASE c \in Existing \ {Idle} /\ parent[c] = t /\ status[c] = "Exited"
             /\ status' = [status EXCEPT ![c] = "Reaped"]
             /\ pml4' = ReapPml4(c)
             /\ spaces' = free_address_space(ReapFrees(c), spaces, cr3)
    <3>1. c \in Task \ {Idle} /\ c # current
      BY <1>5, <2>1 DEF Existing, Table
    <3>2. \A v \in Task : status'[v] \in Gone <=> v = c \/ status[v] \in Gone
      BY <2>1, <3>1 DEF TypeOK
    <3> QED BY <1>5, <2>1, <3>1, <3>2, SpaceReap
  <2>2. CASE UNCHANGED <<status, pml4, spaces>>
    BY <1>1, <1>5, <2>2, SpaceKeep
  <2>3. CASE Block(t, NoWake, "waitpid") /\ UNCHANGED <<pml4, spaces>>
    <3>1. \A v \in Task : status'[v] \in Gone <=> status[v] \in Gone
      BY <1>5, <2>3 DEF Block, TypeOK, Table, Existing
    <3> QED BY <1>1, <1>5, <2>3, <3>1, SpaceKeep
  <2> QED BY <1>5, <2>1, <2>2, <2>3 DEF WaitTry
<1>6. CASE \E c \in Task : sys_waitpid(t, c)
  BY <1>5, <1>6 DEF sys_waitpid, InUserMode
<1>7. CASE WaitpidLoop(t)
  <2>1. CASE UNCHANGED <<status, pml4, spaces>>
    BY <1>1, <1>7, <2>1, SpaceKeep DEF WaitpidLoop
  <2> QED BY <1>5, <1>7, <2>1 DEF WaitpidLoop
<1>8. ASSUME NEW u \in Task, status[u] \notin Gone, Exit(u), UNCHANGED <<cr3, current, pml4, spaces, ifree, ipc>>
      PROVE  SpacesInv'
  <2>1. \A v \in Task : status'[v] =
          IF v = u THEN "Exited"
          ELSE IF v = parent[u] /\ status[v] = "Blocked" THEN "Ready" ELSE status[v]
    BY Zenon, <1>8, EndStatus DEF Exit
  <2> QED BY <1>1, <1>8, <2>1, SpaceKeep
<1>9. CASE sys_exit(t) \/ fault_current(t)
  BY <1>8, <1>9 DEF sys_exit, exit_current, fault_current, InUserMode, Table, Existing
<1>10. CASE \E u \in Task, sig \in Signal : sys_signal(t, u, sig)
  <2>1. PICK u \in Task, sig \in Signal : sys_signal(t, u, sig)
    BY <1>10
  <2>2. CASE Deliver(u, sig)
    <3>1. /\ \A v \in Task \ {u} : status'[v] = status[v]
          /\ u \in Existing \ {Idle} /\ status[u] \notin Dead
          /\ status'[u] \in {status[u], "Ready", "Stopped"}
      BY <2>2, DeliverStatus
    <3>2. \A v \in Task : status'[v] \in Gone <=> status[v] \in Gone
      BY <3>1 DEF Existing
    <3> QED BY <1>1, <2>2, <3>2, SpaceKeep DEF Deliver
  <2>3. CASE kill_task(t, u)
    BY <1>8, <2>3 DEF kill_task, Killable, Existing
  <2>4. CASE InUserMode(t) /\ exit_current(t, "user")
    BY <1>8, <2>4 DEF exit_current, InUserMode, Table, Existing
  <2> QED BY <2>1, <2>2, <2>3, <2>4 DEF sys_signal
<1>11. CASE sys_spawn(t)
  <2>1. PICK p \in Space \ spaces : Push(p, "Ready") /\ spaces' = spaces \cup {p}
    BY <1>11 DEF sys_spawn
  <2> QED BY <1>1, <1>11, <2>1, SpacePush DEF sys_spawn
<1>12. CASE sys_thread_spawn(t)
  <2>1. t \in Task /\ status[t] \notin Gone /\ pml4[t] # NoSpace /\ pml4[t] \in Space
    BY <1>12 DEF sys_thread_spawn, InUserMode, Table, Existing, TypeOK
  <2>2. pml4[t] \in spaces \ ifree
    BY <2>1 DEF SpacesInv
  <2> QED BY <1>1, <1>12, <2>1, <2>2, SpacePush DEF sys_thread_spawn
<1>13. CASE \E u \in Task : OomBySyscall(t, u)
  <2>1. PICK u \in Task : OomBySyscall(t, u)
    BY <1>13
  <2>2. \A v \in Task : status'[v] =
          IF v = u THEN "Reaped"
          ELSE IF v = parent[u] /\ status[v] = "Blocked" THEN "Ready" ELSE status[v]
    BY Zenon, <2>1, EndStatus DEF OomBySyscall
  <2>3. /\ u \in Task \ {Idle} /\ u # current /\ status[u] \notin Gone
        /\ UNCHANGED <<cr3, current, ifree, ipc>> /\ pml4' = ReapPml4(u)
        /\ spaces' = free_address_space(ReapFrees(u), spaces, cr3)
    BY <2>1 DEF OomBySyscall, OomVictim, OomReap, Existing
  <2>4. \A v \in Task : status'[v] \in Gone <=> v = u \/ status[v] \in Gone
    BY <2>2
  <2> QED BY <2>3, <2>4, SpaceReap
<1> QED BY <1>2, <1>3, <1>4, <1>6, <1>7, <1>9, <1>10, <1>11, <1>12, <1>13 DEF UserStep

\* The critical sections of task 0 keep the registry exact.
LEMMA SpaceIdleStep ==
  ASSUME TypeOK, Table, SpacesInv, "killrace" \notin KernelOps, IdleStep
  PROVE  SpacesInv'
<1> USE SchedulerAssumption
<1>1. CASE (\E t \in Task : IKillCheck(t)) \/ IKillCommit
  BY <1>1 DEF IKillCheck, IKillCommit, IdleAt, SpacesInv
<1>2. CASE ICleanup
  BY <1>2, SpaceKeep DEF ICleanup, SpaceIdle
<1>3. CASE \E t \in Task : IKill(t)
  <2>1. PICK t \in Task : IKill(t)
    BY <1>3
  <2>2. \A v \in Task : status'[v] \in Gone <=> status[v] \in Gone
    BY <2>1 DEF IKill, Killable, Existing, TypeOK
  <2> QED BY <2>1, <2>2, SpaceKeep DEF IKill, SpaceIdle
<1>4. CASE \E t \in Task : IOomReap(t)
  <2>1. PICK t \in Task : IOomReap(t)
    BY <1>4
  <2>2. \A v \in Task : status'[v] \in Gone <=> v = t \/ status[v] \in Gone
    BY <2>1 DEF IOomReap, TypeOK
  <2>3. /\ t \in Task \ {Idle} /\ t # current /\ status[t] \notin Gone /\ ifree = {}
        /\ UNCHANGED <<cr3, current, spaces>> /\ pml4' = ReapPml4(t) /\ ifree' = ReapFrees(t) /\ ipc' = "wake"
    BY <2>1 DEF IOomReap, OomVictim, OomReap, IdleAt, Existing, SpacesInv
  <2> QED BY <2>2, <2>3, SpaceReap
<1>5. CASE IWakeParent
  <2>1. \A v \in Task : status'[v] \in Gone <=> status[v] \in Gone
    BY <1>5 DEF IWakeParent, Unblocked
  <2> QED BY <1>5, <2>1, SpaceKeep DEF IWakeParent, SpaceIdle
<1>6. CASE ISpawnStart
  <2>1. \A v \in Task : status'[v] \in Gone <=> status[v] \in Gone
    BY <1>6 DEF ISpawnStart, Unblocked
  <2>2. ifree = {} /\ ifree' = {} /\ ipc' = "loop"
    BY <1>6 DEF ISpawnStart, IdleAt, SpacesInv
  <2> QED BY Zenon, <1>6, <2>1, <2>2, SpaceKeep DEF ISpawnStart, SpaceIdle
<1>7. ASSUME spaces' = free_address_space(ifree, spaces, cr3), current = Idle, ipc' = "loop", ifree' = {},
             UNCHANGED <<current, cr3, status, pml4>>
      PROVE  SpacesInv'
  <2>1. cr3 = NoSpace
    BY <1>7 DEF SpacesInv
  <2>2. spaces' = spaces \ ifree
    BY <1>7, <2>1 DEF free_address_space, SpacesInv, TypeOK
  <2>3. \A q \in spaces' : \E t \in Task : pml4[t] = q /\ status[t] \notin Gone
    BY <2>2 DEF SpacesInv
  <2> QED BY <1>7, <2>2, <2>3 DEF SpacesInv
<1>8. CASE IFree
  BY <1>7, <1>8 DEF IFree, IdleAt
<1>9. CASE \E t \in Task, sig \in Signal \ {"Term", "Int"} : ISignal(t, sig)
  <2>1. PICK t \in Task, sig \in Signal : Deliver(t, sig)
    BY <1>9 DEF ISignal
  <2>2. /\ \A v \in Task \ {t} : status'[v] = status[v]
        /\ t \in Existing \ {Idle} /\ status[t] \notin Dead
        /\ status'[t] \in {status[t], "Ready", "Stopped"}
    BY <2>1, DeliverStatus
  <2>3. \A v \in Task : status'[v] \in Gone <=> status[v] \in Gone
    BY <2>2 DEF Existing
  <2>4. SpaceIdle
    BY <2>1 DEF Deliver, SpaceIdle, SpacesInv
  <2> QED BY <2>1, <2>3, <2>4, SpaceKeep DEF Deliver
<1>10. CASE \E c \in Task : IWaitpid(c)
  <2>1. PICK c \in Task : IWaitpid(c)
    BY <1>10
  <2>2. \A v \in Task : status'[v] \in Gone <=> v = c \/ status[v] \in Gone
    BY <2>1 DEF IWaitpid, TypeOK
  <2>3. /\ c \in Task \ {Idle} /\ c # current /\ status[c] \notin Gone /\ ifree = {}
        /\ UNCHANGED <<cr3, current, spaces>> /\ pml4' = ReapPml4(c) /\ ifree' = ReapFrees(c) /\ ipc' = "free"
    BY <2>1 DEF IWaitpid, IdleAt, Existing, SpacesInv
  <2> QED BY <2>2, <2>3, SpaceReap
<1>11. CASE reap_all_exited
  BY <1>11, SpaceReapAll
<1>12. CASE ISpawnLoad
  <2>1. PICK p \in Space \ spaces : ifree' = {p} /\ spaces' = spaces \cup {p}
    BY <1>12 DEF ISpawnLoad
  <2>2. ifree = {} /\ ipc' = "spawn" /\ UNCHANGED <<current, cr3, status, pml4>>
    BY <1>12 DEF ISpawnLoad, IdleAt, SpacesInv
  <2>3. \A q \in spaces' : q \in ifree' \/ \E t \in Task : pml4[t] = q /\ status[t] \notin Gone
    BY <2>1, <2>2 DEF SpacesInv
  <2>4. \A t \in Task : status[t] \notin Gone =>
           pml4[t] \notin ifree' /\ (pml4[t] # NoSpace => pml4[t] \in spaces')
    BY <2>1 DEF SpacesInv
  <2> QED BY <2>1, <2>2, <2>3, <2>4 DEF SpacesInv
<1>13. CASE ISpawnPush
  <2>1. IdleAt("spawn") /\ UNCHANGED <<current, cr3>>
    BY <1>13 DEF ISpawnPush
  <2>2. PICK p \in Space : ifree = {p}
    BY <2>1 DEF IdleAt, SpacesInv
  <2>3. CASE \E q \in ifree : Push(q, "Blocked") /\ ipc' = "start" /\ ifree' = {} /\ UNCHANGED spaces
    <3>1. Push(p, "Blocked") /\ SpaceIdle
      BY <2>2, <2>3 DEF SpaceIdle
    <3> QED BY <2>1, <2>2, <2>3, <3>1, SpacePush
  <2>4. CASE /\ spaces' = free_address_space(ifree, spaces, cr3) /\ ipc' = "loop" /\ ifree' = {}
             /\ UNCHANGED <<status, pml4>>
    BY <1>7, <2>1, <2>4 DEF IdleAt
  <2> QED BY <1>13, <2>3, <2>4 DEF ISpawnPush
<1> QED BY <1>1, <1>2, <1>3, <1>4, <1>5, <1>6, <1>8, <1>9, <1>10, <1>11, <1>12, <1>13 DEF IdleStep

\* The registered address spaces are exactly the ones in use, and none is freed under its
\* users, whatever programs spawn, share, replace and give up and whoever reaps them: for
\* every number of tasks and frames, unless a program that has other threads calls exec or
\* the terminal's kill is interrupted between its two critical sections.
THEOREM SpacesAreExact ==
  ASSUME "texec" \notin UserOps, "killrace" \notin KernelOps
  PROVE  Spec => []SpacesExact
<1>1. Init => SpacesInv
  BY SchedulerAssumption DEF Init, SpacesInv
<1>2. TypeOK /\ Table /\ SpacesInv /\ [Next]_vars => SpacesInv'
  <2> SUFFICES ASSUME TypeOK, Table, SpacesInv, [Next]_vars PROVE SpacesInv'
    OBVIOUS
  <2>1. CASE schedule
    BY <2>1, SpaceSchedule
  <2>2. CASE TickLocked \/ UNCHANGED vars \/ \E t \in Task : EventWake(t)
    <3>1. /\ UNCHANGED <<cr3, current, pml4, spaces, ifree, ipc>>
          /\ \A t \in Task : status'[t] \in Gone <=> status[t] \in Gone
      BY Zenon, <2>2 DEF TickLocked, vars, EventWake, Unblocked
    <3>2. SpaceIdle
      BY <3>1 DEF SpaceIdle, SpacesInv
    <3> QED BY <3>1, <3>2, SpaceKeep
  <2>3. CASE \E t \in Task : UserStep(t)
    BY <2>3, SpaceUser
  <2>4. CASE IdleStep
    BY <2>4, SpaceIdleStep
  <2> QED BY <2>1, <2>2, <2>3, <2>4 DEF Next
<1>3. TypeOK /\ Table /\ SpacesInv => SpacesExact
  <2> SUFFICES ASSUME TypeOK, Table, SpacesInv PROVE SpacesExact
    OBVIOUS
  <2>1. current \in Task /\ status[current] \notin Gone
    BY DEF TypeOK, Table, Existing
  <2>2. SpaceSafe
    BY <2>1 DEF SpacesInv, SpaceSafe
  <2>3. \A p \in spaces : p \in ifree \/ \E t \in Existing : pml4[t] = p /\ status[t] # "Reaped"
    BY DEF SpacesInv, Existing
  <2> QED BY Zenon, <2>2, <2>3 DEF SpacesExact
<1> QED BY <1>1, <1>2, <1>3, TableInvariant, PTL DEF Spec
=============================================================================
