-------------------------------- MODULE Futex --------------------------------
(***************************************************************************)
(* The futex calls (src/src/futex.rs and the calls of                      *)
(* src/src/syscall/core.rs).  A call runs with interrupts off: it is one   *)
(* action up to the wait loop and one behind it, so the two reads of the   *)
(* word see the same value.  The queue of waiters is keyed by the virtual  *)
(* address of the word and by nothing else.                                *)
(*                                                                         *)
(* A thread that is stopped is one that does not run: CONT makes it ready  *)
(* whatever it waited for (OtherWake).  FutexCalls has threads that use    *)
(* the calls in any order, the modules PThread* the locks of libcool.      *)
(***************************************************************************)
EXTENDS Naturals, Sequences, FiniteSets

CONSTANTS
    Thread,             \* the threads
    Space,              \* address spaces
    SpaceOf,            \* the address space of a thread
    Addr,               \* virtual addresses of futex words
    Value,              \* what the words hold
    Zero,               \* their first value
    MAX_FUTEX_WAITERS,  \* size of the queue
    Wakes               \* what may end a wait: "deadline", "other", "signal", "exit"

ASSUME FutexAssumption ==
    /\ SpaceOf \in [Thread -> Space] /\ Zero \in Value
    /\ MAX_FUTEX_WAITERS \in Nat

\* Values of SpaceOf: all threads in one process, or odd and even ones in two.
OneSpace == [t \in Thread |-> CHOOSE s \in Space : TRUE]
TwoSpaces == [t \in Thread |-> t % 2]

VARIABLES
    mem,       \* the words of every address space
    waiters,   \* FutexState.waiters: <<address, thread>>, oldest first
    status,    \* what the scheduler knows of a thread
    deadline,  \* of the wait that a thread is in: "none", "armed", "expired"
    chosen     \* history: threads that a futex_wake() has taken off the queue

kernel == <<waiters, status, deadline, chosen>>

FutexTypeOK ==
    /\ mem \in [Space -> [Addr -> Value]]
    /\ waiters \in Seq(Addr \X Thread) /\ Len(waiters) <= MAX_FUTEX_WAITERS
    /\ status \in [Thread -> {"Ready", "Blocked", "Dead"}]
    /\ deadline \in [Thread -> {"none", "armed", "expired"}]
    /\ chosen \in SUBSET Thread

FutexInit ==
    /\ mem = [s \in Space |-> [a \in Addr |-> Zero]]
    /\ waiters = <<>>
    /\ status = [t \in Thread |-> "Ready"]
    /\ deadline = [t \in Thread |-> "none"]
    /\ chosen = {}

Word(t, a) == mem[SpaceOf[t]][a]
SetWord(t, a, v) == mem' = [mem EXCEPT ![SpaceOf[t]][a] = v]

Queued(t) == \E i \in 1 .. Len(waiters) : waiters[i][2] = t

\* waiters.retain(): the entries of threads outside T, in their order.
Without(q, T) ==
    LET kept[i \in 0 .. Len(q)] ==
            IF i = 0 THEN <<>>
            ELSE IF q[i][2] \in T THEN kept[i - 1] ELSE Append(kept[i - 1], q[i])
    IN  kept[Len(q)]

Unregistered(t) == Without(waiters, {t})

\* sys_futex_wait() does not wait: the word has changed, or the timeout is
\* zero, or the queue is full.
Mismatch(t, a, expected) == Word(t, a) # expected

QueueFull == Len(waiters) >= MAX_FUTEX_WAITERS

\* The call may fail: the queue is full, or the thread has just sent USR1 to
\* itself (schedule() takes every other signal before the wait loop looks at it).
MayFail == QueueFull \/ "signal" \in Wakes

\* Mutant: a thread that finds the queue full waits all the same.
SleepUnqueued(t, a, timeout) ==
    /\ waiters' = IF QueueFull THEN waiters ELSE Append(waiters, <<a, t>>)
    /\ status' = [status EXCEPT ![t] = "Blocked"]
    /\ deadline' = [deadline EXCEPT ![t] = timeout]
    /\ chosen' = chosen \ {t}

\* register_waiter() and block_current() or block_current_until().
Sleep(t, a, timeout) ==
    /\ ~QueueFull
    /\ waiters' = Append(waiters, <<a, t>>)
    /\ status' = [status EXCEPT ![t] = "Blocked"]
    /\ deadline' = [deadline EXCEPT ![t] = timeout]
    /\ chosen' = chosen \ {t}

\* Mutant: the clock decides, not the queue.
WaitResultByClock(t) == IF deadline[t] = "expired" THEN "timeout" ELSE "woken"

\* What the call returns behind its wait loop.
WaitResult(t) == IF Queued(t) /\ deadline[t] = "expired" THEN "timeout" ELSE "woken"

Leave(t) ==
    /\ status[t] = "Ready"
    /\ waiters' = Unregistered(t)
    /\ deadline' = [deadline EXCEPT ![t] = "none"]
    /\ UNCHANGED <<status, chosen>>

\* The positions of the first count waiters for an address.
FirstWaiters(a, count) ==
    {i \in 1 .. Len(waiters) :
        /\ waiters[i][1] = a
        /\ Cardinality({j \in 1 .. i : waiters[j][1] = a}) <= count}

\* sys_futex_wake(): take them off the queue and unblock them.
FutexWake(a, count) ==
    LET woken == {waiters[i][2] : i \in FirstWaiters(a, count)}
    IN  /\ waiters' = Without(waiters, woken)
        /\ status' = [t \in Thread |-> IF t \in woken /\ status[t] = "Blocked" THEN "Ready" ELSE status[t]]
        /\ chosen' = chosen \cup woken
        /\ UNCHANGED deadline

\* The deadline of a wait passes, whether the thread is still asleep or not.
Deadline(t) ==
    /\ "deadline" \in Wakes /\ deadline[t] = "armed" /\ status[t] # "Dead"
    /\ deadline' = [deadline EXCEPT ![t] = "expired"]
    /\ status' = [status EXCEPT ![t] = "Ready"]
    /\ UNCHANGED <<mem, waiters, chosen>>

\* A wake-up from elsewhere: the exit of a child, USR1, or CONT after STOP.
OtherWake(t) ==
    /\ "other" \in Wakes /\ status[t] = "Blocked"
    /\ status' = [status EXCEPT ![t] = "Ready"]
    /\ UNCHANGED <<mem, waiters, deadline, chosen>>
=============================================================================
