--------------------------------- MODULE Vfs ---------------------------------
(***************************************************************************)
(* File descriptors, the shared objects behind them, pipes with blocking   *)
(* reads, and poll on descriptors (src/src/vfs.rs, src/src/syscall/poll.rs *)
(* and the read, write, close, pipe and dup calls).                        *)
(*                                                                         *)
(* A system call holds the CPU with interrupts off, so it is one action up *)
(* to its wait loop.  Task 0 is the kernel's main loop, where interrupts   *)
(* are on: when it kills a task, drop_task() is preempted between the      *)
(* section that takes the descriptors away and the wake-ups.               *)
(*                                                                         *)
(* Abstractions.  The scheduler is reduced to who may run: any task that   *)
(* is not blocked may make the next call.  A pipe is the number of bytes   *)
(* in it (module Pipe has the ring buffer), a file the flag that says that *)
(* it has buffered data.  Permission and memory checks only refuse calls.  *)
(***************************************************************************)
EXTENDS Naturals, FiniteSets, Sequences

CONSTANTS
    MaxTasks,    \* bound: tasks that are created, task 0 included
    MAX_FDS,     \* slots of a descriptor table; alloc_fd() uses 3 and above
    MaxObjects,  \* bound: slots of VfsState.objects
    PIPE_SIZE,   \* capacity of a pipe
    ChildFds,    \* bound: descriptors that a spawn installs in the child
    Ops          \* the calls that are made

ASSUME VfsAssumption ==
    /\ MaxTasks \in Nat \ {0} /\ MAX_FDS \in Nat \ {0}
    /\ MaxObjects \in Nat \ {0} /\ PIPE_SIZE \in Nat \ {0}
    /\ ChildFds \subseteq 0 .. MAX_FDS - 1

VARIABLES
    objects,  \* VfsState.objects
    fds,      \* VfsState.task_fds
    status,   \* what the scheduler knows of a task
    at,       \* where a blocked task waits: <<"read", fd>>, <<"poll", ...>>
    unsaved,  \* history: objects with buffered data that is not on disk
    itask,    \* task 0: the task it is killing
    iwakes,   \* task 0: local variable wake_tasks of drop_task()
    icommits  \* task 0: local variable commits of drop_task()

vars == <<objects, fds, status, at, unsaved, itask, iwakes, icommits>>

Task == 0 .. MaxTasks - 1
Fd == 0 .. MAX_FDS - 1
ObjectId == 1 .. MaxObjects
Events == {"READ", "WRITE"}

NoFd == [object |-> 0, access |-> "none"]
NoObject == [kind |-> "none", refs |-> 0, readers |-> 0, writers |-> 0, len |-> 0,
             dirty |-> FALSE, waiting_readers |-> {}, waiting_writers |-> {}]
User == <<"user">>
NoTask == MaxTasks

LocalFd == [object : ObjectId, access : {"File", "PipeRead", "PipeWrite"}]
SharedObject ==
    [kind : {"File", "Writable", "Pipe"}, refs : Nat, readers : Nat, writers : Nat,
     len : 0 .. PIPE_SIZE, dirty : BOOLEAN,
     waiting_readers : SUBSET Task, waiting_writers : SUBSET Task]

TypeOK ==
    /\ objects \in [ObjectId -> SharedObject \cup {NoObject}]
    /\ fds \in [Task -> [Fd -> LocalFd \cup {NoFd}]]
    /\ status \in [Task -> {"Free", "Ready", "Blocked", "Dead"}]
    /\ at \in [Task -> {User} \cup ({"read"} \X Fd)
                        \cup ({"poll"} \X (SUBSET Fd) \X (SUBSET Events) \X {"forever", "armed", "expired"})]
    /\ unsaved \in SUBSET ObjectId
    /\ itask \in Task \cup {NoTask}
    /\ iwakes \in SUBSET Task /\ icommits \in SUBSET ObjectId

Init ==
    /\ objects = [o \in ObjectId |-> NoObject]
    /\ fds = [t \in Task |-> [fd \in Fd |-> NoFd]]
    /\ status = [t \in Task |-> IF t = 0 THEN "Ready" ELSE "Free"]
    /\ at = [t \in Task |-> User]
    /\ unsaved = {} /\ itask = NoTask /\ iwakes = {} /\ icommits = {}
-----------------------------------------------------------------------------
(* The descriptor table and the objects.                                   *)

FreeSlots(t) == {fd \in Fd : fd >= 3 /\ fds[t][fd] = NoFd}
alloc_fd(free) == CHOOSE fd \in free : \A other \in free : fd <= other

FreeObjects == {o \in ObjectId : objects[o] = NoObject}
alloc_object == CHOOSE o \in FreeObjects : \A other \in FreeObjects : o <= other

\* Mutant: the writers are not counted.
RetainNoWriters(obj, entry) ==
    [obj EXCEPT ![entry.object].refs = @ + 1,
                ![entry.object].readers = IF entry.access = "PipeRead" THEN @ + 1 ELSE @]

retain_fd(obj, entry) ==
    [obj EXCEPT ![entry.object].refs = @ + 1,
                ![entry.object].readers = IF entry.access = "PipeRead" THEN @ + 1 ELSE @,
                ![entry.object].writers = IF entry.access = "PipeWrite" THEN @ + 1 ELSE @]

Decrement(n) == IF n = 0 THEN 0 ELSE n - 1

\* The accumulator of a sequence of releases.
Event(obj) == [obj |-> obj, wakes |-> {}, commits |-> {}]

\* release_fd(): the last reader sends the writers away, the last writer the
\* readers, the last reference drops the object and commits a dirty file.
release_fd(ev, entry) ==
    LET old == ev.obj[entry.object]
        dec == [old EXCEPT !.refs = Decrement(@),
                           !.readers = IF entry.access = "PipeRead" THEN Decrement(@) ELSE @,
                           !.writers = IF entry.access = "PipeWrite" THEN Decrement(@) ELSE @]
        lastReader == entry.access = "PipeRead" /\ dec.readers = 0
        lastWriter == entry.access = "PipeWrite" /\ dec.writers = 0
        new == [dec EXCEPT !.waiting_readers = IF lastReader \/ lastWriter THEN {} ELSE @,
                           !.waiting_writers = IF lastReader THEN {} ELSE @]
    IN  IF old = NoObject THEN ev
        ELSE [obj |-> [ev.obj EXCEPT ![entry.object] = IF dec.refs = 0 THEN NoObject ELSE new],
              wakes |-> ev.wakes \cup (IF lastReader THEN old.waiting_writers ELSE {})
                                 \cup (IF lastWriter THEN old.waiting_readers ELSE {}),
              commits |-> IF dec.refs = 0 /\ old.kind = "Writable" /\ old.dirty
                          THEN ev.commits \cup {entry.object} ELSE ev.commits]

\* Mutant: the end of a task forgets to commit its files.
ReleaseNoCommit(ev, table) ==
    LET after[n \in 0 .. MAX_FDS] ==
            CASE n = 0 -> ev
              [] n > 0 /\ table[n - 1] = NoFd -> after[n - 1]
              [] OTHER -> [release_fd(after[n - 1], table[n - 1]) EXCEPT !.commits = {}]
    IN  after[MAX_FDS]

\* The loop of drop_task() over a descriptor table.
ReleaseTable(ev, table) ==
    LET after[n \in 0 .. MAX_FDS] ==
            IF n = 0 THEN ev
            ELSE IF table[n - 1] = NoFd THEN after[n - 1]
            ELSE release_fd(after[n - 1], table[n - 1])
    IN  after[MAX_FDS]

Unblocked(S) == [t \in Task |-> IF t \in S /\ status[t] = "Blocked" THEN "Ready" ELSE status[t]]
-----------------------------------------------------------------------------
(* System calls.  t may be task 0: the kernel uses its own table.           *)

Calls(t, op) == op \in Ops /\ status[t] = "Ready" /\ at[t] = User

idle == <<itask, iwakes, icommits>>

OpenObject(t, kind) ==
    /\ FreeSlots(t) # {} /\ FreeObjects # {}
    /\ LET entry == [object |-> alloc_object, access |-> "File"]
       IN  /\ objects' = retain_fd([objects EXCEPT ![alloc_object] = [NoObject EXCEPT !.kind = kind]],
                                   entry)
           /\ fds' = [fds EXCEPT ![t][alloc_fd(FreeSlots(t))] = entry]
    /\ UNCHANGED <<status, at, unsaved, idle>>

vfs_open(t) == Calls(t, "open") /\ OpenObject(t, "File")

vfs_open_write(t) == Calls(t, "open") /\ OpenObject(t, "Writable")

vfs_pipe(t) ==
    /\ Calls(t, "pipe") /\ Cardinality(FreeSlots(t)) >= 2 /\ FreeObjects # {}
    /\ LET reader == [object |-> alloc_object, access |-> "PipeRead"]
           writer == [object |-> alloc_object, access |-> "PipeWrite"]
           fd == alloc_fd(FreeSlots(t))
           new == [objects EXCEPT ![alloc_object] = [NoObject EXCEPT !.kind = "Pipe"]]
       IN  /\ objects' = retain_fd(retain_fd(new, reader), writer)
           /\ fds' = [fds EXCEPT ![t][fd] = reader, ![t][alloc_fd(FreeSlots(t) \ {fd})] = writer]
    /\ UNCHANGED <<status, at, unsaved, idle>>

vfs_dup(t, fd) ==
    /\ Calls(t, "dup") /\ FreeSlots(t) # {} /\ fds[t][fd] # NoFd
    /\ objects' = retain_fd(objects, fds[t][fd])
    /\ fds' = [fds EXCEPT ![t][alloc_fd(FreeSlots(t))] = fds[t][fd]]
    /\ UNCHANGED <<status, at, unsaved, idle>>

vfs_close(t, fd) ==
    /\ Calls(t, "close") /\ fds[t][fd] # NoFd
    /\ LET ev == release_fd(Event(objects), fds[t][fd])
       IN  /\ objects' = ev.obj
           /\ status' = Unblocked(ev.wakes)
           /\ unsaved' = unsaved \ ev.commits
    /\ fds' = [fds EXCEPT ![t][fd] = NoFd]
    /\ UNCHANGED <<at, idle>>

\* A write of n bytes that fit wakes everybody who waits for data.
PipeWrite(o, n) ==
    /\ objects' = [objects EXCEPT ![o].len = @ + n,
                                  ![o].waiting_readers = IF n > 0 THEN {} ELSE @]
    /\ status' = IF n > 0 THEN Unblocked(objects[o].waiting_readers) ELSE status

vfs_write(t, fd, bytes) ==
    /\ Calls(t, "write") /\ fds[t][fd] # NoFd
    /\ LET o == fds[t][fd].object
           x == objects[o]
           room == PIPE_SIZE - x.len
       IN  \/ /\ fds[t][fd].access = "File" /\ x.kind = "Writable"
              /\ objects' = [objects EXCEPT ![o].dirty = TRUE]
              /\ unsaved' = unsaved \cup {o}
              /\ UNCHANGED status
           \/ /\ fds[t][fd].access = "PipeWrite" /\ x.readers > 0
              /\ PipeWrite(o, IF bytes > room THEN room ELSE bytes)
              /\ UNCHANGED unsaved
    /\ UNCHANGED <<fds, at, idle>>

\* Mutant: a read does not tell the writers that there is room.
PipeReadQuiet(t, fd, want) ==
    LET o == fds[t][fd].object
        x == objects[o]
    IN  \/ /\ x.len > 0
           /\ objects' = [objects EXCEPT ![o].len = @ - (IF want > x.len THEN x.len ELSE want)]
           /\ at' = [at EXCEPT ![t] = User] /\ UNCHANGED status
        \/ /\ x.len = 0 /\ x.writers = 0
           /\ at' = [at EXCEPT ![t] = User] /\ UNCHANGED <<objects, status>>
        \/ /\ x.len = 0 /\ x.writers > 0
           /\ objects' = [objects EXCEPT ![o].waiting_readers = @ \cup {t}]
           /\ status' = [status EXCEPT ![t] = "Blocked"]
           /\ at' = [at EXCEPT ![t] = <<"read", fd>>]

\* One pass of vfs_read_blocking() on a pipe: data, end of file, or block.
PipeReadPass(t, fd, want) ==
    LET o == fds[t][fd].object
        x == objects[o]
    IN  \/ /\ x.len > 0
           /\ objects' = [objects EXCEPT ![o].len = @ - (IF want > x.len THEN x.len ELSE want),
                                         ![o].waiting_writers = {}]
           /\ status' = Unblocked(x.waiting_writers)
           /\ at' = [at EXCEPT ![t] = User]
        \/ /\ x.len = 0 /\ x.writers = 0
           /\ at' = [at EXCEPT ![t] = User] /\ UNCHANGED <<objects, status>>
        \/ /\ x.len = 0 /\ x.writers > 0
           /\ objects' = [objects EXCEPT ![o].waiting_readers = @ \cup {t}]
           /\ status' = [status EXCEPT ![t] = "Blocked"]
           /\ at' = [at EXCEPT ![t] = <<"read", fd>>]

\* Reading a regular file moves its offset, which is not modelled.
vfs_read_blocking(t, fd, want) ==
    /\ Calls(t, "read") /\ t # 0
    /\ fds[t][fd].access = "PipeRead" /\ PipeReadPass(t, fd, want)
    /\ UNCHANGED <<fds, unsaved, idle>>

ReadWoken(t, want) ==
    /\ status[t] = "Ready" /\ at[t][1] = "read"
    /\ PipeReadPass(t, at[t][2], want)
    /\ UNCHANGED <<fds, unsaved, idle>>
-----------------------------------------------------------------------------
(* poll on a set of descriptors, all with the same events.                  *)

\* vfs_poll_fd() after normalize_poll_revents().
vfs_poll_fd(t, fd, events) ==
    LET x == objects[fds[t][fd].object]
    IN  CASE fds[t][fd] = NoFd -> {"ERROR"}
          [] fds[t][fd].access = "File" ->
                events \cap (IF x.kind = "Writable" THEN {"READ", "WRITE"} ELSE {"READ"})
          [] fds[t][fd].access = "PipeRead" ->
                (IF x.len > 0 \/ x.writers = 0 THEN events \cap {"READ"} ELSE {})
                \cup (IF x.writers = 0 THEN {"HANGUP"} ELSE {})
          [] fds[t][fd].access = "PipeWrite" ->
                IF x.readers = 0 THEN {"HANGUP"}
                ELSE IF x.len < PIPE_SIZE THEN events \cap {"WRITE"} ELSE {}

PollReady(t, F, events) == \E fd \in F : vfs_poll_fd(t, fd, events) # {}

Registers(t, fd, events, access, event) ==
    fds[t][fd].access = access /\ event \in events

\* register_poll_waiters().
Registered(obj, t, F, events) ==
    LET R == {fds[t][fd].object : fd \in {f \in F : Registers(t, f, events, "PipeRead", "READ")}}
        W == {fds[t][fd].object : fd \in {f \in F : Registers(t, f, events, "PipeWrite", "WRITE")}}
    IN  [o \in ObjectId |->
           IF obj[o] = NoObject THEN NoObject
           ELSE [obj[o] EXCEPT !.waiting_readers = IF o \in R THEN @ \cup {t} ELSE @,
                                   !.waiting_writers = IF o \in W THEN @ \cup {t} ELSE @]]

Unregistered(t, F) ==
    LET touched == {fds[t][fd].object : fd \in {f \in F : fds[t][f] # NoFd}}
    IN  [o \in ObjectId |->
           IF o \in touched THEN [objects[o] EXCEPT !.waiting_readers = @ \ {t}, !.waiting_writers = @ \ {t}]
           ELSE objects[o]]

\* Descriptors 0, 1 and 2 that are not mapped are the terminal's: module Tty.
sys_poll(t, F, events, timeout) ==
    /\ Calls(t, "poll") /\ t # 0 /\ ~PollReady(t, F, events)
    /\ F # {} /\ \A fd \in F : fd >= 3 \/ fds[t][fd] # NoFd
    /\ objects' = Registered(objects, t, F, events)
    /\ status' = [status EXCEPT ![t] = "Blocked"]
    /\ at' = [at EXCEPT ![t] = <<"poll", F, events, timeout>>]
    /\ UNCHANGED <<fds, unsaved, idle>>

\* A task that has just sent USR1 to itself leaves the wait loop at once; every
\* other signal is taken by schedule() before the loop looks at it.
PollInterrupted(t, F, events) ==
    /\ Calls(t, "poll") /\ "signal" \in Ops /\ t # 0 /\ ~PollReady(t, F, events)
    /\ F # {} /\ \A fd \in F : fd >= 3 \/ fds[t][fd] # NoFd
    /\ objects' = Unregistered(t, F)
    /\ UNCHANGED <<fds, status, at, unsaved, idle>>

\* The deadline passes, whether the task is still asleep or not.
PollTimeout(t) ==
    /\ status[t] \in {"Ready", "Blocked"} /\ at[t][1] = "poll" /\ at[t][4] = "armed"
    /\ status' = [status EXCEPT ![t] = "Ready"]
    /\ at' = [at EXCEPT ![t][4] = "expired"]
    /\ UNCHANGED <<objects, fds, unsaved, idle>>

\* Behind the wait loop: unregister, then return or register and block again.
PollWoken(t) ==
    /\ status[t] = "Ready" /\ at[t][1] = "poll"
    /\ LET F == at[t][2] IN
       \/ /\ PollReady(t, F, at[t][3]) \/ at[t][4] = "expired"
          /\ objects' = Unregistered(t, F)
          /\ at' = [at EXCEPT ![t] = User] /\ UNCHANGED status
       \/ /\ ~PollReady(t, F, at[t][3]) /\ at[t][4] # "expired"
          /\ objects' = Registered(Unregistered(t, F), t, F, at[t][3])
          /\ status' = [status EXCEPT ![t] = "Blocked"] /\ UNCHANGED at
    /\ UNCHANGED <<fds, unsaved, idle>>

\* A wake-up that has nothing to do with the wait: a child has exited, USR1
\* or CONT has arrived.
SpuriousWake(t) ==
    /\ "spurious" \in Ops /\ status[t] = "Blocked"
    /\ status' = [status EXCEPT ![t] = "Ready"]
    /\ UNCHANGED <<objects, fds, at, unsaved, idle>>
-----------------------------------------------------------------------------
(* Creation and end of a task.                                             *)

\* One turn of the loop of inherit_fds() for the mapping m of a parent's to a
\* child's descriptor.  A mapping that finds its slot taken keeps the reference
\* that it has just counted.
Inherit(acc, m, parent) ==
    LET entry == fds[parent][m[1]]
        rollback == ReleaseTable(Event(acc.obj), acc.table).obj
    IN  CASE ~acc.ok -> acc
          [] acc.ok /\ entry = NoFd -> [ok |-> FALSE, obj |-> rollback, table |-> acc.table]
          [] acc.ok /\ entry # NoFd /\ acc.table[m[2]] # NoFd ->
                [ok |-> FALSE, obj |-> retain_fd(rollback, entry), table |-> acc.table]
          [] OTHER -> [ok |-> TRUE, obj |-> retain_fd(acc.obj, entry),
                       table |-> [acc.table EXCEPT ![m[2]] = entry]]

inherit_fds(parent, mappings) ==
    LET after[n \in 0 .. Len(mappings)] ==
            IF n = 0 THEN [ok |-> TRUE, obj |-> objects, table |-> [fd \in Fd |-> NoFd]]
            ELSE Inherit(after[n - 1], mappings[n], parent)
    IN  after[Len(mappings)]

\* inherit_all_fds(): every descriptor of the parent, into an empty table.
inherit_all_fds(parent) ==
    LET after[n \in 0 .. MAX_FDS] ==
            IF n = 0 THEN objects
            ELSE IF fds[parent][n - 1] = NoFd THEN after[n - 1]
            ELSE retain_fd(after[n - 1], fds[parent][n - 1])
    IN  after[MAX_FDS]

\* The identifier of the next task, if there is one left.
NextTask == {c \in Task : status[c] = "Free" /\ \A other \in Task : other < c => status[other] # "Free"}

\* The child is created with its table, or not at all.  The call takes any list;
\* the one with two mappings to a slot is an operation of its own.
spawn_fds(t, c, mappings) ==
    /\ Calls(t, "spawn")
    /\ "dupmap" \notin Ops => \A i, j \in DOMAIN mappings : i # j => mappings[i][2] # mappings[j][2]
    /\ LET in == inherit_fds(t, mappings)
       IN  /\ objects' = in.obj
           /\ fds' = IF in.ok THEN [fds EXCEPT ![c] = in.table] ELSE fds
           /\ status' = IF in.ok THEN [status EXCEPT ![c] = "Ready"] ELSE status
    /\ UNCHANGED <<at, unsaved, idle>>

\* A thread starts with a copy of the table.
spawn_thread(t, c) ==
    /\ Calls(t, "thread") /\ t # 0
    /\ objects' = inherit_all_fds(t)
    /\ fds' = [fds EXCEPT ![c] = fds[t]]
    /\ status' = [status EXCEPT ![c] = "Ready"]
    /\ UNCHANGED <<at, unsaved, idle>>

\* drop_task() inside the exit call.
exit_current(t) ==
    /\ Calls(t, "exit") /\ t # 0
    /\ LET ev == ReleaseTable(Event(objects), fds[t])
       IN  /\ objects' = ev.obj
           /\ status' = [Unblocked(ev.wakes) EXCEPT ![t] = "Dead"]
           /\ unsaved' = unsaved \ ev.commits
    /\ fds' = [fds EXCEPT ![t] = [fd \in Fd |-> NoFd]]
    /\ UNCHANGED <<at, idle>>

\* Task 0 kills a task: mark it dead, take its descriptors, commit, wake.
IKill(t) ==
    /\ "kill" \in Ops /\ itask = NoTask /\ icommits = {} /\ iwakes = {}
    /\ t # 0 /\ status[t] \in {"Ready", "Blocked"}
    /\ itask' = t
    /\ status' = [status EXCEPT ![t] = "Dead"]
    /\ UNCHANGED <<objects, fds, at, unsaved, iwakes, icommits>>

IRelease ==
    /\ itask # NoTask
    /\ LET ev == ReleaseTable(Event(objects), fds[itask])
       IN  objects' = ev.obj /\ iwakes' = ev.wakes /\ icommits' = ev.commits
    /\ fds' = [fds EXCEPT ![itask] = [fd \in Fd |-> NoFd]]
    /\ itask' = NoTask
    /\ UNCHANGED <<status, at, unsaved>>

ICommit ==
    /\ icommits # {}
    /\ unsaved' = unsaved \ icommits /\ icommits' = {}
    /\ UNCHANGED <<objects, fds, status, at, itask, iwakes>>

IWake ==
    /\ icommits = {} /\ iwakes # {}
    /\ status' = Unblocked(iwakes) /\ iwakes' = {}
    /\ UNCHANGED <<objects, fds, at, unsaved, itask, icommits>>
-----------------------------------------------------------------------------
Mappings == UNION {[1 .. n -> Fd \X ChildFds] : n \in 0 .. 2}

\* A poll for less than the events of both directions is an operation of its own.
PollEvents == IF "pollhup" \in Ops THEN SUBSET Events ELSE {Events}

\* Task 0 makes its calls between two turns of its loop.
UserNext(t) ==
    /\ t = 0 => itask = NoTask /\ icommits = {} /\ iwakes = {}
    /\ \/ vfs_open(t) \/ vfs_open_write(t) \/ vfs_pipe(t) \/ exit_current(t) \/ PollWoken(t)
       \/ \E fd \in Fd : vfs_dup(t, fd) \/ vfs_close(t, fd)
       \/ \E fd \in Fd, n \in 1 .. PIPE_SIZE : vfs_write(t, fd, n) \/ vfs_read_blocking(t, fd, n)
       \/ \E n \in 1 .. PIPE_SIZE : ReadWoken(t, n)
       \/ \E F \in SUBSET Fd, E \in PollEvents :
             PollInterrupted(t, F, E) \/ \E w \in {"forever", "armed"} : sys_poll(t, F, E, w)
       \/ \E c \in NextTask, m \in Mappings : spawn_fds(t, c, m)
       \/ \E c \in NextTask : spawn_thread(t, c)

Next ==
    \/ \E t \in Task : UserNext(t) \/ PollTimeout(t) \/ SpuriousWake(t) \/ IKill(t)
    \/ IRelease \/ ICommit \/ IWake

Spec == Init /\ [][Next]_vars
-----------------------------------------------------------------------------
\* The descriptors of tasks that have not ended, or that task 0 is at.
Holders(o, access) ==
    {h \in {t \in Task : t = itask \/ status[t] \in {"Ready", "Blocked"}} \X Fd :
        fds[h[1]][h[2]].object = o /\ fds[h[1]][h[2]].access \in access}

\* Reference counting (retain_fd, release_fd, inherit_fds and their rollback):
\* an object has exactly as many references, readers and writers as there are
\* descriptors of it, so that it is dropped with the last one and a pipe
\* reports its end exactly when nobody can write to it any more.
RefsExact ==
    \A o \in ObjectId :
        /\ objects[o].refs = Cardinality(Holders(o, {"File", "PipeRead", "PipeWrite"}))
        /\ objects[o].readers = Cardinality(Holders(o, {"PipeRead"}))
        /\ objects[o].writers = Cardinality(Holders(o, {"PipeWrite"}))

\* Nobody oversleeps.  A task that is asleep in vfs_read_blocking() has a
\* reason to be and somebody to wake it: its pipe is empty, has a writer and
\* knows the reader.  A task that is asleep in sys_poll() has no descriptor
\* that is ready.  The exceptions are the tasks that task 0 is about to wake.
SleepersAreWoken ==
    \A t \in Task \ iwakes : status[t] = "Blocked" =>
        /\ at[t][1] = "read" =>
               LET x == objects[fds[t][at[t][2]].object]
               IN  x.len = 0 /\ x.writers > 0 /\ t \in x.waiting_readers
        /\ at[t][1] = "poll" => ~PollReady(t, at[t][2], at[t][3])

\* Data written to a buffered file is not lost (release_fd, commit_files): it
\* stays in the object that has it until the last close or exit, on whatever
\* path, commits it.
NoLostData ==
    \A o \in unsaved : o \in icommits \/ (objects[o].kind = "Writable" /\ objects[o].dirty)
=============================================================================
