------------------------------- MODULE Shmem -------------------------------
(* Shared memory (vfs.rs): regions of frames, the references that tasks hold *)
(* to them, the limit per task, and the release when tasks exit, are killed  *)
(* or call exec.  System calls run at once; a task killed by task 0 loses    *)
(* its references in a step of its own, after it is marked dead.             *)
EXTENDS Naturals

CONSTANTS ShmTasks,     \* number of tasks
          ShmSpace,     \* address space of each task: threads share one
          ShmPages,     \* sizes a region may be created with
          ShmIds,       \* bound on the regions that are created
          ShmFrames,    \* frames of the machine
          ShmTaskPages  \* MAX_SHMEM_BYTES_PER_TASK, in pages

ShmTask == 1 .. ShmTasks

\* The counts are numbers, and a region that exists has at least one page.
ASSUME ShmAssumption ==
    /\ ShmTasks \in Nat /\ ShmIds \in Nat /\ ShmFrames \in Nat /\ ShmTaskPages \in Nat
    /\ ShmPages \subseteq Nat \ {0}

VARIABLES shmRegion,  \* SHMEM_REGIONS: pages and refcount, or [pages |-> 0, ...]
          shmNextId,  \* SHMEM_NEXT_ID
          shmRefs,    \* task_shmem_refs: how often each task holds each region
          shmMapped,  \* pairs of an address space and a region that is mapped in it
          shmFree,    \* free frames
          shmTasks    \* "live", "dead" (references not yet dropped) or "gone"

shmVars == <<shmRegion, shmNextId, shmRefs, shmMapped, shmFree, shmTasks>>
Freed == [pages |-> 0, refcount |-> 0]

ShmTypeOK ==
    /\ shmRegion \in [1 .. ShmIds -> [pages : ShmPages \cup {0}, refcount : Nat]]
    /\ shmNextId \in 1 .. ShmIds + 1
    /\ shmRefs \in [ShmTask -> [1 .. ShmIds -> Nat]]
    /\ shmMapped \subseteq {ShmSpace[t] : t \in ShmTask} \X (1 .. ShmIds)
    /\ shmFree \in 0 .. ShmFrames
    /\ shmTasks \in [ShmTask -> {"live", "dead", "gone"}]

ShmInit ==
    /\ shmRegion = [i \in 1 .. ShmIds |-> Freed] /\ shmNextId = 1
    /\ shmRefs = [t \in ShmTask |-> [i \in 1 .. ShmIds |-> 0]]
    /\ shmMapped = {} /\ shmFree = ShmFrames
    /\ shmTasks = [t \in ShmTask |-> "live"]
-----------------------------------------------------------------------------
\* f[1] + ... + f[n].
Total(f, n) ==
    LET sum[k \in 0 .. n] == IF k = 0 THEN 0 ELSE sum[k - 1] + f[k] IN sum[n]

\* task_shmem_pages(): a region counts once for each reference.
PagesOf(t) == Total([i \in 1 .. ShmIds |-> shmRefs[t][i] * shmRegion[i].pages], ShmIds)

CanAdd(t, pages) == PagesOf(t) + pages <= ShmTaskPages

\* vfs_shmem_create(): frames that were taken are given back when one is missing.
vfs_shmem_create(t) ==
    \E pages \in ShmPages :
        /\ shmTasks[t] = "live" /\ shmNextId <= ShmIds
        /\ CanAdd(t, pages) /\ pages <= shmFree
        /\ shmFree' = shmFree - pages
        /\ shmRegion' = [shmRegion EXCEPT ![shmNextId] = [pages |-> pages, refcount |-> 1]]
        /\ shmRefs' = [shmRefs EXCEPT ![t][shmNextId] = 1]
        /\ shmNextId' = shmNextId + 1
        /\ UNCHANGED <<shmMapped, shmTasks>>

\* vfs_shmem_map(): mapping again is allowed and counts again.
vfs_shmem_map(t, i) ==
    /\ shmTasks[t] = "live" /\ shmRegion[i] # Freed
    /\ CanAdd(t, shmRegion[i].pages)
    /\ shmRegion' = [shmRegion EXCEPT ![i].refcount = @ + 1]
    /\ shmRefs' = [shmRefs EXCEPT ![t][i] = @ + 1]
    /\ shmMapped' = shmMapped \cup {<<ShmSpace[t], i>>}
    /\ UNCHANGED <<shmNextId, shmFree, shmTasks>>

\* ... and a page table that cannot be had ends it early: some pages stay mapped
\* and no reference is taken.
MapFails(t, i) ==
    /\ shmTasks[t] = "live" /\ shmRegion[i] # Freed
    /\ CanAdd(t, shmRegion[i].pages)
    /\ shmMapped' = shmMapped \cup {<<ShmSpace[t], i>>}
    /\ UNCHANGED <<shmRegion, shmNextId, shmRefs, shmFree, shmTasks>>

\* Mutant: a region that was mapped twice is released once.
ReleasedOnce(t, i) ==
    IF shmRegion[i].refcount <= 1 THEN Freed ELSE [shmRegion[i] EXCEPT !.refcount = @ - 1]

\* drop_task_shmem_refs() with release_shmem_refs().
Released(t, i) ==
    IF shmRegion[i].refcount <= shmRefs[t][i] THEN Freed
    ELSE [shmRegion[i] EXCEPT !.refcount = @ - shmRefs[t][i]]

drop_task_shmem_refs(t) ==
    LET ids == {i \in 1 .. ShmIds : shmRefs[t][i] > 0}
    IN  /\ shmRegion' = [i \in 1 .. ShmIds |-> IF i \in ids THEN Released(t, i) ELSE shmRegion[i]]
        /\ shmFree' = shmFree + Total([i \in 1 .. ShmIds |-> IF i \in ids /\ Released(t, i) = Freed
                                                            THEN shmRegion[i].pages ELSE 0], ShmIds)
        /\ shmRefs' = [shmRefs EXCEPT ![t] = [i \in 1 .. ShmIds |-> 0]]

\* sys_exec(): the task has a new address space; the old one goes with its maps.
ShmExec(t) ==
    /\ shmTasks[t] = "live"
    /\ drop_task_shmem_refs(t)
    /\ shmMapped' = {p \in shmMapped : p[1] # ShmSpace[t]}
    /\ UNCHANGED <<shmNextId, shmTasks>>

\* exit_current() at once, kill_task() in two steps.
ShmExit(t) ==
    /\ shmTasks[t] = "live"
    /\ shmTasks' = [shmTasks EXCEPT ![t] = "gone"]
    /\ drop_task_shmem_refs(t)
    /\ UNCHANGED <<shmNextId, shmMapped>>

ShmKill(t) ==
    /\ shmTasks[t] = "live"
    /\ shmTasks' = [shmTasks EXCEPT ![t] = "dead"]
    /\ UNCHANGED <<shmRegion, shmNextId, shmRefs, shmMapped, shmFree>>

ShmCleanup(t) ==
    /\ shmTasks[t] = "dead"
    /\ shmTasks' = [shmTasks EXCEPT ![t] = "gone"]
    /\ drop_task_shmem_refs(t)
    /\ UNCHANGED <<shmNextId, shmMapped>>

ShmNext ==
    \E t \in ShmTask :
        \/ vfs_shmem_create(t) \/ ShmExec(t) \/ ShmExit(t) \/ ShmKill(t) \/ ShmCleanup(t)
        \/ \E i \in 1 .. ShmIds : vfs_shmem_map(t, i) \/ MapFails(t, i)

ShmSpec == ShmInit /\ [][ShmNext]_shmVars
-----------------------------------------------------------------------------
RefsTo(i) == Total([t \in ShmTask |-> shmRefs[t][i]], ShmTasks)

\* The count of a region is the number of references that tasks hold, and its
\* frames are free exactly when there are none: creates, repeated maps, exits,
\* kills and execs in any order neither leak a frame nor free one in use.
ShmRefsExact ==
    /\ \A i \in 1 .. ShmIds : shmRegion[i].refcount = RefsTo(i)
    /\ shmFree + Total([i \in 1 .. ShmIds |-> shmRegion[i].pages], ShmIds) = ShmFrames

\* No task holds references to more pages than MAX_SHMEM_BYTES_PER_TASK allows.
ShmWithinLimit == \A t \in ShmTask : PagesOf(t) <= ShmTaskPages
=============================================================================
