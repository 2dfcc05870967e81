------------------------------ MODULE Services ------------------------------
(* The service supervisor (services.rs), the deferred work it and others     *)
(* queue (deferred.rs) and the write-back queue (writeback.rs).  All of it   *)
(* runs in task 0; system calls and task 0 add work between its steps.  The  *)
(* supervisor writes its table to disk whenever it has changed it, so a      *)
(* reboot starts again from the table of the last change (from the one       *)
(* before if the machine stops before the write, which is a reboot that      *)
(* comes before the change).  The writes themselves do not fail here.        *)
EXTENDS Naturals, Sequences, FiniteSets

CONSTANTS Service,       \* names of the services
          ServiceDeps,   \* dependencies[s], a set of services
          ServicePolicy, \* restart[s]: "always", "on-failure" or "manual"
          MAX_QUEUE,     \* deferred items
          MAX_PENDING,   \* write-back items
          DrainItems,    \* items one FlushWriteback drains (4 in the code)
          MaxItems,      \* bound on the items given to the write-back queue
          MaxFaults      \* bound on service failures and reboots

ASSUME ServicesAssumption ==
    /\ IsFiniteSet(Service) /\ ServiceDeps \in [Service -> SUBSET Service]
    /\ MAX_QUEUE \in Nat /\ MAX_QUEUE >= 2  \* room for every kind of work

VARIABLES svc,         \* state, failures and backoff of the services
          svcDue,      \* periodic services whose interval has passed
          deferQueue,  \* QUEUE of deferred.rs
          wbPending,   \* pending items, numbered
          wbCount,     \* items queued so far
          svcFaults    \* failures and reboots so far

svcVars == <<svc, svcDue, deferQueue, wbPending, wbCount, svcFaults>>

SvcStates == {"Stopped", "Running", "Failed"}
\* The services whose interval brings deferred work.
Periodic == Service \cap {"event-bus", "writeback"}
DeferredWork == {"FlushKernelLog", "FlushWriteback"}

\* service(): a service starts running, unless SERVICES.CFG says otherwise.
Booted(state) == [s \in Service |-> [state |-> state[s], failures |-> 0, backoff |-> FALSE]]

SvcInit ==
    /\ svc = Booted([s \in Service |-> "Running"])
    /\ svcDue = Periodic
    /\ deferQueue = <<>> /\ wbPending = <<>> /\ wbCount = 0 /\ svcFaults = 0
-----------------------------------------------------------------------------
DepsReady(s, table) == \A d \in ServiceDeps[s] : table[d].state = "Running"

\* The services that can be reached from those in S, where next gives one step.
Reached(S, next) ==
    LET round[n \in 0 .. Cardinality(Service)] ==
            IF n = 0 THEN S ELSE round[n - 1] \cup UNION {next[r] : r \in round[n - 1]}
    IN  round[Cardinality(Service)]

\* Mutant: the dependencies of the dependencies are forgotten.
StartSetShallow(s) == {s} \cup ServiceDeps[s]

\* start_recursive(): the service with everything it depends on.
StartSet(s) == Reached({s}, ServiceDeps)

\* stop_dependents(): what runs and needs a stopped service, until nothing changes.
\* A failed service in between keeps its state, and so does what needs only that.
StopSet(s) ==
    Reached({s} \cup {r \in Service : svc[r].state = "Stopped"},
            [d \in Service |-> {r \in Service : svc[r].state = "Running" /\ d \in ServiceDeps[r]}])

CommandOnly == UNCHANGED <<svcDue, deferQueue, wbPending, wbCount>>

\* start() and restart(), which differ in their counters only.
start(s) ==
    /\ svc' = [r \in Service |-> IF r \in StartSet(s)
                                 THEN [svc[r] EXCEPT !.state = "Running", !.backoff = FALSE] ELSE svc[r]]
    /\ CommandOnly /\ UNCHANGED svcFaults

stop(s) ==
    /\ svc' = [r \in Service |-> IF r \in StopSet(s)
                                 THEN [svc[r] EXCEPT !.state = "Stopped", !.backoff = FALSE] ELSE svc[r]]
    /\ CommandOnly /\ UNCHANGED svcFaults

\* fail(): the first failure may be retried at once, later ones back off.
fail(s) ==
    /\ svcFaults < MaxFaults
    /\ LET n == IF svc[s].failures = 2 THEN 2 ELSE svc[s].failures + 1
       IN  svc' = [svc EXCEPT ![s] = [state |-> "Failed", failures |-> n, backoff |-> n > 1]]
    /\ svcFaults' = svcFaults + 1
    /\ CommandOnly

\* init() with apply_persisted_state().
Reboot ==
    /\ svcFaults < MaxFaults
    /\ svc' = Booted([s \in Service |-> svc[s].state]) /\ svcDue' = Periodic
    /\ deferQueue' = <<>> /\ wbPending' = <<>>
    /\ svcFaults' = svcFaults + 1
    /\ UNCHANGED wbCount
-----------------------------------------------------------------------------
\* Mutant: what is queued already is queued again.
EnqueueAlways(queue, work) ==
    IF Len(queue) >= MAX_QUEUE THEN Append(Tail(queue), work) ELSE Append(queue, work)

\* deferred::enqueue(): each kind of work is queued once.
EnqueueWork(queue, work) ==
    IF \E i \in DOMAIN queue : queue[i] = work THEN queue
    ELSE IF Len(queue) >= MAX_QUEUE THEN Append(Tail(queue), work) ELSE Append(queue, work)

\* Mutant: the backoff is tested the wrong way round.
RestartDuringBackoff(s) ==
    svc[s].state = "Failed" /\ ServicePolicy[s] # "manual" /\ svc[s].backoff /\ DepsReady(s, svc)

MayRestart(s) == svc[s].state = "Failed" /\ ServicePolicy[s] # "manual" /\ ~svc[s].backoff /\ DepsReady(s, svc)

\* supervise_inner(): restarts and intervals, both judged by the states that the
\* pass has started with.
supervise ==
    LET table == [s \in Service |-> IF MayRestart(s) THEN [svc[s] EXCEPT !.state = "Running"] ELSE svc[s]]
        loops == {s \in svcDue : table[s].state = "Running" /\ DepsReady(s, svc)}
        log == IF "event-bus" \in loops THEN EnqueueWork(deferQueue, "FlushKernelLog") ELSE deferQueue
    IN  /\ svc' = table
        /\ svcDue' = svcDue \ loops
        /\ deferQueue' = IF "writeback" \in loops THEN EnqueueWork(log, "FlushWriteback") ELSE log
        /\ UNCHANGED <<wbPending, wbCount, svcFaults>>

IntervalPasses ==
    /\ svcDue # Periodic
    /\ svcDue' = Periodic
    /\ UNCHANGED <<svc, deferQueue, wbPending, wbCount, svcFaults>>

BackoffPasses(s) ==
    /\ svc[s].backoff
    /\ svc' = [svc EXCEPT ![s].backoff = FALSE]
    /\ UNCHANGED <<svcDue, deferQueue, wbPending, wbCount, svcFaults>>
-----------------------------------------------------------------------------
\* writeback::enqueue(): the oldest item makes room.
WritebackEnqueue ==
    /\ wbCount < MaxItems
    /\ wbCount' = wbCount + 1
    /\ wbPending' = Append(IF Len(wbPending) >= MAX_PENDING THEN Tail(wbPending) ELSE wbPending, wbCount + 1)
    /\ deferQueue' = EnqueueWork(deferQueue, "FlushWriteback")
    /\ UNCHANGED <<svc, svcDue, svcFaults>>

\* writeback::drain(): items leave the queue whether the flush works or not.
Drained4 == SubSeq(wbPending, DrainItems + 1, Len(wbPending))

\* drain_budget(1).
drain_budget ==
    /\ deferQueue # <<>>
    /\ deferQueue' = Tail(deferQueue)
    /\ wbPending' = IF Head(deferQueue) = "FlushWriteback" THEN Drained4 ELSE wbPending
    /\ UNCHANGED <<svc, svcDue, wbCount, svcFaults>>

SvcNext ==
    \/ \E s \in Service : start(s) \/ stop(s) \/ fail(s) \/ BackoffPasses(s)
    \/ Reboot
    \/ supervise \/ IntervalPasses
    \/ WritebackEnqueue \/ drain_budget

SvcSpec == SvcInit /\ [][SvcNext]_svcVars
-----------------------------------------------------------------------------
\* No service runs on top of a service that was stopped: stop() takes the
\* dependents along, starting and restarting bring the dependencies up, and a
\* reboot finds a table on disk of which the same is true.
NoStoppedDependency ==
    \A s \in Service : svc[s].state = "Running" => \A d \in ServiceDeps[s] : svc[d].state # "Stopped"

BeginsWith(r, q) == Len(r) >= Len(q) /\ SubSeq(r, 1, Len(q)) = q

\* Deferred work leaves the queue only from its front, to be run: no kind of
\* work is pushed out by others, however many are queued.
DeferredIsKept ==
    [][\/ BeginsWith(deferQueue', deferQueue)
       \/ deferQueue' = Tail(deferQueue)
       \/ deferQueue' = <<>>]_svcVars

\* A failed service that may be restarted comes back, unless something it needs
\* stops running (or somebody stops it).
ServiceComesBack ==
    \A s \in Service : (svc[s].state = "Failed" /\ ServicePolicy[s] # "manual")
                            ~> (svc[s].state # "Failed" \/ ~DepsReady(s, svc))

\* Write-back items that one drain leaves behind are not forgotten: as long as
\* the write-back service runs, the queue empties.
WritebackDrains ==
    wbPending # <<>> ~> (wbPending = <<>> \/ svc["writeback"].state # "Running" \/ ~DepsReady("writeback", svc))
=============================================================================
