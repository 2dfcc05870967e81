------------------------------ MODULE MCSystem ------------------------------
(***************************************************************************)
(* Parts of the system that do not share state, on one instance: each      *)
(* behaviour is about the part that the variable part names.               *)
(***************************************************************************)
EXTENDS Pipe, Terminal, Shmem, WindowManager, Session, FutexCalls

VARIABLE part

systemVars ==
    <<part, vars, ttyVars, jobVars, shmVars, desk, gr, acc, fcVars>>

\* Tasks 2 and 3 are threads of one process.
ShmSpaces == [t \in 1 .. 3 |-> IF t = 1 THEN 1 ELSE 2]

SystemInit ==
    /\ part \in {"pipe", "tty", "jobs", "shmem", "wm", "greeter", "accounts",
                "futex"}
    /\ new
    /\ TtyInit
    /\ JobsInit
    /\ ShmInit
    /\ IF part = "wm" THEN WmInit ELSE desk = <<>>
    /\ IF part = "greeter" THEN GrInit ELSE gr = <<>>
    /\ IF part = "accounts" THEN AccInit ELSE acc = <<>>
    /\ FcInit

\* All parts but p stay as they are.
Only(p) ==
    /\ part = p /\ UNCHANGED part
    /\ IF p = "pipe" THEN TRUE ELSE UNCHANGED vars
    /\ IF p = "tty" THEN TRUE ELSE UNCHANGED ttyVars
    /\ IF p = "jobs" THEN TRUE ELSE UNCHANGED jobVars
    /\ IF p = "shmem" THEN TRUE ELSE UNCHANGED shmVars
    /\ IF p = "wm" THEN TRUE ELSE UNCHANGED desk
    /\ IF p = "greeter" THEN TRUE ELSE UNCHANGED gr
    /\ IF p = "accounts" THEN TRUE ELSE UNCHANGED acc
    /\ IF p = "futex" THEN TRUE ELSE UNCHANGED fcVars

SystemNext ==
    \/ Only("pipe") /\ Next
    \/ Only("tty") /\ TtyNext
    \/ Only("jobs") /\ JobsNext
    \/ Only("shmem") /\ ShmNext
    \/ Only("wm") /\ WmNext
    \/ Only("greeter") /\ GrNext
    \/ Only("accounts") /\ AccNext
    \/ Only("futex") /\ FcNext

SystemSpec == SystemInit /\ [][SystemNext]_systemVars

\* What is said of a part is checked in the behaviours of that part.
Of(p, says) == part = p => says

\* The rings, tables, queues and counters of all parts have their types, and
\* keep to their limits.
SystemTypeOK ==
    /\ Of("pipe", TypeOK)
    /\ Of("tty", TtyTypeOK /\ TtyWholeChars)
    /\ Of("jobs", JobsTypeOK)
    /\ Of("shmem", ShmTypeOK /\ ShmWithinLimit)
    /\ Of("wm", WmTypeOK)
    /\ Of("greeter", GrTypeOK)
    /\ Of("accounts", AccTypeOK)
    /\ Of("futex", FcTypeOK)

\* The lock screen and the session behind it stay apart: a locked session has
\* no menu or drag that goes on (LockedIsQuiet), and a password that was typed
\* does not outlive the lock screen (GrForgets). Someone can always administer
\* the machine, whatever was written to disk (AdminRemains).
SessionSound ==
    /\ Of("wm", LockedIsQuiet)
    /\ Of("greeter", GrForgets)
    /\ Of("accounts", AdminRemains)

\* What a step of the desktop may never do: let focus, key sink, drag or menu
\* pass to another window when windows close (WmFollows), or unlock a session
\* that nobody has earned (UnlockIsEarned).
SessionSteps ==
    [][/\ Of("wm", WmFollows)
       /\ Of("greeter", UnlockIsEarned)]_systemVars
=============================================================================
