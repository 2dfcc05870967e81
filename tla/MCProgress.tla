----------------------------- MODULE MCProgress -----------------------------
(***************************************************************************)
(* Parts of the system of which something must happen eventually.  They    *)
(* share no state; a behaviour is about the part that the variable names.  *)
(***************************************************************************)
EXTENDS UserGui, Services, TLC

VARIABLE part

progressVars == <<part, guiVars, svcVars>>

Deps == ("event-bus" :> {}) @@ ("device-registry" :> {"event-bus"})
        @@ ("network-stack" :> {"device-registry"}) @@ ("writeback" :> {"event-bus"})
Policies == [s \in Service |-> IF s = "network-stack" THEN "manual" ELSE "always"]

ProgressInit == part \in {"gui", "services"} /\ GuiInit /\ SvcInit

ProgressNext ==
    /\ UNCHANGED part
    /\ \/ part = "gui" /\ GuiNextStep /\ UNCHANGED svcVars
       \/ part = "services" /\ SvcNext /\ UNCHANGED guiVars

\* Task 0 goes on with its loop and time passes, in every part.
ProgressSpec ==
    /\ ProgressInit /\ [][ProgressNext]_progressVars
    /\ WF_progressVars(part = "gui" /\ GuiFrameStep /\ UNCHANGED <<part, svcVars>>)
    /\ WF_progressVars(part = "gui" /\ CloseTimesOut /\ UNCHANGED <<part, svcVars>>)
    /\ WF_progressVars(part = "services" /\ supervise /\ UNCHANGED <<part, guiVars>>)
    /\ WF_progressVars(part = "services" /\ drain_budget /\ UNCHANGED <<part, guiVars>>)
    /\ WF_progressVars(part = "services" /\ IntervalPasses /\ UNCHANGED <<part, guiVars>>)
    /\ WF_progressVars(part = "services" /\ (\E s \in Service : BackoffPasses(s)) /\ UNCHANGED <<part, guiVars>>)

\* A failed service is restarted in the end (ServiceComesBack), and the work of
\* the periodic ones is done: the write-back queue empties (WritebackDrains).
ServicesRecover == ServiceComesBack /\ WritebackDrains
=============================================================================
