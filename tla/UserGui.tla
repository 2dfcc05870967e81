------------------------------ MODULE UserGui ------------------------------
(* Windows of user programs (apps/user_gui.rs, the user_gui part of the      *)
(* compositor and wm/mod.rs): their event queues, the programs that poll     *)
(* them, close requests with a timeout, and the windows of dead programs.    *)
(* Task 0 holds the WM mutex while it composes, with interrupts on; system   *)
(* calls only try it and do without when it is taken.                        *)
EXTENDS Naturals, Sequences, FiniteSets, Functions

CONSTANTS GuiTask,      \* the programs
          GuiHandles,   \* bound on the windows that are opened
          MAX_EVENTS,   \* events a window remembers
          GuiInputs     \* bound on the events of the user

ASSUME GuiAssumption == MAX_EVENTS \in Nat \ {0}

VARIABLES guiWin,       \* open windows: handle -> [owner, events, waiters, close]
          guiNext,      \* next_user_gui_handle
          guiTasks,     \* status, place and armed deadline of the programs
          guiFrame,     \* what task 0 is doing: "idle" or "composing"
          guiWakes,     \* tasks it is about to wake, the WM mutex held
          guiKilled,    \* owners it has killed and not yet cleaned up after
          guiCleanup,   \* PENDING_USER_GUI_OWNER_CLEANUP
          guiInputs     \* events so far

guiVars == <<guiWin, guiNext, guiTasks, guiFrame, guiWakes, guiKilled, guiCleanup, guiInputs>>

GuiEvents == {"input", "close"}
GuiWindow == [owner : GuiTask, events : Seq(GuiEvents), waiters : SUBSET GuiTask, close : {"no", "asked", "late"}]

GuiInit ==
    /\ guiWin = <<>> /\ guiNext = 1
    /\ guiTasks = [t \in GuiTask |-> [status |-> "Ready", on |-> 0, deadline |-> FALSE]]
    /\ guiFrame = "idle" /\ guiWakes = {} /\ guiKilled = {} /\ guiCleanup = {}
    /\ guiInputs = 0

WmFree == guiFrame = "idle"
OwnedBy(t) == {h \in DOMAIN guiWin : guiWin[h].owner = t}
Without(handles) == Restrict(guiWin, DOMAIN guiWin \ handles)
GuiRuns(t) == guiTasks[t].status = "Ready" /\ guiTasks[t].on = 0
-----------------------------------------------------------------------------
(* System calls: interrupts are off, the WM mutex is only tried.             *)

user_gui_open(t) ==
    /\ GuiRuns(t) /\ WmFree /\ guiNext <= GuiHandles
    /\ guiWin' = [h \in DOMAIN guiWin \cup {guiNext} |->
                    IF h = guiNext THEN [owner |-> t, events |-> <<>>, waiters |-> {}, close |-> "no"] ELSE guiWin[h]]
    /\ guiNext' = guiNext + 1
    /\ UNCHANGED <<guiTasks, guiFrame, guiWakes, guiKilled, guiCleanup, guiInputs>>

user_gui_poll_event(t) ==
    /\ GuiRuns(t) /\ WmFree
    /\ \E h \in OwnedBy(t) :
          /\ guiWin[h].events # <<>>
          /\ guiWin' = [guiWin EXCEPT ![h].events = Tail(@)]
    /\ UNCHANGED <<guiNext, guiTasks, guiFrame, guiWakes, guiKilled, guiCleanup, guiInputs>>

user_gui_close(t) ==
    /\ GuiRuns(t) /\ WmFree
    /\ \E h \in OwnedBy(t) : guiWin' = Without({h})
    /\ UNCHANGED <<guiNext, guiTasks, guiFrame, guiWakes, guiKilled, guiCleanup, guiInputs>>

\* Mutant: with the mutex taken the windows are left to nobody.
GuiExitForgets(t) ==
    /\ GuiRuns(t)
    /\ guiTasks' = [guiTasks EXCEPT ![t].status = "Dead"]
    /\ guiWin' = IF WmFree THEN Without(OwnedBy(t)) ELSE guiWin
    /\ UNCHANGED <<guiNext, guiFrame, guiWakes, guiKilled, guiCleanup, guiInputs>>

\* exit_current(): the windows go at once, or when the mutex is free.
GuiExit(t) ==
    /\ GuiRuns(t)
    /\ guiTasks' = [guiTasks EXCEPT ![t].status = "Dead"]
    /\ IF WmFree
       THEN guiWin' = Without(OwnedBy(t)) /\ UNCHANGED guiCleanup
       ELSE guiCleanup' = guiCleanup \cup {t} /\ UNCHANGED guiWin
    /\ UNCHANGED <<guiNext, guiFrame, guiWakes, guiKilled, guiInputs>>

\* Mutant: the result of the registration is ignored.
NoPollDeadline == FALSE

\* sys_poll() on a window, without a timeout: with the mutex taken nothing can be
\* registered and the program sleeps for one tick only.
PollDeadline == ~WmFree

SleepInPoll(t, h) ==
    /\ guiTasks' = [guiTasks EXCEPT ![t] = [status |-> "Blocked", on |-> h, deadline |-> PollDeadline]]
    /\ guiWin' = IF WmFree THEN [guiWin EXCEPT ![h].waiters = @ \cup {t}] ELSE guiWin

sys_poll_gui(t) ==
    /\ GuiRuns(t)
    /\ \E h \in OwnedBy(t) : ~(WmFree /\ guiWin[h].events # <<>>) /\ SleepInPoll(t, h)
    /\ UNCHANGED <<guiNext, guiFrame, guiWakes, guiKilled, guiCleanup, guiInputs>>

\* Awake again: unregister (if the mutex can be had), scan, return or sleep on.
PollAgain(t) ==
    LET h == guiTasks[t].on
    IN  /\ guiTasks[t].status = "Ready" /\ h # 0
        /\ IF WmFree /\ guiWin[h].events # <<>>
           THEN /\ guiTasks' = [guiTasks EXCEPT ![t].on = 0, ![t].deadline = FALSE]
                /\ guiWin' = [guiWin EXCEPT ![h].waiters = @ \ {t}]
           ELSE SleepInPoll(t, h)
        /\ UNCHANGED <<guiNext, guiFrame, guiWakes, guiKilled, guiCleanup, guiInputs>>

\* The tick of an armed deadline, or a wake-up that has nothing to do with it.
GuiTick(t) ==
    /\ guiTasks[t].status = "Blocked"
    /\ guiTasks' = [guiTasks EXCEPT ![t].status = "Ready"]
    /\ UNCHANGED <<guiWin, guiNext, guiFrame, guiWakes, guiKilled, guiCleanup, guiInputs>>
-----------------------------------------------------------------------------
(* compose(), with the WM mutex held.                                        *)

\* It begins with drain_user_gui_owner_cleanup().
ComposeBegins ==
    /\ guiFrame = "idle"
    /\ guiFrame' = "composing"
    /\ guiWin' = Without(UNION {OwnedBy(t) : t \in guiCleanup})
    /\ guiCleanup' = {}
    /\ UNCHANGED <<guiNext, guiTasks, guiWakes, guiKilled, guiInputs>>

Composing == guiFrame = "composing" /\ guiWakes = {} /\ guiKilled = {}

\* push_event(): the oldest event makes room, all waiters are to be woken.
PushEvent(h, event) ==
    LET old == guiWin[h].events
    IN  [guiWin[h] EXCEPT !.events = Append(IF Len(old) >= MAX_EVENTS THEN Tail(old) ELSE old, event), !.waiters = {}]

\* handle_key(), handle_click(), handle_scroll(), update() with a new size.
GuiInput ==
    /\ Composing /\ guiInputs < GuiInputs
    /\ \E h \in DOMAIN guiWin :
          /\ guiWin' = [guiWin EXCEPT ![h] = PushEvent(h, "input")]
          /\ guiWakes' = guiWin[h].waiters
    /\ guiInputs' = guiInputs + 1
    /\ UNCHANGED <<guiNext, guiTasks, guiFrame, guiKilled, guiCleanup>>

\* request_or_close_window(): the request is sent once.
request_close ==
    /\ Composing
    /\ \E h \in DOMAIN guiWin :
          /\ guiWin[h].close = "no"
          /\ guiWin' = [guiWin EXCEPT ![h] = [PushEvent(h, "close") EXCEPT !.close = "asked"]]
          /\ guiWakes' = guiWin[h].waiters
    /\ UNCHANGED <<guiNext, guiTasks, guiFrame, guiKilled, guiCleanup, guiInputs>>

GuiWake ==
    \E t \in guiWakes :
        /\ guiWakes' = guiWakes \ {t}
        /\ guiTasks' = IF guiTasks[t].status = "Blocked" THEN [guiTasks EXCEPT ![t].status = "Ready"] ELSE guiTasks
        /\ UNCHANGED <<guiWin, guiNext, guiFrame, guiKilled, guiCleanup, guiInputs>>

\* USER_GUI_CLOSE_TIMEOUT_MS have passed since the request.
CloseTimesOut ==
    /\ \E h \in DOMAIN guiWin : guiWin[h].close = "asked" /\ guiWin' = [guiWin EXCEPT ![h].close = "late"]
    /\ UNCHANGED <<guiNext, guiTasks, guiFrame, guiWakes, guiKilled, guiCleanup, guiInputs>>

\* Mutant: nobody is killed.
ReapNobody == FALSE /\ UNCHANGED guiVars

\* reap_unresponsive_user_gui_closes(): kill_task() marks the owner dead...
reap_unresponsive_user_gui_closes ==
    /\ Composing
    /\ \E h \in DOMAIN guiWin :
          LET t == guiWin[h].owner
          IN  /\ guiWin[h].close = "late" /\ guiTasks[t].status # "Dead"
              /\ guiTasks' = [guiTasks EXCEPT ![t].status = "Dead"]
              /\ guiKilled' = {t}
    /\ UNCHANGED <<guiWin, guiNext, guiFrame, guiWakes, guiCleanup, guiInputs>>

\* ... and queues the windows, as task 0 itself holds the mutex.
KillCleansUp ==
    /\ guiKilled # {}
    /\ guiCleanup' = guiCleanup \cup guiKilled
    /\ guiKilled' = {}
    /\ UNCHANGED <<guiWin, guiNext, guiTasks, guiFrame, guiWakes, guiInputs>>

ComposeEnds ==
    /\ Composing
    /\ \A h \in DOMAIN guiWin : guiWin[h].close = "late" => guiTasks[guiWin[h].owner].status = "Dead"
    /\ guiFrame' = "idle"
    /\ UNCHANGED <<guiWin, guiNext, guiTasks, guiWakes, guiKilled, guiCleanup, guiInputs>>

GuiFrameStep == ComposeBegins \/ GuiWake \/ reap_unresponsive_user_gui_closes \/ KillCleansUp \/ ComposeEnds

GuiNextStep ==
    \/ \E t \in GuiTask : \/ user_gui_open(t)
                          \/ user_gui_poll_event(t)
                          \/ user_gui_close(t)
                          \/ GuiExit(t)
                          \/ sys_poll_gui(t)
                          \/ PollAgain(t)
                          \/ GuiTick(t)
    \/ GuiInput \/ request_close \/ CloseTimesOut
    \/ GuiFrameStep

GuiSpec == GuiInit /\ [][GuiNextStep]_guiVars
-----------------------------------------------------------------------------
\* A program that sleeps in poll without a deadline is registered with its
\* window, which has no event for it, or task 0 is about to wake it: events
\* that arrive while the WM mutex could not be had are not slept through.
GuiPollerIsWoken ==
    \A t \in GuiTask :
        guiTasks[t].status = "Blocked" /\ ~guiTasks[t].deadline =>
            LET h == guiTasks[t].on
            IN  h \in DOMAIN guiWin /\ (t \in guiWakes \/ (t \in guiWin[h].waiters /\ guiWin[h].events = <<>>))

\* The windows of a dead program are on their way out: the program was killed
\* by task 0 just now, or compose() will find it in the cleanup queue.
GuiNoOrphans ==
    \A h \in DOMAIN guiWin :
        guiTasks[guiWin[h].owner].status = "Dead" => guiWin[h].owner \in guiKilled \cup guiCleanup

\* A window whose close button is pressed goes away, even if its program never
\* reads the request or the request is pushed out of the full event queue.
GuiCloses == \A h \in 1 .. GuiHandles : (h \in DOMAIN guiWin /\ guiWin[h].close # "no") ~> h \notin DOMAIN guiWin
=============================================================================
