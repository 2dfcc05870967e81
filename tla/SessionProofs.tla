--------------------------- MODULE SessionProofs ---------------------------
(***************************************************************************)
(* The lock screen, the session behind it and the accounts (modules        *)
(* WindowManager and Session), for any set of users, names and windows.    *)
(***************************************************************************)
EXTENDS MCSystem, TLAPS

\* A record with the fields F, and what an assignment to a field does.
IsRecord(F, r) == r = [f \in F |-> r[f]]

\* Assigning one field of the state of the lock screen, the desk or the accounts leaves the others.
LEMMA Assigned ==
    ASSUME NEW F, NEW r, IsRecord(F, r), NEW f \in F, NEW v
    PROVE  /\ IsRecord(F, [r EXCEPT ![f] = v])
           /\ [r EXCEPT ![f] = v][f] = v
           /\ \A g \in F : g # f => [r EXCEPT ![f] = v][g] = r[g]
  BY DEF IsRecord
-----------------------------------------------------------------------------
(* The lock screen.                                                        *)

GrFields == {"locked", "first", "user", "typed", "focus", "owner", "password", "confirm", "at",
             "said", "tries", "shut"}
IsGreeter(g) == IsRecord(GrFields, g) /\ g.tries = [n \in GrUser |-> g.tries[n]]

\* Only the counters differ.
LEMMA Counters ==
    ASSUME NEW g, IsGreeter(g), NEW n \in GrUser
    PROVE  /\ IsGreeter(record_login_failure(g, n)) /\ IsGreeter(clear_login_failures(g, n))
           /\ record_login_failure(g, n).locked = g.locked /\ record_login_failure(g, n).typed = g.typed
           /\ clear_login_failures(g, n).locked = g.locked /\ clear_login_failures(g, n).typed = g.typed
           /\ clear_login_failures(g, n).tries[n] = 0
  <1>1. /\ IsGreeter(clear_login_failures(g, n))
        /\ clear_login_failures(g, n).locked = g.locked /\ clear_login_failures(g, n).typed = g.typed
        /\ clear_login_failures(g, n).tries[n] = 0
    BY DEF clear_login_failures, IsGreeter, IsRecord, GrFields
  <1>2. /\ IsGreeter(record_login_failure(g, n))
        /\ record_login_failure(g, n).locked = g.locked /\ record_login_failure(g, n).typed = g.typed
    BY Zenon DEF record_login_failure, IsGreeter, IsRecord, GrFields
  <1> QED BY <1>1, <1>2
\* What a step from g to e may do: a password that was typed does not outlive
\* the lock screen, and the screen unlocks only for somebody who may log in.
GrEarned(g, e) ==
    g.locked /\ ~e.locked =>
        \/ g.first /\ g.owner # "" /\ g.password = "good" /\ g.confirm = "good" /\ ~e.first
        \/ \E n \in GrUser \ g.shut : e.tries[n] = 0
GrGood(g, e) == IsGreeter(e) /\ (~e.locked => ~e.typed) /\ GrEarned(g, e)
GrStays(g, e) == IsGreeter(e) /\ e.locked = g.locked

\* A screen that stays locked is in order.
LEMMA StaysGood ==
    ASSUME NEW g, g.locked, NEW e, GrStays(g, e)
    PROVE  GrGood(g, e)
  BY DEF GrStays, GrGood, GrEarned

\* login_with_credentials(), for the greeter and the boot configuration.
LEMMA LoginGood ==
    ASSUME NEW g, IsGreeter(g), g.locked, NEW n, NEW right
    PROVE  GrGood(g, login_with_credentials(g, n, right))
  <1> DEFINE e == login_with_credentials(g, n, right)
  <1>1. CASE n = ""
    <2>1. e = [g EXCEPT !.focus = "user"] BY Zenon, <1>1 DEF login_with_credentials
    <2>2. GrStays(g, e) BY <2>1 DEF GrStays, IsGreeter, IsRecord, GrFields
    <2> QED BY <2>2, StaysGood
  <1>2. ASSUME NEW f, IsGreeter(f), f.locked = g.locked PROVE GrStays(g, GrRefused(f))
    BY Zenon, <1>2 DEF GrRefused, GrStays, IsGreeter, IsRecord, GrFields
  <1>3. CASE n # "" /\ (n \in g.shut \/ n \notin GrUser)
    <2>1. e = GrRefused(g) BY Zenon, <1>3 DEF login_with_credentials
    <2> QED BY Zenon, <1>2, <2>1, StaysGood
  <1>4. CASE n # "" /\ n \notin g.shut /\ n \in GrUser /\ ~right
    <2>1. e = GrRefused(record_login_failure(g, n)) BY Zenon, <1>4 DEF login_with_credentials
    <2>2. GrStays(g, e) BY Zenon, <1>2, <1>4, <2>1, Counters
    <2> QED BY <2>2, StaysGood
  <1>5. CASE n # "" /\ n \notin g.shut /\ n \in GrUser /\ right
    <2> DEFINE f == clear_login_failures(g, n)
    <2>1. e = GrUnlocked(f) BY Zenon, <1>5 DEF login_with_credentials
    <2>2. IsGreeter(f) /\ f.tries[n] = 0 BY Zenon, <1>5, Counters
    <2> HIDE DEF f, e
    <2>3. IsGreeter(e) /\ ~e.locked /\ ~e.typed /\ e.tries = f.tries
      BY Zenon, <2>1, <2>2 DEF GrUnlocked, IsGreeter, IsRecord, GrFields
    <2> QED BY Zenon, <1>5, <2>2, <2>3 DEF GrGood, GrEarned, e
  <1> QED BY Zenon, <1>1, <1>3, <1>4, <1>5

\* The greeter's keys and clicks.
LEMMA GreeterGood ==
    ASSUME NEW g, IsGreeter(g), g.locked, NEW e \in handle_greeter_input(g) \cup handle_greeter_click(g)
    PROVE  GrGood(g, e)
  <1>1. CASE e \in try_greeter_login(g)
    BY Zenon, <1>1, LoginGood DEF try_greeter_login
  <1>2. ASSUME NEW n, e = select_greeter_user(g, n) PROVE GrStays(g, e)
    BY Zenon, <1>2 DEF select_greeter_user, GrStays, IsGreeter, IsRecord, GrFields
  <1>3. ASSUME NEW v, e \in {[g EXCEPT !.focus = v], [g EXCEPT !.user = v], [g EXCEPT !.typed = v],
                             [g EXCEPT !.typed = FALSE, !.focus = "password"], g}
        PROVE  GrStays(g, e)
    BY Zenon, <1>3 DEF GrStays, IsGreeter, IsRecord, GrFields
  <1>4. \/ e \in try_greeter_login(g) \/ \E n : e = select_greeter_user(g, n)
        \/ \E v : e \in {[g EXCEPT !.focus = v], [g EXCEPT !.user = v], [g EXCEPT !.typed = v],
                          [g EXCEPT !.typed = FALSE, !.focus = "password"], g}
    BY Zenon DEF handle_greeter_input, handle_greeter_click, push_greeter_char, PopGreeterChar
  <1> QED BY <1>1, <1>2, <1>3, <1>4, StaysGood
\* An assignment to a field of the wizard.
LEMMA EditedStays ==
    ASSUME NEW g, IsGreeter(g), NEW v
    PROVE  /\ GrStays(g, g)
           /\ GrStays(g, [g EXCEPT !.said = v]) /\ GrStays(g, [g EXCEPT !.at = v])
           /\ GrStays(g, [g EXCEPT !.owner = v]) /\ GrStays(g, [g EXCEPT !.password = v])
           /\ GrStays(g, [g EXCEPT !.confirm = v]) /\ GrStays(g, [g EXCEPT !.first = v])
  BY Zenon DEF GrStays, IsGreeter, IsRecord, GrFields

Edit(g, v, e) ==
    \/ e = [g EXCEPT !.said = v] \/ e = [g EXCEPT !.at = v] \/ e = [g EXCEPT !.owner = v]
    \/ e = [g EXCEPT !.password = v] \/ e = [g EXCEPT !.confirm = v]

\* A form on which somebody types stays locked, and its counters stay.
LEMMA EditStays ==
    ASSUME NEW g, IsGreeter(g), NEW v, NEW e, Edit(g, v, e)
    PROVE  GrStays(g, e)
  <1>1. CASE e = [g EXCEPT !.said = v] BY Zenon, <1>1, EditedStays
  <1>2. CASE e = [g EXCEPT !.at = v] BY Zenon, <1>2, EditedStays
  <1>3. CASE e = [g EXCEPT !.owner = v] BY Zenon, <1>3, EditedStays
  <1>4. CASE e = [g EXCEPT !.password = v] BY Zenon, <1>4, EditedStays
  <1>5. CASE e = [g EXCEPT !.confirm = v] BY Zenon, <1>5, EditedStays
  <1> QED BY Zenon, <1>1, <1>2, <1>3, <1>4, <1>5 DEF Edit

\* Two assignments.
LEMMA StaysTwice ==
    ASSUME NEW g, NEW e, NEW f, GrStays(g, e), GrStays(e, f)
    PROVE  GrStays(g, f)
  BY Zenon DEF GrStays

\* So does a form that shows why a login was refused (greeter_status).
LEMMA ComplainStays ==
    ASSUME NEW g, IsGreeter(g), NEW v
    PROVE  GrStays(g, GrComplain(g, v)) /\ GrStays(g, GrRetype(g))
  <1>1. ASSUME NEW a PROVE GrStays(g, GrComplain(g, a))
    <2>1. GrStays(g, [g EXCEPT !.said = TRUE]) BY Zenon, EditedStays
    <2>2. GrStays([g EXCEPT !.said = TRUE], [[g EXCEPT !.said = TRUE] EXCEPT !.at = a])
      BY Zenon, <2>1, EditedStays DEF GrStays
    <2> QED BY Zenon, <2>1, <2>2, StaysTwice DEF GrComplain
  <1> DEFINE h == GrComplain(g, 2)
  <1>2. GrRetype(g) = [[h EXCEPT !.password = ""] EXCEPT !.confirm = ""] BY Zenon DEF GrRetype
  <1>3. GrStays(g, h) BY Zenon, <1>1
  <1> HIDE DEF h
  <1> DEFINE k == [h EXCEPT !.password = ""]
  <1>4. GrStays(h, k) BY Zenon, <1>3, EditedStays DEF GrStays
  <1>7. GrRetype(g) = [k EXCEPT !.confirm = ""] BY Zenon, <1>2
  <1> HIDE DEF k
  <1>8. IsGreeter(k) BY Zenon, <1>4 DEF GrStays
  <1>9. GrStays(k, [k EXCEPT !.confirm = ""]) BY Zenon, <1>8, EditedStays
  <1>5. GrStays(k, GrRetype(g)) BY Zenon, <1>7, <1>9
  <1>6. GrStays(g, GrRetype(g)) BY Zenon, <1>3, <1>4, <1>5, StaysTwice
  <1> QED BY Zenon, <1>1, <1>6

\* The last page of the wizard.
LEMMA SetupGood ==
    ASSUME NEW g, IsGreeter(g), g.locked, g.first, NEW e \in complete_first_boot_setup(g)
    PROVE  GrGood(g, e)
  <1>1. \/ \E v : e = GrComplain(g, v) \/ e = GrRetype(g)
        \/ e = [g EXCEPT !.said = TRUE] \/ e = [g EXCEPT !.said = TRUE, !.first = FALSE]
        \/ /\ g.owner # "" /\ g.password = g.confirm /\ g.password = "good"
           /\ e = [GrUnlocked(g) EXCEPT !.user = g.owner, !.first = FALSE, !.password = "", !.confirm = "", !.said = FALSE]
    BY Zenon DEF complete_first_boot_setup
  <1>2. CASE \/ \E v : e = GrComplain(g, v) \/ e = GrRetype(g) \/ e = [g EXCEPT !.said = TRUE]
    BY Zenon, <1>2, ComplainStays, EditedStays, StaysGood
  <1>3. CASE e = [g EXCEPT !.said = TRUE, !.first = FALSE]
    <2>1. GrStays(g, [g EXCEPT !.said = TRUE]) BY Zenon, EditedStays
    <2>2. GrStays([g EXCEPT !.said = TRUE], e) BY Zenon, <1>3, <2>1, EditedStays DEF GrStays
    <2> QED BY Zenon, <2>1, <2>2, StaysTwice, StaysGood
  <1>4. CASE /\ g.owner # "" /\ g.password = g.confirm /\ g.password = "good"
             /\ e = [GrUnlocked(g) EXCEPT !.user = g.owner, !.first = FALSE, !.password = "", !.confirm = "", !.said = FALSE]
    <2> DEFINE h == GrUnlocked(g)
    <2>1. IsGreeter(h) /\ ~h.locked /\ ~h.typed
      BY Zenon DEF GrUnlocked, IsGreeter, IsRecord, GrFields
    <2> HIDE DEF h
    <2>2. e = [h EXCEPT !.user = g.owner, !.first = FALSE, !.password = "", !.confirm = "", !.said = FALSE]
      BY Zenon, <1>4 DEF h
    <2>3. IsGreeter(e) BY Zenon, <2>1, <2>2 DEF IsGreeter, IsRecord, GrFields
    <2>4. e.locked = h.locked /\ e.typed = h.typed /\ ~e.first
      BY Zenon, <2>1, <2>2 DEF IsGreeter, IsRecord, GrFields
    <2> QED BY Zenon, <1>4, <2>1, <2>3, <2>4 DEF GrGood, GrEarned
  <1> QED BY Zenon, <1>1, <1>2, <1>3, <1>4

\* The wizard's keys and clicks.
LEMMA WizardGood ==
    ASSUME NEW g, IsGreeter(g), g.locked, g.first, NEW e \in handle_first_boot_input(g) \cup handle_first_boot_click(g)
    PROVE  GrGood(g, e)
  <1>1. e \in complete_first_boot_setup(g) \/ e = g \/ \E v : Edit(g, v, e)
    BY Zenon DEF handle_first_boot_input, handle_first_boot_click, advance_or_complete_first_boot, EditFirstBoot,
           handle_first_boot_escape, cycle_first_boot_focus, Edit
  <1>2. CASE e = g BY Zenon, <1>2, EditedStays, StaysGood
  <1>3. CASE \E v : Edit(g, v, e) BY Zenon, <1>3, EditStays, StaysGood
  <1> QED BY Zenon, <1>1, <1>2, <1>3, SetupGood

GrInv == IsGreeter(gr) /\ GrForgets

\* Every step of the lock screen, of the terminal and of the clock.
LEMMA GreeterStep ==
    ASSUME GrInv, GrNext
    PROVE  GrInv' /\ UnlockIsEarned
  <1>1. CASE LockedInput \/ run_locked_startup_command
    <2>1. gr.locked BY Zenon, <1>1 DEF LockedInput, run_locked_startup_command
    <2>2. \/ gr' \in handle_greeter_input(gr) \cup handle_greeter_click(gr)
          \/ gr.first /\ gr' \in handle_first_boot_input(gr) \cup handle_first_boot_click(gr)
          \/ \E n, right : gr' = login_with_credentials(gr, n, right)
      BY Zenon, <1>1 DEF LockedInput, run_locked_startup_command
    <2>3. GrGood(gr, gr') BY Zenon, <2>1, <2>2, GreeterGood, WizardGood, LoginGood DEF GrInv
    <2> QED BY Zenon, <2>3 DEF GrGood, GrEarned, GrInv, GrForgets, UnlockIsEarned
  <1>2. CASE lock_session_form
    <2>1. PICK n \in GrUser : gr' = [gr EXCEPT !.locked = TRUE, !.user = n, !.typed = FALSE, !.focus = "password"]
      BY Zenon, <1>2 DEF lock_session_form
    <2>2. IsGreeter(gr') /\ gr'.locked = TRUE BY Zenon, <2>1 DEF GrInv, IsGreeter, IsRecord, GrFields
    <2> QED BY Zenon, <2>2 DEF GrInv, GrForgets, UnlockIsEarned
  <1>3. CASE TerminalLogin \/ TerminalSetup \/ TerminalReset \/ LockoutEnds
    <2>1. ASSUME NEW v PROVE IsGreeter([gr EXCEPT !.first = v]) /\ [gr EXCEPT !.first = v].locked = gr.locked
                             /\ [gr EXCEPT !.first = v].typed = gr.typed
      BY Zenon DEF GrInv, IsGreeter, IsRecord, GrFields
    <2>2. ASSUME NEW v PROVE IsGreeter([gr EXCEPT !.shut = v]) /\ [gr EXCEPT !.shut = v].locked = gr.locked
                             /\ [gr EXCEPT !.shut = v].typed = gr.typed
      BY Zenon DEF GrInv, IsGreeter, IsRecord, GrFields
    <2>3. CASE TerminalLogin
      <3>1. IsGreeter(gr') /\ gr'.locked = gr.locked /\ gr'.typed = gr.typed
        <4>1. PICK n \in GrUser : gr' = clear_login_failures(gr, n) \/ gr' = record_login_failure(gr, n)
          BY Zenon, <2>3 DEF TerminalLogin
        <4>2. IsGreeter(gr) BY Zenon DEF GrInv
        <4>3. CASE gr' = clear_login_failures(gr, n) BY Zenon, <4>2, <4>3, Counters
        <4>4. CASE gr' = record_login_failure(gr, n) BY Zenon, <4>2, <4>4, Counters
        <4> QED BY Zenon, <4>1, <4>3, <4>4
      <3> QED BY Zenon, <3>1 DEF GrInv, GrForgets, UnlockIsEarned
    <2>4. CASE TerminalSetup \/ TerminalReset
      <3>1. IsGreeter(gr') /\ gr'.locked = gr.locked /\ gr'.typed = gr.typed
        BY Zenon, <2>4, <2>1 DEF TerminalSetup, TerminalReset
      <3> QED BY Zenon, <3>1 DEF GrInv, GrForgets, UnlockIsEarned
    <2>5. CASE LockoutEnds
      <3>1. IsGreeter(gr') /\ gr'.locked = gr.locked /\ gr'.typed = gr.typed
        BY Zenon, <2>5, <2>2 DEF LockoutEnds
      <3> QED BY Zenon, <3>1 DEF GrInv, GrForgets, UnlockIsEarned
    <2> QED BY Zenon, <1>3, <2>3, <2>4, <2>5
  <1> QED BY Zenon, <1>1, <1>2, <1>3 DEF GrNext

\* The form of new_boxed() holds no typed password.
LEMMA GreeterStart == GrInit => GrInv
  <1> SUFFICES ASSUME GrInit PROVE GrInv OBVIOUS
  <1>1. gr.typed = FALSE /\ gr.tries = [n \in GrUser |-> 0] BY Zenon DEF GrInit
  <1>2. IsRecord(GrFields, gr) BY Zenon DEF GrInit, IsRecord, GrFields
  <1>3. gr.tries = [n \in GrUser |-> gr.tries[n]] BY Zenon, <1>1
  <1> QED BY Zenon, <1>1, <1>2, <1>3 DEF GrInv, GrForgets, IsGreeter
-----------------------------------------------------------------------------
(* The window manager.  Most handlers leave the lock as it is.             *)

DeskFields == {"windows", "workspaces", "minimized", "z", "focused", "current", "sink", "taskbar",
               "grab", "start", "locked"}
IsDesk(d) == IsRecord(DeskFields, d)
Quiet(d) == ~d.start /\ d.taskbar = 0 /\ d.grab = NoGrab
DeskOK(d) == IsDesk(d) /\ (d.locked => Quiet(d))
Keeps(d, e) == IsDesk(e) /\ e.locked = d.locked

\* Two handlers of the compositor, one after the other.
LEMMA KeepsTwice ==
    ASSUME NEW d, NEW e, NEW f, Keeps(d, e), Keeps(e, f)
    PROVE  Keeps(d, f)
  BY Zenon DEF Keeps

\* An open desk that keeps its lock is in order.
LEMMA OpenOK ==
    ASSUME NEW d, ~d.locked, NEW e, Keeps(d, e)
    PROVE  DeskOK(e)
  BY Zenon DEF Keeps, DeskOK

\* One assignment.
LEMMA FieldKeeps ==
    ASSUME NEW d, IsDesk(d), NEW v
    PROVE  /\ Keeps(d, d)
           /\ Keeps(d, [d EXCEPT !.windows = v]) /\ Keeps(d, [d EXCEPT !.workspaces = v])
           /\ Keeps(d, [d EXCEPT !.minimized = v]) /\ Keeps(d, [d EXCEPT !.z = v])
           /\ Keeps(d, [d EXCEPT !.focused = v]) /\ Keeps(d, [d EXCEPT !.current = v])
           /\ Keeps(d, [d EXCEPT !.sink = v]) /\ Keeps(d, [d EXCEPT !.taskbar = v])
           /\ Keeps(d, [d EXCEPT !.grab = v]) /\ Keeps(d, [d EXCEPT !.start = v])
  BY Zenon DEF Keeps, IsDesk, IsRecord, DeskFields

Assigns(d, v, e) ==
    \/ e = [d EXCEPT !.minimized = v] \/ e = [d EXCEPT !.focused = v] \/ e = [d EXCEPT !.sink = v]
    \/ e = [d EXCEPT !.grab = v] \/ e = [d EXCEPT !.start = v]

\* A handler that assigns a field other than the lock keeps the lock.
LEMMA AssignsKeep ==
    ASSUME NEW d, IsDesk(d), NEW v, NEW e, Assigns(d, v, e)
    PROVE  Keeps(d, e)
  <1>1. CASE e = [d EXCEPT !.minimized = v] BY Zenon, <1>1, FieldKeeps
  <1>2. CASE e = [d EXCEPT !.focused = v] BY Zenon, <1>2, FieldKeeps
  <1>3. CASE e = [d EXCEPT !.sink = v] BY Zenon, <1>3, FieldKeeps
  <1>4. CASE e = [d EXCEPT !.grab = v] BY Zenon, <1>4, FieldKeeps
  <1>5. CASE e = [d EXCEPT !.start = v] BY Zenon, <1>5, FieldKeeps
  <1> QED BY Zenon, <1>1, <1>2, <1>3, <1>4, <1>5 DEF Assigns

\* Windows are stacked, added, focused, snapped and minimized.
LEMMA StackKeeps ==
    ASSUME NEW d, IsDesk(d), NEW i
    PROVE  /\ Keeps(d, WmRaise(d, i)) /\ Keeps(d, focus_window(d, i)) /\ Keeps(d, snap_window(d, i))
           /\ Keeps(d, repair_focus_if_hidden(d)) /\ Keeps(d, focus_previous_window(d))
           /\ Keeps(d, minimize_all_windows(d)) /\ Keeps(d, toggle_show_desktop(d))
  <1>1. ASSUME NEW e, IsDesk(e), NEW k PROVE Keeps(e, WmRaise(e, k))
    BY Zenon, <1>1 DEF WmRaise, Keeps, IsDesk, IsRecord, DeskFields
  <1>2. Keeps(d, focus_window(d, i))
    <2> DEFINE e == [d EXCEPT !.current = d.workspaces[i], !.minimized = @ \ {d.windows[i]}]
    <2>1. Keeps(d, e) BY Zenon DEF Keeps, IsDesk, IsRecord, DeskFields
    <2>2. focus_window(d, i) = WmRaise(e, i) BY Zenon DEF focus_window
    <2> HIDE DEF e
    <2>3. Keeps(e, WmRaise(e, i)) BY Zenon, <1>1, <2>1 DEF Keeps
    <2> QED BY Zenon, <2>1, <2>2, <2>3, KeepsTwice
  <1>3. Keeps(d, snap_window(d, i))
    <2> DEFINE e == [d EXCEPT !.minimized = @ \ {d.windows[i]}, !.start = FALSE]
    <2>1. Keeps(d, e) BY Zenon DEF Keeps, IsDesk, IsRecord, DeskFields
    <2>2. snap_window(d, i) = WmRaise(e, i) BY Zenon DEF snap_window
    <2> HIDE DEF e
    <2>3. Keeps(e, WmRaise(e, i)) BY Zenon, <1>1, <2>1 DEF Keeps
    <2> QED BY Zenon, <2>1, <2>2, <2>3, KeepsTwice
  <1>4. Keeps(d, repair_focus_if_hidden(d))
    BY Zenon, FieldKeeps DEF repair_focus_if_hidden
  <1>5. Keeps(d, focus_previous_window(d))
    <2> DEFINE e == WmRaise(d, PreviousVisible(d))
    <2>1. Keeps(d, e) BY Zenon, <1>1
    <2>2. focus_previous_window(d) = [d EXCEPT !.focused = 0] \/ focus_previous_window(d) = [e EXCEPT !.start = FALSE]
      BY Zenon DEF focus_previous_window
    <2> HIDE DEF e
    <2>3. Keeps(e, [e EXCEPT !.start = FALSE]) BY Zenon, <2>1, FieldKeeps DEF Keeps
    <2>4. Keeps(d, [d EXCEPT !.focused = 0]) BY Zenon, FieldKeeps
    <2>5. Keeps(d, [e EXCEPT !.start = FALSE]) BY Zenon, <2>1, <2>3, KeepsTwice
    <2>6. CASE focus_previous_window(d) = [d EXCEPT !.focused = 0] BY Zenon, <2>4, <2>6
    <2>7. CASE focus_previous_window(d) = [e EXCEPT !.start = FALSE] BY Zenon, <2>5, <2>7
    <2> QED BY Zenon, <2>2, <2>6, <2>7
  <1>6. Keeps(d, minimize_all_windows(d))
    BY Zenon DEF minimize_all_windows, Keeps, IsDesk, IsRecord, DeskFields
  <1>7. Keeps(d, toggle_show_desktop(d))
    <2> DEFINE e == [d EXCEPT !.minimized = @ \ WmHere(d)]
    <2>1. Keeps(d, e) BY Zenon, FieldKeeps
    <2>2. toggle_show_desktop(d) \in {[e EXCEPT !.focused = top_visible_window(e)], minimize_all_windows(d)}
      BY Zenon DEF toggle_show_desktop
    <2> HIDE DEF e
    <2>3. Keeps(e, [e EXCEPT !.focused = top_visible_window(e)]) BY Zenon, <2>1, FieldKeeps DEF Keeps
    <2> QED BY Zenon, <1>6, <2>1, <2>2, <2>3, KeepsTwice
  <1> QED BY Zenon, <1>1, <1>2, <1>3, <1>4, <1>5, <1>6, <1>7
\* Windows come and go, and the workspace changes: the menus stay closed.
LEMMA WindowsKeep ==
    ASSUME NEW d, IsDesk(d), NEW i
    PROVE  /\ Keeps(d, add_window(d, i)) /\ Keeps(d, close_window(d, i))
           /\ Keeps(d, request_or_close_window(d, i)) /\ Keeps(d, switch_workspace(d, i))
           /\ Quiet(d) => Quiet(add_window(d, i)) /\ Quiet(close_window(d, i))
  <1>1. Keeps(d, add_window(d, i)) /\ (Quiet(d) => Quiet(add_window(d, i)))
    <2> DEFINE e == add_window(d, i)
    <2>1. Keeps(d, e) BY Zenon DEF add_window, Keeps, IsDesk, IsRecord, DeskFields
    <2>2. e.start = d.start BY Zenon DEF add_window, IsDesk, IsRecord, DeskFields
    <2>3. e.taskbar = d.taskbar BY Zenon DEF add_window, IsDesk, IsRecord, DeskFields
    <2>4. e.grab = d.grab BY Zenon DEF add_window, IsDesk, IsRecord, DeskFields
    <2> HIDE DEF e
    <2>5. Quiet(d) => Quiet(e) BY Zenon, <2>2, <2>3, <2>4 DEF Quiet
    <2> QED BY Zenon, <2>1, <2>5 DEF e
  <1>2. Keeps(d, close_window(d, i)) /\ (Quiet(d) => Quiet(close_window(d, i)))
    <2> DEFINE left == [d EXCEPT !.windows = WmWithout(@, i), !.workspaces = WmWithout(@, i),
                                 !.z = WmUnstacked(@, i),
                                 !.minimized = @ \ {d.windows[i]}, !.sink = WmShifted(@, i)]
               v == top_visible_window(left)
    <2>1. Keeps(d, left) /\ left.start = d.start BY Zenon DEF Keeps, IsDesk, IsRecord, DeskFields
    <2>2. close_window(d, i) = [left EXCEPT !.focused = v, !.grab = NoGrab, !.taskbar = 0]
      BY Zenon DEF close_window
    <2> HIDE DEF left, v
    <2> DEFINE e == [left EXCEPT !.focused = v, !.grab = NoGrab, !.taskbar = 0]
    <2>3. Keeps(left, e) BY Zenon, <2>1 DEF Keeps, IsDesk, IsRecord, DeskFields
    <2>4. e.start = left.start /\ e.taskbar = 0 BY Zenon, <2>1 DEF Keeps, IsDesk, IsRecord, DeskFields
    <2>5. e.grab = NoGrab BY Zenon, <2>1 DEF Keeps, IsDesk, IsRecord, DeskFields
    <2> HIDE DEF e
    <2>6. close_window(d, i) = e BY Zenon, <2>2 DEF e
    <2>7. Quiet(d) => Quiet(e) BY Zenon, <2>1, <2>4, <2>5 DEF Quiet
    <2>8. Keeps(d, e) BY Zenon, <2>1, <2>3, KeepsTwice
    <2> QED BY Zenon, <2>6, <2>7, <2>8
  <1>3. Keeps(d, request_or_close_window(d, i)) BY Zenon, <1>2, FieldKeeps DEF request_or_close_window
  <1>4. Keeps(d, switch_workspace(d, i))
    <2> DEFINE e == [d EXCEPT !.current = i]
               v == top_visible_window(e)
               f == [e EXCEPT !.focused = v, !.grab = NoGrab, !.taskbar = 0, !.start = FALSE]
    <2>1. Keeps(d, e) BY Zenon, FieldKeeps
    <2>2. switch_workspace(d, i) = d \/ switch_workspace(d, i) = f BY Zenon DEF switch_workspace
    <2> HIDE DEF e, v
    <2>3. Keeps(e, f) BY Zenon, <2>1 DEF Keeps, IsDesk, IsRecord, DeskFields
    <2> HIDE DEF f
    <2> QED BY Zenon, <2>1, <2>2, <2>3, KeepsTwice, FieldKeeps
  <1> QED BY Zenon, <1>1, <1>2, <1>3, <1>4

\* The menus of an open desk.
LEMMA MenusKeep ==
    ASSUME NEW d, IsDesk(d)
    PROVE  /\ Keeps(d, close_start_menu(d)) /\ Keeps(d, toggle_start_menu(d))
           /\ Keeps(d, open_start_menu_search(d)) /\ Keeps(d, show_error_dialog(d))
           /\ \A e \in toggle_notification_center(d) : Keeps(d, e)
  <1>1. Keeps(d, close_start_menu(d)) BY Zenon, FieldKeeps DEF close_start_menu
  <1>2. Keeps(d, toggle_start_menu(d)) BY Zenon DEF toggle_start_menu, Keeps, IsDesk, IsRecord, DeskFields
  <1>3. Keeps(d, open_start_menu_search(d)) BY Zenon DEF open_start_menu_search, Keeps, IsDesk, IsRecord, DeskFields
  <1>4. Keeps(d, CloseMenus(d)) BY Zenon DEF CloseMenus, Keeps, IsDesk, IsRecord, DeskFields
  <1>5. Keeps(d, d) BY Zenon, FieldKeeps
  <1> QED BY Zenon, <1>1, <1>2, <1>3, <1>4, <1>5 DEF show_error_dialog, toggle_notification_center
AllKeep(d, S) == \A e \in S : Keeps(d, e)
AllOK(S) == \A e \in S : DeskOK(e)

\* Programs are started, terminals brought to the front, windows restored.
LEMMA LaunchKeeps ==
    ASSUME NEW d, IsDesk(d)
    PROVE  /\ AllKeep(d, launch_app(d)) /\ AllKeep(d, run_terminal_command(d))
           /\ AllKeep(d, restore_session(d)) /\ AllKeep(d, consume_window_open_request(d))
  <1>1. AllKeep(d, launch_app(d))
    <2>1. Keeps(d, d) /\ Keeps(d, show_error_dialog(d)) /\ \A id : Keeps(d, add_window(d, id))
      BY Zenon, FieldKeeps, MenusKeep, WindowsKeep
    <2> QED BY Zenon, <2>1 DEF AllKeep, launch_app
  <1>2. ASSUME NEW e \in run_terminal_command(d) PROVE Keeps(d, e)
    <2>1. CASE \E i : e = focus_window(d, i) BY Zenon, <2>1, StackKeeps
    <2>2. CASE \E f \in launch_app(d) : e = f \/ \E i : e = focus_window(f, i)
      <3>1. PICK f \in launch_app(d) : e = f \/ \E i : e = focus_window(f, i) BY Zenon, <2>2
      <3>2. Keeps(d, f) /\ IsDesk(f) BY Zenon, <1>1 DEF AllKeep, Keeps
      <3>3. \A i : Keeps(f, focus_window(f, i)) BY Zenon, <3>2, StackKeeps
      <3> QED BY Zenon, <3>1, <3>2, <3>3, KeepsTwice
    <2> QED BY Zenon, <1>2, <2>1, <2>2 DEF run_terminal_command
  <1>3. ASSUME NEW e \in restore_session(d) PROVE Keeps(d, e)
    <2>1. CASE e = d BY Zenon, <2>1, FieldKeeps
    <2>2. ASSUME NEW id, NEW w, e = Restored(d, id, w) PROVE Keeps(d, e)
      <3> DEFINE a == add_window(d, id)
                 b == RestoreOne(d, id, w)
                 f == [b EXCEPT !.current = 0]
                 v == top_visible_window(f)
      <3>1. Keeps(d, a) BY Zenon, WindowsKeep
      <3>2. b = [a EXCEPT !.workspaces[Len(d.windows) + 1] = w] BY Zenon DEF RestoreOne
      <3>3. e = [f EXCEPT !.focused = v] BY Zenon, <2>2 DEF Restored
      <3> HIDE DEF a
      <3>4. Keeps(a, b) BY Zenon, <3>1, <3>2 DEF Keeps, IsDesk, IsRecord, DeskFields
      <3> HIDE DEF b
      <3>5. Keeps(b, f) BY Zenon, <3>4, FieldKeeps DEF Keeps
      <3> HIDE DEF f, v
      <3>6. Keeps(f, e) BY Zenon, <3>3, <3>5, FieldKeeps DEF Keeps
      <3> QED BY Zenon, <3>1, <3>4, <3>5, <3>6, KeepsTwice
    <2> QED BY Zenon, <1>3, <2>1, <2>2 DEF restore_session
  <1>4. ASSUME NEW e \in consume_window_open_request(d) PROVE Keeps(d, e)
    <2>1. PICK f \in launch_app(d) : e = repair_focus_if_hidden(f) BY Zenon, <1>4 DEF consume_window_open_request
    <2>2. Keeps(d, f) /\ IsDesk(f) BY Zenon, <1>1 DEF AllKeep, Keeps
    <2> QED BY Zenon, <2>1, <2>2, StackKeeps, KeepsTwice
  <1> QED BY Zenon, <1>1, <1>2, <1>3, <1>4 DEF AllKeep

\* Locking and logging out clear what could act on the windows.
LEMMA LockOK ==
    ASSUME NEW d, IsDesk(d)
    PROVE  DeskOK(lock_session(d)) /\ DeskOK(logout_session(d))
  <1>1. ASSUME NEW e, IsDesk(e) PROVE DeskOK(lock_session(e))
    <2> DEFINE f == clear_session_chrome(e)
    <2>1. IsDesk(f) BY Zenon, <1>1 DEF clear_session_chrome, IsDesk, IsRecord, DeskFields
    <2>2. f.start = FALSE BY Zenon, <1>1 DEF clear_session_chrome, IsDesk, IsRecord, DeskFields
    <2>3. f.taskbar = 0 BY Zenon, <1>1 DEF clear_session_chrome, IsDesk, IsRecord, DeskFields
    <2>4. f.grab = NoGrab BY Zenon, <1>1 DEF clear_session_chrome, IsDesk, IsRecord, DeskFields
    <2>5. lock_session(e) = [f EXCEPT !.locked = TRUE] BY Zenon DEF lock_session
    <2> HIDE DEF f
    <2> DEFINE h == lock_session(e)
    <2>6. IsDesk(h) BY Zenon, <2>1, <2>5 DEF IsDesk, IsRecord, DeskFields
    <2>7. h.start = f.start /\ h.taskbar = f.taskbar /\ h.grab = f.grab
      BY Zenon, <2>1, <2>5 DEF IsDesk, IsRecord, DeskFields
    <2> HIDE DEF h
    <2>8. DeskOK(h) BY Zenon, <2>2, <2>3, <2>4, <2>6, <2>7 DEF DeskOK, Quiet
    <2> QED BY Zenon, <2>8 DEF h
  <1>2. IsDesk(minimize_all_windows(d)) BY Zenon, StackKeeps DEF Keeps
  <1> QED BY Zenon, <1>1, <1>2 DEF logout_session

\* What the start menu does with an open desk.
LEMMA StartMenuOK ==
    ASSUME NEW d, IsDesk(d), ~d.locked
    PROVE  /\ AllOK(run_start_inline_action(d)) /\ AllOK(activate_start_search_kind(d))
           /\ AllOK({close_start_menu(e) : e \in run_start_inline_action(d)})
  <1>1. ASSUME NEW e \in run_start_inline_action(d) PROVE DeskOK(e)
    <2>1. \/ e = d \/ e = show_error_dialog(d) \/ e = lock_session(d) \/ e = logout_session(d)
          \/ e = [d EXCEPT !.start = TRUE] \/ e \in restore_session(d) \/ \E id : e = add_window(d, id)
      BY Zenon, <1>1 DEF run_start_inline_action
    <2>2. CASE e = lock_session(d) \/ e = logout_session(d) BY Zenon, <2>2, LockOK
    <2>3. CASE e = d \/ e = show_error_dialog(d) \/ e \in restore_session(d) \/ \E id : e = add_window(d, id)
      BY Zenon, <2>3, FieldKeeps, MenusKeep, LaunchKeeps, WindowsKeep, OpenOK DEF AllKeep
    <2>4. CASE e = [d EXCEPT !.start = TRUE]
      <3>1. Keeps(d, e) BY Zenon, <2>4, FieldKeeps
      <3> QED BY Zenon, <3>1, OpenOK
    <2> QED BY Zenon, <2>1, <2>2, <2>3, <2>4
  <1>2. ASSUME NEW e \in activate_start_search_kind(d) PROVE DeskOK(e)
    BY Zenon, <1>1, <1>2, LaunchKeeps, OpenOK DEF activate_start_search_kind, AllKeep
  <1>3. ASSUME NEW e, DeskOK(e) PROVE DeskOK(close_start_menu(e))
    <2>1. Keeps(e, close_start_menu(e)) BY Zenon, <1>3, MenusKeep DEF DeskOK
    <2>2. close_start_menu(e).start = FALSE
      BY Zenon, <1>3 DEF close_start_menu, DeskOK, IsDesk, IsRecord, DeskFields
    <2>3. close_start_menu(e).taskbar = e.taskbar /\ close_start_menu(e).grab = e.grab
      BY Zenon, <1>3 DEF close_start_menu, DeskOK, IsDesk, IsRecord, DeskFields
    <2> QED BY Zenon, <1>3, <2>1, <2>2, <2>3 DEF DeskOK, Keeps, Quiet
  <1> QED BY Zenon, <1>1, <1>2, <1>3 DEF AllOK
\* Keys on an open desk.
LEMMA KeysOK ==
    ASSUME NEW d, IsDesk(d), ~d.locked
    PROVE  AllOK(handle_key_input(d))
  <1>1. ASSUME NEW e \in handle_start_menu_input(d) PROVE DeskOK(e)
    <2> DEFINE f == close_start_menu(d)
    <2>1. Keeps(d, f) /\ Keeps(d, d) BY Zenon, MenusKeep, FieldKeeps
    <2>2. e = d \/ e = f \/ e \in activate_start_search_kind(f) BY Zenon, <1>1 DEF handle_start_menu_input
    <2> HIDE DEF f
    <2>3. IsDesk(f) /\ ~f.locked BY Zenon, <2>1 DEF Keeps
    <2> QED BY Zenon, <2>1, <2>2, <2>3, OpenOK, StartMenuOK DEF AllOK
  <1>2. ASSUME NEW e \in handle_global_shortcut(d) PROVE DeskOK(e)
    <2>1. \/ e = open_start_menu_search(d) \/ e = toggle_start_menu(d) \/ e = focus_previous_window(d)
          \/ e = show_error_dialog(d) \/ e \in toggle_notification_center(d)
          \/ \E w : e = switch_workspace(d, w)
          \/ e = snap_window(d, d.focused) \/ e = request_or_close_window(d, d.focused)
          \/ \E f \in launch_app(d) : e = close_start_menu(f)
          \/ e \in activate_start_search_kind(d)
      BY Zenon, <1>2 DEF handle_global_shortcut
    <2>2. CASE \/ e = open_start_menu_search(d) \/ e = toggle_start_menu(d) \/ e = show_error_dialog(d)
               \/ e \in toggle_notification_center(d)
      BY Zenon, <2>2, MenusKeep, OpenOK
    <2>3. CASE e = focus_previous_window(d) \/ e = snap_window(d, d.focused)
      BY Zenon, <2>3, StackKeeps, OpenOK
    <2>4. CASE (\E w : e = switch_workspace(d, w)) \/ e = request_or_close_window(d, d.focused)
      BY Zenon, <2>4, WindowsKeep, OpenOK
    <2>5. CASE \E f \in launch_app(d) : e = close_start_menu(f)
      <3>1. PICK f \in launch_app(d) : e = close_start_menu(f) BY Zenon, <2>5
      <3>2. Keeps(d, f) BY Zenon, LaunchKeeps DEF AllKeep
      <3>3. Keeps(f, e) BY Zenon, <3>1, <3>2, MenusKeep DEF Keeps
      <3> QED BY Zenon, <3>2, <3>3, KeepsTwice, OpenOK
    <2>6. CASE e \in activate_start_search_kind(d) BY Zenon, <2>6, StartMenuOK DEF AllOK
    <2> QED BY Zenon, <2>1, <2>2, <2>3, <2>4, <2>5, <2>6
  <1>3. ASSUME NEW e \in focus_first_switcher_match(d) PROVE DeskOK(e)
    BY Zenon, <1>3, StackKeeps, OpenOK DEF focus_first_switcher_match
  <1>4. ASSUME NEW e \in handle_key(d) PROVE DeskOK(e)
    <2>1. e = d \/ (\E v : Assigns(d, v, e)) \/ e \in consume_window_open_request(d)
      BY Zenon, <1>4 DEF handle_key, Assigns
    <2>2. CASE e = d \/ \E v : Assigns(d, v, e)
      <3>1. Keeps(d, d) BY Zenon, FieldKeeps
      <3>2. Keeps(d, e) BY Zenon, <2>2, <3>1, AssignsKeep
      <3> QED BY Zenon, <3>2, OpenOK
    <2>3. CASE e \in consume_window_open_request(d) BY Zenon, <2>3, LaunchKeeps, OpenOK DEF AllKeep
    <2> QED BY Zenon, <2>1, <2>2, <2>3
  <1> QED BY Zenon, <1>1, <1>2, <1>3, <1>4 DEF AllOK, handle_key_input

\* A click behind the start menu leaves the desk open.
LEMMA ClickKeeps ==
    ASSUME NEW d, IsDesk(d)
    PROVE  AllKeep(d, BehindMenus(d)) /\ AllKeep(d, handle_taskbar_menu_click(d))
  <1>1. ASSUME NEW i, NEW e \in PressWindow(d, i) PROVE Keeps(d, e)
    <2> DEFINE r == WmRaise(d, i)
    <2>1. Keeps(d, r) BY Zenon, StackKeeps
    <2>2. \/ e = r \/ e = request_or_close_window(r, i)
          \/ \E v : Assigns(r, v, e)
          \/ e \in consume_window_open_request(r)
          \/ \E v, f : Assigns(r, v, f) /\ e \in consume_window_open_request(f)
      <3>1. \/ e = r \/ e = request_or_close_window(r, i) \/ e = [r EXCEPT !.minimized = @ \cup {d.windows[i]}]
            \/ e \in {[r EXCEPT !.grab = <<g, i>>] : g \in {"title", "other"}}
            \/ e \in consume_window_open_request(r)
            \/ e \in consume_window_open_request([r EXCEPT !.grab = IF d.windows[i] \in WmApp THEN <<"other", i>> ELSE @])
            \/ e \in consume_window_open_request([r EXCEPT !.sink = IF @ = i THEN 0 ELSE @])
        BY Zenon, <1>1 DEF PressWindow
      <3> HIDE DEF r
      <3>2. CASE e = [r EXCEPT !.minimized = @ \cup {d.windows[i]}] BY Zenon, <3>2 DEF Assigns
      <3>3. CASE e \in {[r EXCEPT !.grab = <<g, i>>] : g \in {"title", "other"}} BY Zenon, <3>3 DEF Assigns
      <3>4. CASE e \in consume_window_open_request([r EXCEPT !.grab = IF d.windows[i] \in WmApp THEN <<"other", i>> ELSE @])
        BY Zenon, <3>4 DEF Assigns
      <3>5. CASE e \in consume_window_open_request([r EXCEPT !.sink = IF @ = i THEN 0 ELSE @])
        BY Zenon, <3>5 DEF Assigns
      <3> QED BY Zenon, <3>1, <3>2, <3>3, <3>4, <3>5
    <2> HIDE DEF r
    <2>3. IsDesk(r) BY Zenon, <2>1 DEF Keeps
    <2>4. CASE e = request_or_close_window(r, i)
      <3>1. Keeps(r, e) BY Zenon, <2>3, <2>4, WindowsKeep
      <3> QED BY Zenon, <2>1, <3>1, KeepsTwice
    <2>5. ASSUME NEW f, f = r \/ \E v : Assigns(r, v, f) PROVE Keeps(d, f)
      <3>1. CASE f = r BY Zenon, <2>1, <3>1
      <3>2. ASSUME NEW v, Assigns(r, v, f) PROVE Keeps(d, f)
        <4>1. Keeps(r, f) BY Zenon, <2>3, <3>2, AssignsKeep
        <4> QED BY Zenon, <2>1, <4>1, KeepsTwice
      <3> QED BY Zenon, <2>5, <3>1, <3>2
    <2>6. ASSUME NEW f, f = r \/ (\E v : Assigns(r, v, f)), e \in consume_window_open_request(f)
          PROVE  Keeps(d, e)
      <3>1. Keeps(d, f) BY Zenon, <2>5, <2>6
      <3>2. Keeps(f, e) BY Zenon, <2>6, <3>1, LaunchKeeps DEF AllKeep, Keeps
      <3> QED BY Zenon, <3>1, <3>2, KeepsTwice
    <2> QED BY Zenon, <2>2, <2>4, <2>5, <2>6
  <1>2. ASSUME NEW e \in PressTaskbar(d) PROVE Keeps(d, e)
    <2>1. \/ e = toggle_show_desktop(d) \/ e \in toggle_notification_center(d) \/ e \in launch_app(d)
          \/ \E i : e = focus_window(d, i)
      BY Zenon, <1>2 DEF PressTaskbar
    <2> QED BY Zenon, <2>1, StackKeeps, MenusKeep, LaunchKeeps DEF AllKeep
  <1>3. ASSUME NEW e \in PressDesktop(d) PROVE Keeps(d, e)
    <2>1. e = d \/ Assigns(d, 0, e) BY Zenon, <1>3 DEF PressDesktop, Assigns
    <2>2. Keeps(d, d) BY Zenon, FieldKeeps
    <2> QED BY Zenon, <2>1, <2>2, AssignsKeep
  <1>4. AllKeep(d, BehindMenus(d))
    BY Zenon, <1>1, <1>2, <1>3, LaunchKeeps DEF AllKeep, BehindMenus, handle_context_menu_click
  <1>5. ASSUME NEW f, IsDesk(f), NEW i, NEW e \in TaskbarMenuRow(f, i) PROVE Keeps(f, e)
    <2> DEFINE h == [f EXCEPT !.minimized = @ \cup {f.windows[i]}]
    <2>1. Keeps(f, h) BY Zenon, <1>5, FieldKeeps
    <2>2. \/ e = focus_window(f, i) \/ e = snap_window(f, i) \/ e = request_or_close_window(f, i)
          \/ e = h \/ e = [h EXCEPT !.focused = top_visible_window(h)]
      BY Zenon, <1>5 DEF TaskbarMenuRow
    <2> HIDE DEF h
    <2>3. CASE e = focus_window(f, i) \/ e = snap_window(f, i) \/ e = request_or_close_window(f, i)
      BY Zenon, <1>5, <2>3, StackKeeps, WindowsKeep
    <2>4. CASE e = h BY Zenon, <2>1, <2>4
    <2>5. CASE e = [h EXCEPT !.focused = top_visible_window(h)]
      <3>1. Keeps(h, e) BY Zenon, <2>1, <2>5, FieldKeeps DEF Keeps
      <3> QED BY Zenon, <2>1, <3>1, KeepsTwice
    <2> QED BY Zenon, <2>2, <2>3, <2>4, <2>5
  <1>6. ASSUME NEW e \in handle_taskbar_menu_click(d) PROVE Keeps(d, e)
    <2> DEFINE f == [d EXCEPT !.taskbar = 0]
    <2>1. Keeps(d, f) /\ Keeps(d, d) BY Zenon, FieldKeeps
    <2>2. e = d \/ e = f \/ \E i : e \in TaskbarMenuRow(f, i) BY Zenon, <1>6 DEF handle_taskbar_menu_click
    <2> HIDE DEF f
    <2>3. IsDesk(f) BY Zenon, <2>1 DEF Keeps
    <2> QED BY Zenon, <1>5, <2>1, <2>2, <2>3, KeepsTwice
  <1> QED BY Zenon, <1>4, <1>6 DEF AllKeep
\* Pressing and releasing the buttons of the mouse on an open desk.
LEMMA PointerOK ==
    ASSUME NEW d, IsDesk(d), ~d.locked
    PROVE  AllOK(left_press(d)) /\ AllOK(left_release(d)) /\ AllOK(right_press(d))
  <1>1. ASSUME NEW f, IsDesk(f), ~f.locked, NEW e \in PressStartMenu(f) PROVE DeskOK(e)
    <2> DEFINE c == close_start_menu(f)
    <2>1. Keeps(f, c) /\ Keeps(f, f) BY Zenon, <1>1, MenusKeep, FieldKeeps
    <2>2. \/ e = f \/ e \in {close_start_menu(h) : h \in run_start_inline_action(f)}
          \/ \E h \in launch_app(f) : e = close_start_menu(h)
          \/ e \in activate_start_search_kind(c)
      BY Zenon, <1>1 DEF PressStartMenu
    <2> HIDE DEF c
    <2>3. IsDesk(c) /\ ~c.locked BY Zenon, <1>1, <2>1 DEF Keeps
    <2>4. CASE e = f BY Zenon, <1>1, <2>1, <2>4, OpenOK
    <2>5. CASE e \in {close_start_menu(h) : h \in run_start_inline_action(f)}
      BY Zenon, <1>1, <2>5, StartMenuOK DEF AllOK
    <2>6. ASSUME NEW h \in launch_app(f), e = close_start_menu(h) PROVE DeskOK(e)
      <3>1. Keeps(f, h) /\ IsDesk(h) BY Zenon, <1>1, LaunchKeeps DEF AllKeep, Keeps
      <3>2. Keeps(h, e) BY Zenon, <2>6, <3>1, MenusKeep
      <3> QED BY Zenon, <1>1, <3>1, <3>2, KeepsTwice, OpenOK
    <2>7. CASE e \in activate_start_search_kind(c) BY Zenon, <2>3, <2>7, StartMenuOK DEF AllOK
    <2> QED BY Zenon, <2>2, <2>4, <2>5, <2>6, <2>7
  <1>2. ASSUME NEW e \in left_press(d) PROVE DeskOK(e)
    <2>1. \/ \E f \in launch_app(d) : e = toggle_start_menu(f)
          \/ \E f \in launch_app(d) \cup handle_taskbar_menu_click(d) \cup BehindMenus(d) : e \in PressStartMenu(f)
      BY Zenon, <1>2 DEF left_press, handle_dialog_click
    <2>2. ASSUME NEW f \in launch_app(d), e = toggle_start_menu(f) PROVE DeskOK(e)
      <3>1. Keeps(d, f) /\ IsDesk(f) BY Zenon, LaunchKeeps DEF AllKeep, Keeps
      <3>2. Keeps(f, e) BY Zenon, <2>2, <3>1, MenusKeep
      <3> QED BY Zenon, <3>1, <3>2, KeepsTwice, OpenOK
    <2>3. ASSUME NEW f \in launch_app(d) \cup handle_taskbar_menu_click(d) \cup BehindMenus(d), e \in PressStartMenu(f)
          PROVE  DeskOK(e)
      <3>1. Keeps(d, f) BY Zenon, LaunchKeeps, ClickKeeps DEF AllKeep
      <3> QED BY Zenon, <1>1, <2>3, <3>1 DEF Keeps
    <2> QED BY Zenon, <2>1, <2>2, <2>3
  <1>3. ASSUME NEW e \in left_release(d) PROVE DeskOK(e)
    <2> DEFINE s == snap_window(d, d.grab[2])
    <2>1. Keeps(d, s) BY Zenon, StackKeeps
    <2>2. Assigns(d, NoGrab, e) \/ Assigns(s, NoGrab, e) \/ e \in launch_app(d)
      BY Zenon, <1>3 DEF left_release, Assigns
    <2> HIDE DEF s
    <2>3. CASE Assigns(d, NoGrab, e) BY Zenon, <2>3, AssignsKeep, OpenOK
    <2>4. CASE Assigns(s, NoGrab, e)
      <3>1. Keeps(s, e) BY Zenon, <2>1, <2>4, AssignsKeep DEF Keeps
      <3> QED BY Zenon, <2>1, <3>1, KeepsTwice, OpenOK
    <2>5. CASE e \in launch_app(d) BY Zenon, <2>5, LaunchKeeps, OpenOK DEF AllKeep
    <2> QED BY Zenon, <2>2, <2>3, <2>4, <2>5
  <1>4. ASSUME NEW e \in right_press(d) PROVE DeskOK(e)
    <2>1. \/ \E i : e = [d EXCEPT !.taskbar = i, !.start = FALSE]
          \/ \E i : e \in consume_window_open_request(WmRaise(d, i))
      BY Zenon, <1>4 DEF right_press
    <2>2. ASSUME NEW i, e = [d EXCEPT !.taskbar = i, !.start = FALSE] PROVE DeskOK(e)
      <3>1. Keeps(d, e) BY Zenon, <2>2 DEF Keeps, IsDesk, IsRecord, DeskFields
      <3> QED BY Zenon, <3>1, OpenOK
    <2>3. ASSUME NEW i, e \in consume_window_open_request(WmRaise(d, i)) PROVE DeskOK(e)
      <3>1. Keeps(d, WmRaise(d, i)) /\ IsDesk(WmRaise(d, i)) BY Zenon, StackKeeps DEF Keeps
      <3>2. Keeps(WmRaise(d, i), e) BY Zenon, <2>3, <3>1, LaunchKeeps DEF AllKeep
      <3> QED BY Zenon, <3>1, <3>2, KeepsTwice, OpenOK
    <2> QED BY Zenon, <2>1, <2>2, <2>3
  <1> QED BY Zenon, <1>2, <1>3, <1>4 DEF AllOK
-----------------------------------------------------------------------------
(* The accounts.                                                           *)

AccFields == {"users", "disk", "fb", "session", "caps", "locked", "phase", "todo", "fails"}

\* A table of users that the machine can be administered with.
Proper(us) ==
    /\ us \in [DOMAIN us -> UserRecord] /\ "root" \in DOMAIN us /\ "guest" \in DOMAIN us
    /\ EnabledAdmins(us) # {}

\* The steps of a handler, and of a boot that shows the wizard.
FbState == {"required", "in_progress", "complete"}
Unlock == [op |-> "unlock", arg |-> "", must |-> TRUE]
Ensure == [op |-> "ensure", arg |-> "", must |-> TRUE]
Wizard == [op |-> "wizard", arg |-> "", must |-> TRUE]
Plain(us) ==
    {persist_users, AccIgnored(persist_users), Unlock}
    \cup {write_first_boot_state(s) : s \in FbState} \cup {AccIgnored(write_first_boot_state(s)) : s \in FbState}
    \cup {set_session_from_user(n) : n \in DOMAIN us}

\* What is left to do ends with the wizard only if the file about the first boot
\* will agree with the users by then.
Coming(a) ==
    \/ a.todo \in Seq(Plain(a.users))
    \/ a.todo = <<AccIgnored(persist_users), Ensure, Wizard>>
    \/ a.todo = <<Ensure, Wizard>>
    \/ a.todo = <<write_first_boot_state("required"), Wizard>> /\ first_run_required(a.users)
    \/ a.todo = <<write_first_boot_state("complete"), Wizard>> /\ ~first_run_required(a.users)
    \/ a.todo = <<Wizard>> /\ (first_run_required(a.users) <=> a.fb # "complete")

AccOK(a) ==
    /\ IsRecord(AccFields, a) /\ a.phase \in {"off", "boot", "up"}
    /\ a.disk = NoUsers \/ Proper(a.disk)
    /\ IF a.phase = "off" THEN a.todo = <<>>
       ELSE Proper(a.users) /\ a.session \in DOMAIN a.users /\ Coming(a)

\* Nothing is left to do.
LEMMA QueueEmpty == ASSUME NEW S PROVE <<>> \in Seq(S) OBVIOUS

\* Two queues of the same steps in the same order are one queue.
LEMMA QueueEquals ==
    ASSUME NEW S, NEW q \in Seq(S), NEW r \in Seq(S), Len(q) = Len(r), \A i \in 1 .. Len(q) : q[i] = r[i]
    PROVE  q = r
  OBVIOUS

\* The steps of one call after those of another.
LEMMA QueueJoined ==
    ASSUME NEW S, NEW q \in Seq(S), NEW r \in Seq(S)
    PROVE  /\ q \o r \in Seq(S) /\ Len(q \o r) = Len(q) + Len(r)
           /\ \A i \in 1 .. Len(q) + Len(r) : (q \o r)[i] = IF i <= Len(q) THEN q[i] ELSE r[i - Len(q)]
  OBVIOUS

\* The step at the head of a queue, and the rest.
LEMMA QueueServed ==
    ASSUME NEW S, NEW q \in Seq(S), q # <<>>
    PROVE  Head(q) \in S /\ Tail(q) \in Seq(S)
  OBVIOUS

\* Short queues of steps.
LEMMA Steps ==
    ASSUME NEW S, NEW x \in S, NEW y \in S
    PROVE  <<>> \in Seq(S) /\ <<x>> \in Seq(S) /\ <<x, y>> \in Seq(S)
  OBVIOUS

\* The steps of a boot that shows the wizard.
LEMMA OfThree == \A x, y, z : Head(<<x, y, z>>) = x /\ Tail(<<x, y, z>>) = <<y, z>> OBVIOUS

\* The last two steps of that boot.
LEMMA OfTwo == \A x, y : Head(<<x, y>>) = x /\ Tail(<<x, y>>) = <<y>> OBVIOUS

\* The last step of a handler.
LEMMA OfOne == \A x : Head(<<x>>) = x /\ Tail(<<x>>) = <<>> OBVIOUS

\* A step in front of what is left to do.
LEMMA Joined ==
    ASSUME NEW x, NEW y
    PROVE  /\ <<x>> \o <<y>> = <<x, y>>
           /\ <<>> \o <<x>> = <<x>> /\ <<x>> \o <<>> = <<x>> /\ <<>> \o <<>> = <<>>
  <1>1. <<x>> \o <<y>> = <<x, y>>
    <2> DEFINE c == <<x>> \o <<y>>
    <2>1. <<x>> \in Seq({x, y}) /\ <<y>> \in Seq({x, y}) /\ Len(<<x>>) = 1 /\ Len(<<y>>) = 1 OBVIOUS
    <2>2. <<x, y>> \in Seq({x, y}) /\ Len(<<x, y>>) = 2 /\ <<x, y>>[1] = x /\ <<x, y>>[2] = y OBVIOUS
    <2>3. /\ c \in Seq({x, y}) /\ Len(c) = Len(<<x>>) + Len(<<y>>)
          /\ \A i \in 1 .. Len(<<x>>) + Len(<<y>>) : c[i] = IF i <= Len(<<x>>) THEN <<x>>[i] ELSE <<y>>[i - Len(<<x>>)]
      BY Zenon, <2>1, QueueJoined
    <2> HIDE DEF c
    <2>4. Len(c) = 2 /\ c[1] = x /\ c[2] = y BY <2>1, <2>3
    <2>5. Len(c) = Len(<<x, y>>) /\ \A i \in 1 .. Len(c) : c[i] = <<x, y>>[i] BY <2>2, <2>4
    <2>6. c = <<x, y>> BY Zenon, <2>2, <2>3, <2>5, QueueEquals
    <2> QED BY Zenon, <2>6 DEF c
  <1>2. <<>> \o <<x>> = <<x>> OBVIOUS
  <1>3. <<x>> \o <<>> = <<x>> OBVIOUS
  <1>4. <<>> \o <<>> = <<>> OBVIOUS
  <1> QED BY Zenon, <1>1, <1>2, <1>3, <1>4

\* A step in front of two others.
LEMMA JoinedTwo ==
    ASSUME NEW x, NEW y, NEW z
    PROVE  <<x>> \o <<y, z>> = <<x, y, z>>
  <1> DEFINE S == {x, y, z}
             c == <<x>> \o <<y, z>>
  <1>1. <<x>> \in Seq(S) /\ <<y, z>> \in Seq(S) /\ Len(<<x>>) = 1 /\ Len(<<y, z>>) = 2 OBVIOUS
  <1>2. <<x, y, z>> \in Seq(S) /\ Len(<<x, y, z>>) = 3 OBVIOUS
  <1>3. <<x, y, z>>[1] = x /\ <<x, y, z>>[2] = y /\ <<x, y, z>>[3] = z OBVIOUS
  <1>4. <<y, z>>[1] = y /\ <<y, z>>[2] = z /\ <<x>>[1] = x OBVIOUS
  <1> HIDE DEF S
  <1>5. /\ c \in Seq(S) /\ Len(c) = Len(<<x>>) + Len(<<y, z>>)
        /\ \A i \in 1 .. Len(<<x>>) + Len(<<y, z>>) : c[i] = IF i <= Len(<<x>>) THEN <<x>>[i] ELSE <<y, z>>[i - Len(<<x>>)]
    BY Zenon, <1>1, QueueJoined
  <1> HIDE DEF c
  <1>6. Len(c) = 3 /\ c[1] = x BY <1>1, <1>4, <1>5
  <1>7. c[2] = y /\ c[3] = z BY <1>1, <1>4, <1>5
  <1>8. Len(c) = Len(<<x, y, z>>) /\ \A i \in 1 .. Len(c) : c[i] = <<x, y, z>>[i] BY <1>2, <1>3, <1>6, <1>7
  <1>9. c = <<x, y, z>> BY Zenon, <1>2, <1>5, <1>8, QueueEquals
  <1> QED BY Zenon, <1>9 DEF c

\* Which steps there are.
LEMMA PlainSteps ==
    ASSUME NEW us
    PROVE  /\ persist_users \in Plain(us) /\ AccIgnored(persist_users) \in Plain(us) /\ Unlock \in Plain(us)
           /\ \A s \in FbState : write_first_boot_state(s) \in Plain(us) /\ AccIgnored(write_first_boot_state(s)) \in Plain(us)
           /\ \A n \in DOMAIN us : set_session_from_user(n) \in Plain(us)
           /\ \A s \in Plain(us) : /\ s.op \in {"users", "unlock", "mark", "session"}
                                   /\ s.op = "session" => s.arg \in DOMAIN us
  <1>1. ASSUME NEW s \in Plain(us)
        PROVE  s.op \in {"users", "unlock", "mark", "session"} /\ (s.op = "session" => s.arg \in DOMAIN us)
    <2>1. CASE s \in {persist_users, AccIgnored(persist_users), Unlock}
      <3>1. persist_users.op = "users" BY DEF persist_users
      <3>2. AccIgnored(persist_users).op = "users" BY DEF persist_users, AccIgnored
      <3>3. Unlock.op = "unlock" BY DEF Unlock
      <3> QED BY Zenon, <2>1, <3>1, <3>2, <3>3
    <2>2. ASSUME NEW a, s = write_first_boot_state(a) \/ s = AccIgnored(write_first_boot_state(a)) PROVE s.op = "mark"
      BY <2>2 DEF write_first_boot_state, AccIgnored
    <2>3. ASSUME NEW n \in DOMAIN us, s = set_session_from_user(n) PROVE s.op = "session" /\ s.arg = n
      BY <2>3 DEF set_session_from_user
    <2>4. \/ s \in {persist_users, AccIgnored(persist_users), Unlock}
          \/ \E a : s = write_first_boot_state(a) \/ s = AccIgnored(write_first_boot_state(a))
          \/ \E n \in DOMAIN us : s = set_session_from_user(n)
      BY Zenon, <1>1 DEF Plain
    <2> QED BY Zenon, <2>1, <2>2, <2>3, <2>4
  <1> QED BY Zenon, <1>1 DEF Plain

\* Tables of users.
LEMMA ProperBy ==
    ASSUME NEW us, us \in [DOMAIN us -> UserRecord], "root" \in DOMAIN us, "guest" \in DOMAIN us,
           NEW n \in DOMAIN us, us[n].on, us[n].role = "admin"
    PROVE  Proper(us)
  BY Zenon DEF Proper, EnabledAdmins

\* The users of a machine without a user database: root and guest.
LEMMA DefaultUsers == Proper(default_users) /\ DOMAIN default_users = {"root", "guest"}
  <1> DEFINE us == default_users
  <1>1. default_admin_user \in UserRecord /\ default_guest_user \in UserRecord
        /\ default_admin_user.on /\ default_admin_user.role = "admin"
    BY DEF default_admin_user, default_guest_user, UserRecord
  <1>2. DOMAIN us = {"root", "guest"} BY Zenon DEF default_users
  <1>3. us["root"] = default_admin_user BY Zenon DEF default_users
  <1>4. us \in [DOMAIN us -> UserRecord] BY Zenon, <1>1, <1>2 DEF default_users
  <1> HIDE DEF us
  <1>5. Proper(us) BY Zenon, <1>1, <1>2, <1>3, <1>4, ProperBy
  <1> QED BY Zenon, <1>2, <1>5 DEF us

\* A new or replaced record.
LEMMA PutProper ==
    ASSUME NEW us, Proper(us), NEW n, NEW r \in UserRecord, n \notin DOMAIN us \/ (r.on /\ r.role = "admin")
    PROVE  /\ Proper(PutUser(us, n, r)) /\ DOMAIN PutUser(us, n, r) = DOMAIN us \cup {n}
           /\ PutUser(us, n, r)[n] = r
  <1> DEFINE tab == PutUser(us, n, r)
  <1>1. DOMAIN tab = DOMAIN us \cup {n} BY Zenon DEF PutUser
  <1>2. tab[n] = r /\ \A x \in DOMAIN us : x # n => tab[x] = us[x] BY Zenon DEF PutUser
  <1>3. tab \in [DOMAIN tab -> UserRecord] BY Zenon, <1>1 DEF PutUser, Proper
  <1> HIDE DEF tab
  <1>4. PICK m \in DOMAIN us : us[m].on /\ us[m].role = "admin" BY Zenon DEF Proper, EnabledAdmins
  <1>5. "root" \in DOMAIN tab /\ "guest" \in DOMAIN tab BY Zenon, <1>1 DEF Proper
  <1>6. CASE n \notin DOMAIN us
    <2>1. m \in DOMAIN tab /\ tab[m] = us[m] BY Zenon, <1>1, <1>2, <1>6
    <2> QED BY Zenon, <1>1, <1>2, <1>3, <1>4, <1>5, <2>1, ProperBy DEF tab
  <1>7. CASE r.on /\ r.role = "admin"
    <2>1. n \in DOMAIN tab BY Zenon, <1>1
    <2> QED BY Zenon, <1>1, <1>2, <1>3, <1>5, <1>7, <2>1, ProperBy DEF tab
  <1> QED BY Zenon, <1>6, <1>7
\* The records of the handoff, and of a new owner.
LEMMA HandoffProper ==
    ASSUME NEW us, Proper(us)
    PROVE  Proper(restore_default_handoff(us)) /\ DOMAIN restore_default_handoff(us) = DOMAIN us
  <1> DEFINE tab == PutUser(us, "root", default_admin_user)
  <1>1. default_admin_user \in UserRecord /\ default_admin_user.on /\ default_admin_user.role = "admin"
    BY DEF default_admin_user, UserRecord
  <1>2. Proper(tab) /\ DOMAIN tab = DOMAIN us \cup {"root"} BY Zenon, <1>1, PutProper
  <1>3. DOMAIN tab = DOMAIN us BY Zenon, <1>2 DEF Proper
  <1>4. restore_default_handoff(us) = tab BY Zenon, <1>2 DEF restore_default_handoff, Proper
  <1> QED BY Zenon, <1>2, <1>3, <1>4

\* complete_first_run_admin(): the new owner is an enabled administrator.
LEMMA OwnerProper ==
    ASSUME NEW us, Proper(us), NEW n
    PROVE  Proper(OwnerRecords(us, n)) /\ n \in DOMAIN OwnerRecords(us, n) /\ DOMAIN us \subseteq DOMAIN OwnerRecords(us, n)
  <1> DEFINE r == [role |-> "admin", on |-> TRUE, default |-> FALSE]
             off == [x \in DOMAIN us |-> IF x = "root" /\ first_run_required(us)
                                         THEN [us[x] EXCEPT !.on = FALSE, !.default = FALSE] ELSE us[x]]
             tab == OwnerRecords(us, n)
  <1>1. r \in UserRecord /\ r.on /\ r.role = "admin" BY DEF UserRecord
  <1>2. tab = PutUser(us, n, r) \/ tab = PutUser(off, n, r) BY Zenon DEF OwnerRecords
  <1>3. off \in [DOMAIN us -> UserRecord] /\ DOMAIN off = DOMAIN us
    <2>1. ASSUME NEW x \in DOMAIN us PROVE us[x] \in UserRecord /\ [us[x] EXCEPT !.on = FALSE, !.default = FALSE] \in UserRecord
      <3>1. us[x] \in UserRecord BY Zenon DEF Proper
      <3> QED BY Zenon, <3>1 DEF UserRecord
    <2> QED BY Zenon, <2>1
  <1> HIDE DEF off, r, tab
  <1>4. ASSUME NEW t, t \in [DOMAIN us -> UserRecord], tab = PutUser(t, n, r)
        PROVE  Proper(tab) /\ n \in DOMAIN tab /\ DOMAIN us \subseteq DOMAIN tab
    <2>1. DOMAIN t = DOMAIN us BY Zenon, <1>4
    <2>2. DOMAIN tab = DOMAIN us \cup {n} /\ tab[n] = r BY Zenon, <1>4, <2>1 DEF PutUser
    <2>3. tab \in [DOMAIN tab -> UserRecord] BY Zenon, <1>1, <1>4, <2>1, <2>2 DEF PutUser
    <2>4. "root" \in DOMAIN tab /\ "guest" \in DOMAIN tab BY Zenon, <2>2 DEF Proper
    <2>5. Proper(tab) BY Zenon, <1>1, <2>2, <2>3, <2>4, ProperBy
    <2> QED BY Zenon, <2>2, <2>5
  <1>5. us \in [DOMAIN us -> UserRecord] BY Zenon DEF Proper
  <1> QED BY Zenon, <1>2, <1>3, <1>4, <1>5 DEF tab

\* One record changes and an administrator remains.
LEMMA RecordProper ==
    ASSUME NEW us, Proper(us), NEW n \in DOMAIN us, NEW r \in UserRecord,
           \/ us[n].on /\ us[n].role = "admin" => r.on /\ r.role = "admin"
           \/ \E m \in EnabledAdmins(us) : m # n
    PROVE  Proper([us EXCEPT ![n] = r]) /\ DOMAIN [us EXCEPT ![n] = r] = DOMAIN us
  <1> DEFINE tab == [us EXCEPT ![n] = r]
  <1>1. DOMAIN tab = DOMAIN us /\ tab[n] = r /\ \A x \in DOMAIN us : x # n => tab[x] = us[x]
    BY Zenon DEF Proper
  <1>2. tab \in [DOMAIN tab -> UserRecord] BY Zenon, <1>1 DEF Proper
  <1> HIDE DEF tab
  <1>3. "root" \in DOMAIN tab /\ "guest" \in DOMAIN tab BY Zenon, <1>1 DEF Proper
  <1>4. PICK m \in DOMAIN us : tab[m].on /\ tab[m].role = "admin"
    <2>1. CASE \E m \in EnabledAdmins(us) : m # n BY Zenon, <1>1, <2>1 DEF EnabledAdmins
    <2>2. CASE us[n].on /\ us[n].role = "admin" => r.on /\ r.role = "admin"
      <3>1. PICK m \in DOMAIN us : us[m].on /\ us[m].role = "admin" BY Zenon DEF Proper, EnabledAdmins
      <3>2. CASE m = n BY Zenon, <1>1, <2>2, <3>1, <3>2
      <3>3. CASE m # n BY Zenon, <1>1, <3>1, <3>3
      <3> QED BY Zenon, <3>2, <3>3
    <2> QED BY Zenon, <2>1, <2>2
  <1>5. Proper(tab) BY Zenon, <1>1, <1>2, <1>3, <1>4, ProperBy
  <1> QED BY Zenon, <1>1, <1>5 DEF tab

\* A user is deleted who is not the last administrator.
LEMMA DeleteProper ==
    ASSUME NEW us, Proper(us), NEW n, n # "root", n # "guest",
           us[n].role = "admin" => \E m \in EnabledAdmins(us) : m # n
    PROVE  Proper([x \in DOMAIN us \ {n} |-> us[x]])
  <1> DEFINE tab == [x \in DOMAIN us \ {n} |-> us[x]]
  <1>1. DOMAIN tab = DOMAIN us \ {n} /\ \A x \in DOMAIN us : x # n => tab[x] = us[x] BY Zenon
  <1>2. tab \in [DOMAIN tab -> UserRecord] BY Zenon, <1>1 DEF Proper
  <1> HIDE DEF tab
  <1>3. "root" \in DOMAIN tab /\ "guest" \in DOMAIN tab BY Zenon, <1>1 DEF Proper
  <1>4. \E m \in EnabledAdmins(us) : m # n BY Zenon DEF Proper, EnabledAdmins
  <1>5. PICK m \in DOMAIN tab : tab[m].on /\ tab[m].role = "admin" BY Zenon, <1>1, <1>4 DEF EnabledAdmins
  <1>6. Proper(tab) BY Zenon, <1>2, <1>3, <1>5, ProperBy
  <1> QED BY Zenon, <1>6 DEF tab

\* A change of the table of users by a handler, and what the handler still does.
LEMMA TableOK ==
    ASSUME NEW a, AccOK(a), a.phase # "off", NEW us, Proper(us), a.session \in DOMAIN us,
           NEW q \in Seq(Plain(us)), NEW b, b = [a EXCEPT !.users = us, !.todo = q]
    PROVE  AccOK(b)
  <1>1. IsRecord(AccFields, a) /\ (a.disk = NoUsers \/ Proper(a.disk)) /\ a.phase \in {"off", "boot", "up"}
    BY Zenon DEF AccOK
  <1>2. /\ IsRecord(AccFields, b) /\ b.disk = a.disk /\ b.phase = a.phase /\ b.session = a.session
        /\ b.users = us /\ b.todo = q
    BY Zenon, <1>1 DEF IsRecord, AccFields
  <1>3. Coming(b) BY Zenon, <1>2 DEF Coming
  <1> QED BY Zenon, <1>1, <1>2, <1>3 DEF AccOK

\* A handler that changes no record queues its steps.
LEMMA TodoOK ==
    ASSUME NEW a, AccOK(a), a.phase # "off", NEW q \in Seq(Plain(a.users)), NEW b, b = [a EXCEPT !.todo = q]
    PROVE  AccOK(b)
  <1>1. IsRecord(AccFields, a) /\ (a.disk = NoUsers \/ Proper(a.disk)) /\ a.phase \in {"off", "boot", "up"}
    BY Zenon DEF AccOK
  <1>2. /\ IsRecord(AccFields, b) /\ b.disk = a.disk /\ b.phase = a.phase /\ b.session = a.session
        /\ b.users = a.users /\ b.todo = q
    BY Zenon, <1>1 DEF IsRecord, AccFields
  <1>3. Coming(b) BY Zenon, <1>2 DEF Coming
  <1> QED BY Zenon, <1>1, <1>2, <1>3 DEF AccOK

\* What an administrator of the machine does to the others.
LEMMA AdministerOK ==
    ASSUME AccOK(acc), NEW n \in AccName,
           \/ reset_user_password(n) \/ delete_user(n)
           \/ \E role \in {"admin", "user"} : create_user(n, role) \/ set_user_role(n, role)
           \/ \E on \in BOOLEAN : set_user_enabled(n, on)
    PROVE  AccOK(acc')
  <1> DEFINE us == acc.users
  <1>1. acc.phase # "off" /\ acc.session \in DOMAIN us /\ Proper(us)
    BY Zenon DEF AccOK, reset_user_password, delete_user, create_user, set_user_role, set_user_enabled, AccAdmin, AccAtDesk, AccIdle
  <1>2. ASSUME NEW t PROVE <<persist_users>> \in Seq(Plain(t)) BY Zenon, PlainSteps, Steps
  <1>3. ASSUME NEW r \in UserRecord, n \in DOMAIN us,
               \/ us[n].on /\ us[n].role = "admin" => r.on /\ r.role = "admin"
               \/ \E m \in EnabledAdmins(us) : m # n
        PROVE  Proper([us EXCEPT ![n] = r]) /\ acc.session \in DOMAIN [us EXCEPT ![n] = r]
    <2>1. Proper([us EXCEPT ![n] = r]) /\ DOMAIN [us EXCEPT ![n] = r] = DOMAIN us BY Zenon, <1>1, <1>3, RecordProper
    <2> QED BY Zenon, <1>1, <2>1
  <1>4. ASSUME n \in DOMAIN us, ~LastAdmin(n) PROVE us[n].role = "admin" => \E m \in EnabledAdmins(us) : m # n
    <2> SUFFICES ASSUME us[n].role = "admin" PROVE \E m \in EnabledAdmins(us) : m # n OBVIOUS
    <2> QED BY Zenon, <1>4 DEF LastAdmin
  <1>5. ASSUME n \in DOMAIN us PROVE us[n] \in UserRecord BY Zenon, <1>1, <1>5 DEF Proper
  <1>6. CASE reset_user_password(n)
    <2> DEFINE r == [us[n] EXCEPT !.default = FALSE]
               t == [us EXCEPT ![n] = r]
    <2>1. n \in DOMAIN us /\ acc' = [acc EXCEPT !.users = t, !.todo = <<persist_users>>] BY Zenon, <1>6 DEF reset_user_password
    <2>2. r \in UserRecord /\ r.on = us[n].on /\ r.role = us[n].role BY Zenon, <1>5, <2>1 DEF UserRecord
    <2> HIDE DEF r
    <2>3. Proper(t) /\ acc.session \in DOMAIN t BY Zenon, <1>3, <2>1, <2>2
    <2> HIDE DEF t
    <2> QED BY Zenon, <1>1, <1>2, <2>1, <2>3, TableOK
  <1>7. ASSUME NEW on \in BOOLEAN, set_user_enabled(n, on) PROVE AccOK(acc')
    <2> DEFINE r == [us[n] EXCEPT !.on = on]
               t == [us EXCEPT ![n] = r]
    <2>1. /\ n \in DOMAIN us /\ acc' = [acc EXCEPT !.users = t, !.todo = <<persist_users>>]
          /\ on \/ ~LastAdmin(n)
      BY Zenon, <1>7 DEF set_user_enabled
    <2>2. r \in UserRecord /\ r.on = on /\ r.role = us[n].role BY Zenon, <1>5, <2>1 DEF UserRecord
    <2> HIDE DEF r
    <2>3. Proper(t) /\ acc.session \in DOMAIN t BY Zenon, <1>3, <1>4, <2>1, <2>2
    <2> HIDE DEF t
    <2> QED BY Zenon, <1>1, <1>2, <2>1, <2>3, TableOK
  <1>8. ASSUME NEW role \in {"admin", "user"}, set_user_role(n, role) PROVE AccOK(acc')
    <2> DEFINE r == [us[n] EXCEPT !.role = role]
               t == [us EXCEPT ![n] = r]
               q == <<persist_users>> \o (IF n = acc.session THEN <<set_session_from_user(n)>> ELSE <<>>)
    <2>1. /\ n \in DOMAIN us /\ acc' = [acc EXCEPT !.users = t, !.todo = q]
          /\ role = "admin" \/ ~LastAdmin(n)
      BY Zenon, <1>8 DEF set_user_role
    <2>2. r \in UserRecord /\ r.on = us[n].on /\ r.role = role BY Zenon, <1>5, <2>1 DEF UserRecord
    <2> HIDE DEF r
    <2>3. Proper(t) /\ acc.session \in DOMAIN t BY Zenon, <1>3, <1>4, <2>1, <2>2
    <2>4. n \in DOMAIN t BY Zenon, <2>1
    <2> HIDE DEF t
    <2>5. persist_users \in Plain(t) /\ set_session_from_user(n) \in Plain(t) BY Zenon, <2>4, PlainSteps
    <2>6. q = <<persist_users, set_session_from_user(n)>> \/ q = <<persist_users>> BY Zenon, Joined
    <2> HIDE DEF q
    <2>7. q \in Seq(Plain(t)) BY Zenon, <2>5, <2>6, Steps
    <2> QED BY Zenon, <1>1, <2>1, <2>3, <2>7, TableOK
  <1>9. ASSUME NEW role \in {"admin", "user"}, create_user(n, role) PROVE AccOK(acc')
    <2> DEFINE r == [role |-> role, on |-> TRUE, default |-> FALSE]
               t == PutUser(us, n, r)
    <2>1. n \notin DOMAIN us /\ acc' = [acc EXCEPT !.users = t, !.todo = <<persist_users>>] BY Zenon, <1>9 DEF create_user
    <2>2. r \in UserRecord BY Zenon, <1>9 DEF UserRecord
    <2> HIDE DEF r
    <2>3. Proper(t) /\ DOMAIN t = DOMAIN us \cup {n} BY Zenon, <1>1, <2>1, <2>2, PutProper
    <2>4. acc.session \in DOMAIN t BY Zenon, <1>1, <2>3
    <2> HIDE DEF t
    <2> QED BY Zenon, <1>1, <1>2, <2>1, <2>3, <2>4, TableOK
  <1>10. CASE delete_user(n)
    <2> DEFINE t == [x \in DOMAIN us \ {n} |-> us[x]]
    <2>1. /\ n \in DOMAIN us /\ acc' = [acc EXCEPT !.users = t, !.todo = <<persist_users>>]
          /\ n # acc.session /\ n # "root" /\ n # "guest" /\ ~LastAdmin(n)
      BY Zenon, <1>10 DEF delete_user
    <2>2. Proper(t) BY Zenon, <1>1, <1>4, <2>1, DeleteProper
    <2>3. acc.session \in DOMAIN t BY Zenon, <1>1, <2>1
    <2> HIDE DEF t
    <2> QED BY Zenon, <1>1, <1>2, <2>1, <2>2, <2>3, TableOK
  <1> QED BY Zenon, <1>6, <1>7, <1>8, <1>9, <1>10

\* The writes that end a handoff, and what repairing the files leaves to do
\* while there is an administrator.
LEMMA RepairIs ==
    ASSUME NEW a, EnabledAdmins(a.users) # {}
    PROVE  \/ /\ first_run_required(a.users)
              /\ repair_first_boot_unchecked(a) = [a EXCEPT !.todo = <<write_first_boot_state("required")>> \o a.todo]
           \/ /\ ~first_run_required(a.users)
              /\ repair_first_boot_unchecked(a) = [a EXCEPT !.todo = <<write_first_boot_state("complete")>> \o a.todo]
           \/ (first_run_required(a.users) <=> a.fb # "complete") /\ repair_first_boot_unchecked(a) = a
  BY Zenon DEF repair_first_boot_unchecked

\* What a user does at the desk.
LEMMA DeskUserOK ==
    ASSUME AccOK(acc), change_password \/ reset_first_boot_unchecked \/ RecoveryRepair \/ logout \/ lock
    PROVE  AccOK(acc')
  <1> DEFINE us == acc.users
  <1>1. acc.phase # "off" /\ acc.session \in DOMAIN us /\ Proper(us) /\ acc.todo = <<>>
    BY Zenon DEF AccOK, change_password, reset_first_boot_unchecked, RecoveryRepair, logout, lock, AccAtDesk, AccIdle
  <1>2. IsRecord(AccFields, acc) /\ (acc.disk = NoUsers \/ Proper(acc.disk)) /\ acc.phase \in {"off", "boot", "up"}
    BY Zenon DEF AccOK
  <1>3. ASSUME NEW t PROVE /\ <<>> \in Seq(Plain(t)) /\ <<persist_users>> \in Seq(Plain(t))
                          /\ \A m \in FbState : /\ <<write_first_boot_state(m)>> \in Seq(Plain(t))
                                                 /\ <<persist_users, write_first_boot_state(m)>> \in Seq(Plain(t))
    BY Zenon, PlainSteps, Steps
  <1>4. "required" \in FbState /\ "complete" \in FbState BY Zenon DEF FbState
  <1>5. CASE change_password
    <2> DEFINE n == acc.session
               r == [us[n] EXCEPT !.default = FALSE]
               t == [us EXCEPT ![n] = r]
    <2>1. acc' = [acc EXCEPT !.users = t, !.todo = <<persist_users>>] BY Zenon, <1>5 DEF change_password
    <2>2. us[n] \in UserRecord BY Zenon, <1>1 DEF Proper
    <2>3. r \in UserRecord /\ r.on = us[n].on /\ r.role = us[n].role BY Zenon, <2>2 DEF UserRecord
    <2> HIDE DEF r
    <2>4. Proper(t) /\ DOMAIN t = DOMAIN us BY Zenon, <1>1, <2>3, RecordProper
    <2> HIDE DEF t
    <2> QED BY Zenon, <1>1, <1>3, <2>1, <2>4, TableOK
  <1>6. CASE reset_first_boot_unchecked
    <2> DEFINE t == restore_default_handoff(us)
               q == HandoffWrites(us) \o <<write_first_boot_state("required")>>
    <2>1. acc' = [acc EXCEPT !.users = t, !.todo = q] BY Zenon, <1>6 DEF reset_first_boot_unchecked
    <2>2. Proper(t) /\ DOMAIN t = DOMAIN us BY Zenon, <1>1, HandoffProper
    <2>3. q = <<write_first_boot_state("required")>> \/ q = <<persist_users, write_first_boot_state("required")>>
      <3> DEFINE w == write_first_boot_state("required")
                 h == HandoffWrites(us)
      <3>1. h = <<>> \/ h = <<persist_users>> BY Zenon DEF HandoffWrites
      <3> HIDE DEF h, w
      <3>2. <<>> \o <<w>> = <<w>> /\ <<persist_users>> \o <<w>> = <<persist_users, w>> BY Zenon, Joined
      <3>3. h \o <<w>> = <<w>> \/ h \o <<w>> = <<persist_users, w>> BY Zenon, <3>1, <3>2
      <3> QED BY Zenon, <3>3 DEF h, w
    <2> HIDE DEF t, q
    <2>4. q \in Seq(Plain(t)) BY Zenon, <1>3, <1>4, <2>3
    <2> QED BY Zenon, <1>1, <2>1, <2>2, <2>4, TableOK
  <1>7. CASE RecoveryRepair
    <2>1. acc' = repair_first_boot_unchecked(acc) BY Zenon, <1>7 DEF RecoveryRepair
    <2>2. EnabledAdmins(acc.users) # {} BY Zenon, <1>1 DEF Proper
    <2>3. ASSUME NEW m \in FbState, acc' = [acc EXCEPT !.todo = <<write_first_boot_state(m)>> \o acc.todo] PROVE AccOK(acc')
      <3>1. acc' = [acc EXCEPT !.todo = <<write_first_boot_state(m)>>] BY Zenon, <1>1, <2>3, Joined
      <3> QED BY Zenon, <1>1, <1>3, <3>1, TodoOK
    <2>4. \/ acc' = [acc EXCEPT !.todo = <<write_first_boot_state("required")>> \o acc.todo]
          \/ acc' = [acc EXCEPT !.todo = <<write_first_boot_state("complete")>> \o acc.todo]
          \/ acc' = acc
      BY Zenon, <2>1, <2>2, RepairIs
    <2> QED BY Zenon, <1>4, <2>3, <2>4
  <1>8. CASE logout
    <2>1. PICK now \in BOOLEAN : acc' = [acc EXCEPT !.session = "guest", !.caps = us["guest"].role, !.locked = now]
      BY Zenon, <1>8 DEF logout
    <2>2. /\ IsRecord(AccFields, acc') /\ acc'.disk = acc.disk /\ acc'.phase = acc.phase /\ acc'.session = "guest"
          /\ acc'.users = us /\ acc'.todo = acc.todo
      BY Zenon, <1>2, <2>1 DEF IsRecord, AccFields
    <2>3. Coming(acc') BY Zenon, <1>1, <1>3, <2>2 DEF Coming
    <2> QED BY Zenon, <1>1, <1>2, <2>2, <2>3 DEF AccOK, Proper
  <1>9. CASE lock
    <2>1. acc' = [acc EXCEPT !.locked = TRUE] BY Zenon, <1>9 DEF lock
    <2>2. /\ IsRecord(AccFields, acc') /\ acc'.disk = acc.disk /\ acc'.phase = acc.phase /\ acc'.session = acc.session
          /\ acc'.users = us /\ acc'.todo = acc.todo
      BY Zenon, <1>2, <2>1 DEF IsRecord, AccFields
    <2>3. Coming(acc') BY Zenon, <1>1, <1>3, <2>2 DEF Coming
    <2> QED BY Zenon, <1>1, <1>2, <2>2, <2>3 DEF AccOK
  <1> QED BY Zenon, <1>5, <1>6, <1>7, <1>8, <1>9

\* A login and the end of the first run.
LEMMA EnterOK ==
    ASSUME AccOK(acc), NEW n \in AccName, login(n) \/ complete_first_run_admin(n)
    PROVE  AccOK(acc')
  <1> DEFINE us == acc.users
  <1>1. acc.phase # "off" /\ acc.session \in DOMAIN us /\ Proper(us)
    BY Zenon DEF AccOK, login, complete_first_run_admin, AccIdle
  <1>2. CASE login(n)
    <2> DEFINE q == <<set_session_from_user(n), Unlock>>
    <2>1. n \in DOMAIN us /\ acc' = [acc EXCEPT !.todo = q] BY Zenon, <1>2 DEF login, Unlock
    <2>2. q \in Seq(Plain(us)) BY Zenon, <2>1, PlainSteps, Steps
    <2> HIDE DEF q
    <2> QED BY Zenon, <1>1, <2>1, <2>2, TodoOK
  <1>3. CASE complete_first_run_admin(n)
    <2> DEFINE t == OwnerRecords(us, n)
               w == AccIgnored(write_first_boot_state("complete"))
               q1 == <<persist_users, w, set_session_from_user(n)>>
               q2 == IF acc.locked THEN <<w, Unlock>> ELSE <<>>
    <2>1. acc' = [acc EXCEPT !.users = t, !.todo = q1 \o q2] BY Zenon, <1>3 DEF complete_first_run_admin, Unlock
    <2>2. Proper(t) /\ n \in DOMAIN t /\ DOMAIN us \subseteq DOMAIN t BY Zenon, <1>1, OwnerProper
    <2> HIDE DEF t
    <2>3. persist_users \in Plain(t) /\ w \in Plain(t) /\ set_session_from_user(n) \in Plain(t) /\ Unlock \in Plain(t)
      <3>1. "complete" \in FbState BY Zenon DEF FbState
      <3> QED BY Zenon, <2>2, <3>1, PlainSteps
    <2> HIDE DEF w
    <2>4. q1 \in Seq(Plain(t)) BY <2>3
    <2>5. q2 \in Seq(Plain(t)) BY Zenon, <2>3, Steps
    <2> HIDE DEF q1, q2
    <2>6. q1 \o q2 \in Seq(Plain(t)) BY Zenon, <2>4, <2>5, QueueJoined
    <2>7. acc.session \in DOMAIN t BY Zenon, <1>1, <2>2
    <2> QED BY Zenon, <1>1, <2>1, <2>2, <2>6, <2>7, TableOK
  <1> QED BY Zenon, <1>2, <1>3

\* The machine starts, stops, and ends its boot.
LEMMA PowerOK ==
    ASSUME AccOK(acc), AccBoot \/ AccCrash \/ AccBootDone
    PROVE  AccOK(acc')
  <1>1. IsRecord(AccFields, acc) /\ (acc.disk = NoUsers \/ Proper(acc.disk)) BY Zenon DEF AccOK
  <1>2. CASE AccCrash
    <2>1. acc' = [acc EXCEPT !.users = NoUsers, !.phase = "off", !.todo = <<>>] BY Zenon, <1>2 DEF AccCrash
    <2>2. IsRecord(AccFields, acc') /\ acc'.disk = acc.disk /\ acc'.phase = "off" /\ acc'.todo = <<>>
      BY Zenon, <1>1, <2>1 DEF IsRecord, AccFields
    <2> QED BY Zenon, <1>1, <2>2 DEF AccOK
  <1>3. CASE AccBootDone
    <2>1. acc.phase = "boot" /\ acc.todo = <<>> /\ acc' = [acc EXCEPT !.phase = "up"] BY Zenon, <1>3 DEF AccBootDone
    <2>2. /\ IsRecord(AccFields, acc') /\ acc'.disk = acc.disk /\ acc'.phase = "up" /\ acc'.todo = <<>>
          /\ acc'.users = acc.users /\ acc'.session = acc.session
      BY Zenon, <1>1, <2>1 DEF IsRecord, AccFields
    <2>3. Proper(acc.users) /\ acc.session \in DOMAIN acc.users BY Zenon, <2>1 DEF AccOK
    <2>4. <<>> \in Seq(Plain(acc.users)) BY Zenon, QueueEmpty
    <2>5. Coming(acc') BY Zenon, <2>2, <2>4 DEF Coming
    <2> QED BY Zenon, <1>1, <2>2, <2>3, <2>5 DEF AccOK
  <1>4. CASE AccBoot
    <2> DEFINE us == load_users_from_disk(acc.disk)
               p == AccIgnored(persist_users)
    <2>1. PICK wizard \in BOOLEAN : security_init(wizard) BY Zenon, <1>4 DEF AccBoot
    <2> DEFINE q == <<p>> \o (IF wizard THEN <<Ensure, Wizard>> ELSE <<>>)
    <2>2. PICK n \in default_session_user(us) :
              acc' = [acc EXCEPT !.users = us, !.session = n, !.caps = us[n].role, !.locked = TRUE,
                                 !.phase = "boot", !.todo = q]
      BY Zenon, <2>1 DEF security_init, Ensure, Wizard
    <2>3. Proper(us)
      <3>1. DOMAIN NoUsers = {} BY Zenon DEF NoUsers
      <3>2. acc.disk = NoUsers => us = default_users BY Zenon, <3>1 DEF load_users_from_disk
      <3> QED BY Zenon, <1>1, <3>2, DefaultUsers DEF load_users_from_disk
    <2> HIDE DEF us
    <2>4. n \in DOMAIN us BY Zenon, <2>2, <2>3 DEF default_session_user, Proper, EnabledAdmins
    <2>5. q = <<p, Ensure, Wizard>> \/ q = <<p>>
      <3> HIDE DEF p
      <3>1. <<p>> \o <<Ensure, Wizard>> = <<p, Ensure, Wizard>> BY Zenon, JoinedTwo
      <3>2. <<p>> \o <<>> = <<p>> BY Zenon, Joined
      <3>3. wizard => q = <<p>> \o <<Ensure, Wizard>> BY Zenon
      <3>4. ~wizard => q = <<p>> \o <<>> BY Zenon
      <3> HIDE DEF q
      <3> QED BY Zenon, <3>1, <3>2, <3>3, <3>4
    <2>6. <<p>> \in Seq(Plain(us)) BY Zenon, PlainSteps, Steps
    <2> HIDE DEF p, q
    <2>7. /\ IsRecord(AccFields, acc') /\ acc'.disk = acc.disk /\ acc'.phase = "boot" /\ acc'.todo = q
          /\ acc'.users = us /\ acc'.session = n
      BY Zenon, <1>1, <2>2 DEF IsRecord, AccFields
    <2>8. Coming(acc') BY Zenon, <2>5, <2>6, <2>7 DEF Coming, p
    <2> QED BY Zenon, <1>1, <2>3, <2>4, <2>7, <2>8 DEF AccOK
  <1> QED BY Zenon, <1>2, <1>3, <1>4

\* What one step of a handler, or of the boot, does.
Advances(a, b, q) ==
    /\ IsRecord(AccFields, b) /\ b.phase = a.phase /\ b.users = a.users /\ b.todo = q
    /\ b.disk = a.disk \/ b.disk = a.users

\* The cases of a step: a file is written, a session starts, the lock opens, the files are reconciled.
LEMMA StepIs ==
    ASSUME AccOK(acc), AccStep
    PROVE  \/ /\ Head(acc.todo).op \in {"users", "unlock"} /\ Advances(acc, acc', Tail(acc.todo))
              /\ acc'.session = acc.session /\ acc'.fb = acc.fb
           \/ /\ Head(acc.todo).op = "mark" /\ Advances(acc, acc', Tail(acc.todo))
              /\ acc'.session = acc.session /\ acc'.fb = Head(acc.todo).arg
           \/ /\ Head(acc.todo).op = "session" /\ Advances(acc, acc', Tail(acc.todo))
              /\ acc'.session = Head(acc.todo).arg /\ acc'.fb = acc.fb
           \/ /\ Head(acc.todo).op = "ensure" /\ acc'.session = acc.session /\ acc'.fb = acc.fb
              /\ \/ /\ Advances(acc, acc', <<write_first_boot_state("required")>> \o Tail(acc.todo))
                    /\ first_run_required(acc.users)
                 \/ /\ Advances(acc, acc', <<write_first_boot_state("complete")>> \o Tail(acc.todo))
                    /\ ~first_run_required(acc.users)
                 \/ /\ Advances(acc, acc', Tail(acc.todo))
                    /\ first_run_required(acc.users) <=> acc.fb # "complete"
           \/ /\ Head(acc.todo).op = "wizard" /\ acc'.session = acc.session
              /\ \/ Advances(acc, acc', <<AccIgnored(write_first_boot_state("in_progress"))>> \o Tail(acc.todo))
                 \/ Advances(acc, acc', <<>> \o Tail(acc.todo))
  <1> DEFINE step == Head(acc.todo)
             q == Tail(acc.todo)
             rest == [acc EXCEPT !.todo = q]
  <1>1. IsRecord(AccFields, acc) /\ EnabledAdmins(acc.users) # {}
    BY Zenon DEF AccOK, AccStep, Proper
  <1>2. \/ step.op = "users" /\ acc' = [rest EXCEPT !.disk = acc.users]
        \/ step.op = "mark" /\ acc' = [rest EXCEPT !.fb = step.arg]
        \/ step.op = "session" /\ acc' = [rest EXCEPT !.session = step.arg, !.caps = acc.users[step.arg].role]
        \/ step.op = "unlock" /\ acc' = [rest EXCEPT !.locked = FALSE]
        \/ step.op = "ensure" /\ acc' = repair_first_boot_unchecked(rest)
        \/ step.op = "wizard" /\ acc' = mark_first_boot_in_progress(rest)
    BY Zenon DEF AccStep
  <1> HIDE DEF step, q
  <1>3. /\ IsRecord(AccFields, rest) /\ rest.phase = acc.phase /\ rest.users = acc.users /\ rest.todo = q
        /\ rest.disk = acc.disk /\ rest.session = acc.session /\ rest.fb = acc.fb
    BY Zenon, <1>1 DEF IsRecord, AccFields
  <1> HIDE DEF rest
  <1>4. CASE step.op = "users" /\ acc' = [rest EXCEPT !.disk = acc.users]
    <2>1. Advances(acc, acc', q) /\ acc'.session = acc.session /\ acc'.fb = acc.fb
      BY Zenon, <1>3, <1>4 DEF Advances, IsRecord, AccFields
    <2> QED BY Zenon, <1>4, <2>1 DEF step, q
  <1>5. CASE step.op = "mark" /\ acc' = [rest EXCEPT !.fb = step.arg]
    <2>1. Advances(acc, acc', q) /\ acc'.session = acc.session /\ acc'.fb = step.arg
      BY Zenon, <1>3, <1>5 DEF Advances, IsRecord, AccFields
    <2> QED BY Zenon, <1>5, <2>1 DEF step, q
  <1>6. CASE step.op = "session" /\ acc' = [rest EXCEPT !.session = step.arg, !.caps = acc.users[step.arg].role]
    <2>1. Advances(acc, acc', q) /\ acc'.session = step.arg /\ acc'.fb = acc.fb
      BY Zenon, <1>3, <1>6 DEF Advances, IsRecord, AccFields
    <2> QED BY Zenon, <1>6, <2>1 DEF step, q
  <1>7. CASE step.op = "unlock" /\ acc' = [rest EXCEPT !.locked = FALSE]
    <2>1. Advances(acc, acc', q) /\ acc'.session = acc.session /\ acc'.fb = acc.fb
      BY Zenon, <1>3, <1>7 DEF Advances, IsRecord, AccFields
    <2> QED BY Zenon, <1>7, <2>1 DEF step, q
  <1>8. ASSUME NEW r, acc' = [rest EXCEPT !.todo = r]
        PROVE  Advances(acc, acc', r) /\ acc'.session = acc.session /\ acc'.fb = acc.fb
    BY Zenon, <1>3, <1>8 DEF Advances, IsRecord, AccFields
  <1>9. CASE step.op = "ensure" /\ acc' = repair_first_boot_unchecked(rest)
    <2>1. EnabledAdmins(rest.users) # {} BY Zenon, <1>1, <1>3
    <2>2. \/ /\ first_run_required(rest.users)
             /\ acc' = [rest EXCEPT !.todo = <<write_first_boot_state("required")>> \o rest.todo]
          \/ /\ ~first_run_required(rest.users)
             /\ acc' = [rest EXCEPT !.todo = <<write_first_boot_state("complete")>> \o rest.todo]
          \/ (first_run_required(rest.users) <=> rest.fb # "complete") /\ acc' = rest
      BY Zenon, <1>9, <2>1, RepairIs
    <2>3. CASE /\ first_run_required(rest.users)
               /\ acc' = [rest EXCEPT !.todo = <<write_first_boot_state("required")>> \o rest.todo]
      BY Zenon, <1>3, <1>8, <1>9, <2>3 DEF step, q
    <2>4. CASE /\ ~first_run_required(rest.users)
               /\ acc' = [rest EXCEPT !.todo = <<write_first_boot_state("complete")>> \o rest.todo]
      BY Zenon, <1>3, <1>8, <1>9, <2>4 DEF step, q
    <2>5. CASE (first_run_required(rest.users) <=> rest.fb # "complete") /\ acc' = rest
      <3>1. Advances(acc, acc', q) /\ acc'.session = acc.session /\ acc'.fb = acc.fb BY Zenon, <1>3, <2>5 DEF Advances
      <3> QED BY Zenon, <1>3, <1>9, <2>5, <3>1 DEF step, q
    <2> QED BY Zenon, <2>2, <2>3, <2>4, <2>5
  <1>10. CASE step.op = "wizard" /\ acc' = mark_first_boot_in_progress(rest)
    <2>1. \/ acc' = [rest EXCEPT !.todo = <<AccIgnored(write_first_boot_state("in_progress"))>> \o rest.todo]
          \/ acc' = [rest EXCEPT !.todo = <<>> \o rest.todo]
      BY Zenon, <1>10 DEF mark_first_boot_in_progress
    <2> QED BY Zenon, <1>3, <1>8, <1>10, <2>1 DEF step, q
  <1> QED BY Zenon, <1>2, <1>4, <1>5, <1>6, <1>7, <1>9, <1>10

\* A step of what is under way, whether its write succeeds or fails.
LEMMA OpOf ==
    /\ AccIgnored(persist_users).op = "users" /\ Ensure.op = "ensure" /\ Wizard.op = "wizard"
    /\ \A m : write_first_boot_state(m).op = "mark" /\ write_first_boot_state(m).arg = m /\ write_first_boot_state(m).must
  BY DEF AccIgnored, persist_users, Ensure, Wizard, write_first_boot_state

\* A step that succeeds keeps the accounts in order.
LEMMA StepOK ==
    ASSUME AccOK(acc), AccStep
    PROVE  AccOK(acc')
  <1> DEFINE us == acc.users
             step == Head(acc.todo)
             q == Tail(acc.todo)
  <1>1. /\ acc.todo # <<>> /\ acc.phase # "off" /\ acc.phase \in {"off", "boot", "up"} /\ Proper(us)
        /\ acc.session \in DOMAIN us /\ Coming(acc) /\ (acc.disk = NoUsers \/ Proper(acc.disk))
    BY Zenon DEF AccOK, AccStep
  <1>2. ASSUME NEW r, Advances(acc, acc', r), acc'.session \in DOMAIN us, Coming(acc') PROVE AccOK(acc')
    BY Zenon, <1>1, <1>2 DEF Advances, AccOK
  <1>3. CASE acc.todo \in Seq(Plain(us))
    <2>1. step \in Plain(us) /\ q \in Seq(Plain(us)) BY Zenon, <1>1, <1>3, QueueServed
    <2>2. step.op \in {"users", "unlock", "mark", "session"} /\ (step.op = "session" => step.arg \in DOMAIN us)
      BY Zenon, <2>1, PlainSteps
    <2>3. step.op # "ensure" /\ step.op # "wizard" BY Zenon, <2>2
    <2>4. Advances(acc, acc', q) /\ (acc'.session = acc.session \/ (step.op = "session" /\ acc'.session = step.arg))
      BY Zenon, <2>3, StepIs
    <2>5. acc'.session \in DOMAIN us BY Zenon, <1>1, <2>2, <2>4
    <2>6. Coming(acc') BY Zenon, <2>1, <2>4 DEF Coming, Advances
    <2> QED BY Zenon, <1>2, <2>4, <2>5, <2>6
  <1>4. CASE acc.todo = <<AccIgnored(persist_users), Ensure, Wizard>>
    <2>1. step.op = "users" /\ q = <<Ensure, Wizard>>
      <3>1. step = AccIgnored(persist_users) /\ q = <<Ensure, Wizard>> BY Zenon, <1>4, OfThree
      <3> HIDE DEF step, q
      <3> QED BY Zenon, <3>1, OpOf
    <2>2. Advances(acc, acc', q) /\ acc'.session = acc.session BY Zenon, <2>1, StepIs
    <2>3. Coming(acc') BY Zenon, <2>1, <2>2 DEF Coming, Advances
    <2> QED BY Zenon, <1>1, <1>2, <2>2, <2>3
  <1>5. CASE acc.todo = <<Ensure, Wizard>>
    <2>1. step.op = "ensure" /\ q = <<Wizard>>
      <3>1. step = Ensure /\ q = <<Wizard>> BY Zenon, <1>5, OfTwo
      <3> HIDE DEF step, q
      <3> QED BY Zenon, <3>1, OpOf
    <2>2. /\ acc'.session = acc.session /\ acc'.fb = acc.fb
          /\ \/ /\ Advances(acc, acc', <<write_first_boot_state("required")>> \o q)
                /\ first_run_required(us)
             \/ /\ Advances(acc, acc', <<write_first_boot_state("complete")>> \o q)
                /\ ~first_run_required(us)
             \/ Advances(acc, acc', q) /\ (first_run_required(us) <=> acc.fb # "complete")
      BY Zenon, <2>1, StepIs
    <2>3. ASSUME NEW m PROVE <<write_first_boot_state(m)>> \o <<Wizard>> = <<write_first_boot_state(m), Wizard>>
      BY Zenon, Joined
    <2>4. ASSUME Advances(acc, acc', <<write_first_boot_state("required")>> \o q), first_run_required(us) PROVE Coming(acc')
      <3>1. acc'.todo = <<write_first_boot_state("required"), Wizard>> /\ acc'.users = us
        BY Zenon, <2>1, <2>3, <2>4 DEF Advances
      <3> QED BY Zenon, <2>4, <3>1 DEF Coming
    <2>5. ASSUME Advances(acc, acc', <<write_first_boot_state("complete")>> \o q), ~first_run_required(us) PROVE Coming(acc')
      <3>1. acc'.todo = <<write_first_boot_state("complete"), Wizard>> /\ acc'.users = us
        BY Zenon, <2>1, <2>3, <2>5 DEF Advances
      <3> QED BY Zenon, <2>5, <3>1 DEF Coming
    <2>6. ASSUME Advances(acc, acc', q), first_run_required(us) <=> acc.fb # "complete" PROVE Coming(acc')
      <3>1. acc'.todo = <<Wizard>> /\ acc'.users = us BY Zenon, <2>1, <2>6 DEF Advances
      <3> QED BY Zenon, <2>2, <2>6, <3>1 DEF Coming
    <2> QED BY Zenon, <1>1, <1>2, <2>2, <2>4, <2>5, <2>6
  <1>6. ASSUME NEW m, acc.todo = <<write_first_boot_state(m), Wizard>>, first_run_required(us) <=> m # "complete"
        PROVE  AccOK(acc')
    <2>1. step.op = "mark" /\ step.arg = m /\ q = <<Wizard>>
      <3>1. step = write_first_boot_state(m) /\ q = <<Wizard>> BY Zenon, <1>6, OfTwo
      <3> HIDE DEF step, q
      <3> QED BY Zenon, <3>1, OpOf
    <2>2. Advances(acc, acc', q) /\ acc'.session = acc.session /\ acc'.fb = m BY Zenon, <2>1, StepIs
    <2>3. acc'.todo = <<Wizard>> /\ acc'.users = us BY Zenon, <2>1, <2>2 DEF Advances
    <2>4. Coming(acc') BY Zenon, <1>6, <2>2, <2>3 DEF Coming
    <2> QED BY Zenon, <1>1, <1>2, <2>2, <2>4
  <1>7. CASE acc.todo = <<Wizard>>
    <2> DEFINE w == AccIgnored(write_first_boot_state("in_progress"))
    <2>1. step.op = "wizard" /\ q = <<>> BY Zenon, <1>7, OfOne, OpOf
    <2>2. /\ acc'.session = acc.session
          /\ Advances(acc, acc', <<w>> \o q) \/ Advances(acc, acc', <<>> \o q)
      BY Zenon, <2>1, StepIs
    <2>3. w \in Plain(us)
      <3>1. "in_progress" \in FbState BY Zenon DEF FbState
      <3> QED BY Zenon, <3>1, PlainSteps
    <2> HIDE DEF w
    <2>4. <<w>> \o <<>> = <<w>> /\ <<>> \o <<>> = <<>> BY Zenon, Joined
    <2>5. <<w>> \in Seq(Plain(us)) /\ <<>> \in Seq(Plain(us)) BY Zenon, <2>3, Steps
    <2>6. Coming(acc') BY Zenon, <2>1, <2>2, <2>4, <2>5 DEF Coming, Advances
    <2> QED BY Zenon, <1>1, <1>2, <2>2, <2>6
  <1> QED BY Zenon, <1>1, <1>3, <1>4, <1>5, <1>6, <1>7 DEF Coming

\* A write that fails keeps them in order: what must follow it is dropped.
LEMMA FailOK ==
    ASSUME AccOK(acc), AccStepFails
    PROVE  AccOK(acc')
  <1> DEFINE us == acc.users
             step == Head(acc.todo)
             q == Tail(acc.todo)
             r == IF step.must THEN <<>> ELSE q
  <1>1. /\ acc.todo # <<>> /\ acc.phase # "off" /\ acc.phase \in {"off", "boot", "up"} /\ Proper(us)
        /\ acc.session \in DOMAIN us /\ Coming(acc) /\ (acc.disk = NoUsers \/ Proper(acc.disk)) /\ IsRecord(AccFields, acc)
    BY Zenon DEF AccOK, AccStepFails
  <1>2. /\ step.op = "users" \/ step.op = "mark"
        /\ acc' = [acc EXCEPT !.fails = acc.fails + 1, !.todo = r]
    BY Zenon DEF AccStepFails
  <1>3. <<>> \in Seq(Plain(us)) BY Zenon, QueueEmpty
  <1>4. r \in Seq(Plain(us)) \/ r = <<Ensure, Wizard>>
    <2>1. CASE acc.todo \in Seq(Plain(us))
      <3>1. q \in Seq(Plain(us)) BY Zenon, <1>1, <2>1, QueueServed
      <3> QED BY Zenon, <1>3, <3>1
    <2>2. CASE acc.todo = <<AccIgnored(persist_users), Ensure, Wizard>>
      <3>1. q = <<Ensure, Wizard>> BY Zenon, <2>2, OfThree
      <3> QED BY Zenon, <1>3, <3>1
    <2>3. ASSUME NEW m, acc.todo = <<write_first_boot_state(m), Wizard>> PROVE r = <<>>
      <3>1. step = write_first_boot_state(m) BY Zenon, <2>3, OfTwo
      <3> HIDE DEF step
      <3>2. step.must BY Zenon, <3>1, OpOf
      <3> QED BY Zenon, <3>2
    <2>4. CASE acc.todo = <<Ensure, Wizard>> \/ acc.todo = <<Wizard>>
      <3>1. step = Ensure \/ step = Wizard BY Zenon, <2>4, OfTwo, OfOne
      <3> HIDE DEF step
      <3>2. step.op = "ensure" \/ step.op = "wizard" BY Zenon, <3>1, OpOf
      <3> QED BY Zenon, <1>2, <3>2
    <2> QED BY Zenon, <1>1, <1>3, <2>1, <2>2, <2>3, <2>4 DEF Coming
  <1> HIDE DEF r
  <1>5. /\ IsRecord(AccFields, acc') /\ acc'.disk = acc.disk /\ acc'.phase = acc.phase /\ acc'.session = acc.session
        /\ acc'.users = us /\ acc'.todo = r
    BY Zenon, <1>1, <1>2 DEF IsRecord, AccFields
  <1>6. Coming(acc') BY Zenon, <1>4, <1>5 DEF Coming
  <1> QED BY Zenon, <1>1, <1>5, <1>6 DEF AccOK

\* Every step of the accounts, and what they promise.
LEMMA AccountsStep ==
    ASSUME AccOK(acc), AccNext
    PROVE  AccOK(acc')
  BY Zenon, AdministerOK, DeskUserOK, EnterOK, PowerOK, StepOK, FailOK DEF AccNext

\* A machine that is off, with an empty disk.
LEMMA AccountsStart == AccInit => AccOK(acc)
  <1> SUFFICES ASSUME AccInit PROVE AccOK(acc) OBVIOUS
  <1>1. IsRecord(AccFields, acc) BY Zenon DEF AccInit, IsRecord, AccFields
  <1>2. acc.phase = "off" /\ acc.disk = NoUsers /\ acc.todo = <<>> BY Zenon DEF AccInit
  <1> QED BY Zenon, <1>1, <1>2 DEF AccOK

\* What the accounts promise follows.
LEMMA AccountsKeepAnAdmin ==
    ASSUME AccOK(acc)
    PROVE  AdminRemains
  <1>1. acc.phase # "off" => EnabledAdmins(acc.users) # {} /\ acc.session \in DOMAIN acc.users BY Zenon DEF AccOK, Proper
  <1>2. acc.disk # NoUsers => EnabledAdmins(load_users_from_disk(acc.disk)) # {}
    BY Zenon, DefaultUsers DEF AccOK, Proper, load_users_from_disk
  <1>3. ASSUME acc.todo # <<>>, Head(acc.todo).op = "wizard" PROVE first_run_required(acc.users) <=> acc.fb # "complete"
    <2>1. Coming(acc) BY Zenon, <1>3 DEF AccOK
    <2>2. ~(acc.todo \in Seq(Plain(acc.users)))
      <3> SUFFICES ASSUME acc.todo \in Seq(Plain(acc.users)) PROVE FALSE OBVIOUS
      <3>1. Head(acc.todo) \in Plain(acc.users) BY Zenon, <1>3, QueueServed
      <3>2. Head(acc.todo).op \in {"users", "unlock", "mark", "session"} BY Zenon, <3>1, PlainSteps
      <3> QED BY Zenon, <1>3, <3>2
    <2> DEFINE step == Head(acc.todo)
    <2>3. acc.todo = <<AccIgnored(persist_users), Ensure, Wizard>> => step = AccIgnored(persist_users) BY Zenon, OfThree
    <2>4. acc.todo = <<Ensure, Wizard>> => step = Ensure BY Zenon, OfTwo
    <2>5. \A m : acc.todo = <<write_first_boot_state(m), Wizard>> => step = write_first_boot_state(m) BY Zenon, OfTwo
    <2>6. step.op = "wizard" BY Zenon, <1>3
    <2> HIDE DEF step
    <2>7. step # AccIgnored(persist_users) /\ step # Ensure /\ \A m : step # write_first_boot_state(m) BY Zenon, <2>6, OpOf
    <2> QED BY Zenon, <2>1, <2>2, <2>3, <2>4, <2>5, <2>7 DEF Coming
  <1> QED BY Zenon, <1>1, <1>2, <1>3 DEF AdminRemains
-----------------------------------------------------------------------------
(* The windows of a program that has ended.                                *)

LOCAL INSTANCE Induction

\* The windows of a program that has ended are closed one after the other.
LEMMA OwnerOK ==
    ASSUME NEW d, DeskOK(d)
    PROVE  DeskOK(close_user_gui_windows_for_owner(d))
  <1> DEFINE Upto(k, f) == /\ f = [i \in 0 .. k |-> f[i]] /\ f[0] = d
                           /\ \A i \in 1 .. k : f[i] = CloseFirst(f[i - 1])
             T == {k \in 0 .. WmMax : \E f : Upto(k, f)}
  <1>1. 0 \in T
    <2> DEFINE f == [i \in 0 .. 0 |-> d]
    <2>1. Upto(0, f) OBVIOUS
    <2>2. 0 \in 0 .. WmMax BY WmAssumption
    <2> QED BY Zenon, <2>1, <2>2
  <1>2. ASSUME NEW k \in 0 .. WmMax - 1, k \in T PROVE k + 1 \in T
    <2>1. PICK f : Upto(k, f) BY Zenon, <1>2
    <2> DEFINE g == [i \in 0 .. k + 1 |-> IF i <= k THEN f[i] ELSE CloseFirst(f[k])]
    <2>2. g = [i \in 0 .. k + 1 |-> g[i]] BY Zenon
    <2>3. k \in Nat /\ k + 1 \in 0 .. WmMax BY WmAssumption
    <2>4. g[0] = d BY <2>1, <2>3
    <2>5. \A i \in 1 .. k + 1 : g[i] = CloseFirst(g[i - 1])
      <3> SUFFICES ASSUME NEW i \in 1 .. k + 1 PROVE g[i] = CloseFirst(g[i - 1]) BY Zenon
      <3>1. i - 1 \in 0 .. k + 1 /\ i - 1 <= k /\ i \in 0 .. k + 1 BY <2>3
      <3>2. g[i - 1] = f[i - 1] BY Zenon, <3>1
      <3>3. CASE i <= k
        <4>1. i \in 1 .. k BY <3>3
        <4>2. f[i] = CloseFirst(f[i - 1]) BY Zenon, <2>1, <4>1
        <4>3. g[i] = f[i] BY Zenon, <3>1, <3>3
        <4> QED BY Zenon, <3>2, <4>2, <4>3
      <3>4. CASE ~(i <= k)
        <4>1. i - 1 = k BY <2>3, <3>4
        <4>2. g[i] = CloseFirst(f[k]) BY Zenon, <3>1, <3>4
        <4> QED BY Zenon, <3>2, <4>1, <4>2
      <3> QED BY Zenon, <3>3, <3>4
    <2> HIDE DEF g
    <2>6. Upto(k + 1, g) BY Zenon, <2>2, <2>4, <2>5
    <2> QED BY Zenon, <2>3, <2>6
  <1>3. 0 .. WmMax \subseteq T
    <2> HIDE DEF T
    <2> QED BY Zenon, <1>1, <1>2, WmAssumption, SetInduction
  <1>4. PICK f : Upto(WmMax, f)
    <2>1. WmMax \in 0 .. WmMax BY WmAssumption
    <2> QED BY Zenon, <1>3, <2>1
  <1> DEFINE After(a) == a = [n \in 0 .. WmMax |-> IF n = 0 THEN d ELSE CloseFirst(a[n - 1])]
             after == CHOOSE a : After(a)
  <1>5. After(f)
    <2>1. ASSUME NEW n \in 0 .. WmMax PROVE f[n] = IF n = 0 THEN d ELSE CloseFirst(f[n - 1])
      <3>1. n = 0 \/ n \in 1 .. WmMax BY WmAssumption
      <3> QED BY Zenon, <1>4, <3>1
    <2> QED BY Zenon, <1>4, <2>1
  <1>6. After(after) BY Zenon, <1>5
  <1>7. close_user_gui_windows_for_owner(d) = after[WmMax] BY Zenon DEF close_user_gui_windows_for_owner
  <1> HIDE DEF after
  <1>8. ASSUME NEW e, DeskOK(e) PROVE DeskOK(CloseFirst(e))
    <2>1. ASSUME NEW i PROVE DeskOK(close_window(e, i))
      BY Zenon, <1>8, WindowsKeep DEF DeskOK, Keeps
    <2> QED BY Zenon, <1>8, <2>1 DEF CloseFirst
  <1> DEFINE G == {k \in 0 .. WmMax : DeskOK(after[k])}
  <1>9. 0 \in G
    <2>1. 0 \in 0 .. WmMax BY WmAssumption
    <2> QED BY Zenon, <1>6, <2>1
  <1>10. ASSUME NEW k \in 0 .. WmMax - 1, k \in G PROVE k + 1 \in G
    <2>1. k + 1 \in 0 .. WmMax /\ k + 1 # 0 /\ (k + 1) - 1 = k BY WmAssumption
    <2>2. after[k + 1] = CloseFirst(after[k]) BY Zenon, <1>6, <2>1
    <2> QED BY Zenon, <1>8, <1>10, <2>1, <2>2
  <1>11. 0 .. WmMax \subseteq G
    <2> HIDE DEF G
    <2> QED BY Zenon, <1>9, <1>10, WmAssumption, SetInduction
  <1>12. WmMax \in 0 .. WmMax BY WmAssumption
  <1> QED BY Zenon, <1>7, <1>11, <1>12
\* Every step of the window manager keeps a locked desk quiet.
LEMMA DeskStep ==
    ASSUME DeskOK(desk), WmNext
    PROVE  DeskOK(desk')
  <1>1. ASSUME NEW i, desk' = add_window(desk, i) \/ desk' = close_window(desk, i) PROVE DeskOK(desk')
    BY Zenon, <1>1, WindowsKeep DEF DeskOK, Keeps
  <1>2. CASE UserOpens \/ UserCloses BY Zenon, <1>1, <1>2 DEF UserOpens, UserCloses
  <1>3. CASE OwnerCleanup BY Zenon, <1>3, OwnerOK DEF OwnerCleanup
  <1>4. CASE WmLockRequest BY Zenon, <1>4, LockOK DEF WmLockRequest, DeskOK
  <1>5. CASE WmLogin
    <2>1. desk' = [desk EXCEPT !.locked = FALSE] /\ IsDesk(desk) BY Zenon, <1>5 DEF WmLogin, DeskOK
    <2>2. IsDesk(desk') /\ desk'.locked = FALSE BY Zenon, <2>1 DEF IsDesk, IsRecord, DeskFields
    <2> QED BY Zenon, <2>2 DEF DeskOK
  <1>6. CASE WmKeyInput BY Zenon, <1>6, KeysOK DEF WmKeyInput, DeskOK, AllOK
  <1>7. CASE LeftPress \/ LeftRelease \/ RightPress
    BY Zenon, <1>7, PointerOK DEF LeftPress, LeftRelease, RightPress, DeskOK, AllOK
  <1> QED BY Zenon, <1>2, <1>3, <1>4, <1>5, <1>6, <1>7 DEF WmNext

\* The desk of new_boxed() is locked and quiet.
LEMMA DeskStart == WmInit => DeskOK(desk)
  <1> SUFFICES ASSUME WmInit PROVE DeskOK(desk) OBVIOUS
  <1>1. IsDesk(WmEmpty) BY Zenon DEF IsDesk, IsRecord, DeskFields, WmEmpty
  <1>2. ~WmEmpty.start /\ WmEmpty.taskbar = 0 /\ WmEmpty.grab = NoGrab BY Zenon DEF WmEmpty
  <1>3. desk = [WmEmpty EXCEPT !.locked = TRUE] BY Zenon DEF WmInit
  <1>4. IsDesk(desk) BY Zenon, <1>1, <1>3 DEF IsDesk, IsRecord, DeskFields
  <1>5. desk.start = WmEmpty.start /\ desk.taskbar = WmEmpty.taskbar /\ desk.grab = WmEmpty.grab
    BY Zenon, <1>1, <1>3 DEF IsDesk, IsRecord, DeskFields
  <1> QED BY Zenon, <1>2, <1>4, <1>5 DEF DeskOK, Quiet
-----------------------------------------------------------------------------
(* The parts together.                                                     *)

SessionInv ==
    /\ Of("wm", DeskOK(desk)) /\ Of("greeter", GrInv) /\ Of("accounts", AccOK(acc))

\* The parts do not disturb each other.
LEMMA SessionStep ==
    ASSUME SessionInv, [SystemNext]_systemVars
    PROVE  SessionInv' /\ (gr' = gr \/ (Of("greeter", UnlockIsEarned)))
  <1>1. CASE Only("wm") /\ WmNext
    <2>1. part = "wm" /\ part' = "wm" /\ gr' = gr BY Zenon, <1>1 DEF Only
    <2>2. DeskOK(desk') BY Zenon, <1>1, <2>1, DeskStep DEF SessionInv, Of
    <2> QED BY Zenon, <2>1, <2>2 DEF SessionInv, Of
  <1>2. CASE Only("greeter") /\ GrNext
    <2>1. part = "greeter" /\ part' = "greeter" BY Zenon, <1>2 DEF Only
    <2>2. GrInv' /\ UnlockIsEarned BY Zenon, <1>2, <2>1, GreeterStep DEF SessionInv, Of
    <2> QED BY Zenon, <2>1, <2>2 DEF SessionInv, Of
  <1>3. CASE Only("accounts") /\ AccNext
    <2>1. part = "accounts" /\ part' = "accounts" /\ gr' = gr BY Zenon, <1>3 DEF Only
    <2>2. AccOK(acc') BY Zenon, <1>3, <2>1, AccountsStep DEF SessionInv, Of
    <2> QED BY Zenon, <2>1, <2>2 DEF SessionInv, Of
  <1>4. ASSUME UNCHANGED <<part, desk, gr, acc>> PROVE SessionInv' /\ gr' = gr
    <2>1. GrInv => GrInv' BY Zenon, <1>4 DEF GrInv, IsGreeter, GrForgets
    <2> QED BY Zenon, <1>4, <2>1 DEF SessionInv, Of
  <1>5. CASE Only("pipe") \/ Only("tty") \/ Only("jobs") \/ Only("shmem") \/ Only("futex")
    <2>1. UNCHANGED <<part, desk, gr, acc>> BY Zenon, <1>5 DEF Only
    <2> QED BY Zenon, <1>4, <2>1
  <1>6. CASE UNCHANGED systemVars
    <2>1. UNCHANGED <<part, desk, gr, acc>> BY Zenon, <1>6 DEF systemVars
    <2> QED BY Zenon, <1>4, <2>1
  <1> QED BY Zenon, <1>1, <1>2, <1>3, <1>5, <1>6 DEF SystemNext

\* The session is sound, whatever the windows, names and bounds: a locked desk has
\* no menu and no drag (wm/compositor.rs), the greeter keeps no typed password once it
\* has unlocked (wm/compositor.rs), and after any sequence of account operations,
\* failed writes and crashes someone can administer the machine (security.rs).
THEOREM SessionIsSound == SystemSpec => []SessionSound
  <1>1. SystemInit => SessionInv
    <2> SUFFICES ASSUME SystemInit PROVE SessionInv OBVIOUS
    <2>1. /\ part = "wm" => WmInit
          /\ part = "greeter" => GrInit
          /\ part = "accounts" => AccInit
      BY Zenon DEF SystemInit
    <2> QED BY Zenon, <2>1, DeskStart, GreeterStart, AccountsStart DEF SessionInv, Of
  <1>2. SessionInv /\ [SystemNext]_systemVars => SessionInv' BY Zenon, SessionStep
  <1>3. SessionInv => SessionSound
    <2> SUFFICES ASSUME SessionInv PROVE SessionSound OBVIOUS
    <2>1. DeskOK(desk) => LockedIsQuiet BY Zenon DEF DeskOK, Quiet, LockedIsQuiet
    <2>2. GrInv => GrForgets BY Zenon DEF GrInv
    <2> QED BY Zenon, <2>1, <2>2, AccountsKeepAnAdmin DEF SessionInv, SessionSound, Of
  <1> QED BY <1>1, <1>2, <1>3, PTL DEF SystemSpec

\* Nobody gets past the lock screen unearned: the step that unlocks is the wizard
\* with an owner and twice the same acceptable password, or the login of a name
\* that is not shut out (wm/compositor.rs, and the throttling in security.rs).
THEOREM UnlockIsEarnedAlways == SystemSpec => [][Of("greeter", UnlockIsEarned)]_systemVars
  <1>1. SystemInit => SessionInv
    <2> SUFFICES ASSUME SystemInit PROVE SessionInv OBVIOUS
    <2>1. /\ part = "wm" => WmInit
          /\ part = "greeter" => GrInit
          /\ part = "accounts" => AccInit
      BY Zenon DEF SystemInit
    <2> QED BY Zenon, <2>1, DeskStart, GreeterStart, AccountsStart DEF SessionInv, Of
  <1>2. SessionInv /\ [SystemNext]_systemVars => SessionInv' BY Zenon, SessionStep
  <1>3. SessionInv /\ [SystemNext]_systemVars => [Of("greeter", UnlockIsEarned)]_systemVars
    <2> SUFFICES ASSUME SessionInv, [SystemNext]_systemVars PROVE Of("greeter", UnlockIsEarned) OBVIOUS
    <2>1. gr' = gr => UnlockIsEarned BY Zenon DEF UnlockIsEarned
    <2> QED BY Zenon, <2>1, SessionStep DEF Of
  <1> QED BY <1>1, <1>2, <1>3, PTL DEF SystemSpec
=============================================================================
