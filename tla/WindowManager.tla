---------------------------- MODULE WindowManager ----------------------------
(***************************************************************************)
(* The window manager (wm/compositor.rs).  Everything names a window by    *)
(* its position in the vector of windows: the parallel vector of           *)
(* workspaces, the stacking order, the focus, the key sink of the keydemo  *)
(* program, the window that is dragged and the window of the taskbar menu. *)
(* Closing a window moves all later ones.                                  *)
(*                                                                         *)
(* A handler maps a desk to the set of desks it may leave: where the       *)
(* pointer is and whether a program can be started is not in the model.    *)
(* The compositor runs under the WM mutex, so that a handler is one step.  *)
(***************************************************************************)
EXTENDS Integers, Sequences

CONSTANTS WmTerm, WmUser, WmApp, \* windows: terminals, windows of one user program, others
          WORKSPACE_COUNT,
          WmMax                  \* bound: windows at one time

ASSUME WmAssumption == WmMax \in Nat

VARIABLE desk

WmId == WmTerm \cup WmUser \cup WmApp
NoGrab == <<"none", 0>>

\* A vector's elements, the vector without position i, the first position of a
\* member of S (0: none).
WmSet(v) == {v[i] : i \in 1 .. Len(v)}
WmWithout(v, i) == SubSeq(v, 1, i - 1) \o SubSeq(v, i + 1, Len(v))
WmFirst(v, S) ==
    IF WmSet(v) \cap S = {} THEN 0
    ELSE CHOOSE i \in 1 .. Len(v) : v[i] \in S /\ \A j \in 1 .. i - 1 : v[j] \notin S

WmFresh(d) == IF Len(d.windows) < WmMax THEN WmId \ WmSet(d.windows) ELSE {}

OnWorkspace(d, i) == d.workspaces[i] = d.current
WmVisible(d, i) == OnWorkspace(d, i) /\ d.windows[i] \notin d.minimized
top_visible_window(d) ==
    LET seen == SelectSeq(d.z, LAMBDA i : WmVisible(d, i))
    IN  IF seen = <<>> THEN 0 ELSE seen[Len(seen)]

WmTopmost(z, i) == Append(SelectSeq(z, LAMBDA j : j # i), i)
WmRaise(d, i) == [d EXCEPT !.z = WmTopmost(@, i), !.focused = i]

add_window(d, id) ==
    [d EXCEPT !.windows = Append(@, id), !.workspaces = Append(@, d.current),
              !.z = Append(@, Len(d.windows) + 1), !.focused = Len(d.windows) + 1,
              !.minimized = @ \ {id}]

focus_window(d, i) ==
    WmRaise([d EXCEPT !.current = d.workspaces[i], !.minimized = @ \ {d.windows[i]}], i)

repair_focus_if_hidden(d) ==
    IF d.focused # 0 /\ ~WmVisible(d, d.focused)
    THEN [d EXCEPT !.focused = top_visible_window(d)] ELSE d

\* The position j of a window after window i is gone, and the stacking order.
WmShifted(j, i) == CASE j = i -> 0 [] j > i -> j - 1 [] OTHER -> j
WmUnstacked(z, i) == [n \in 1 .. Len(z) - 1 |-> WmShifted(SelectSeq(z, LAMBDA j : j # i)[n], i)]

CloseMovesSink(d, i) ==
    LET left == [d EXCEPT !.windows = WmWithout(@, i), !.workspaces = WmWithout(@, i),
                          !.z = WmUnstacked(@, i),
                          !.minimized = @ \ {d.windows[i]}, !.sink = IF @ \in {0, i} THEN 0 ELSE IF @ > 1 THEN @ - 1 ELSE 1]
    IN  [left EXCEPT !.focused = top_visible_window(left), !.grab = NoGrab,
                     !.taskbar = 0]

close_window(d, i) ==
    LET left == [d EXCEPT !.windows = WmWithout(@, i), !.workspaces = WmWithout(@, i),
                          !.z = WmUnstacked(@, i),
                          !.minimized = @ \ {d.windows[i]}, !.sink = WmShifted(@, i)]
    IN  [left EXCEPT !.focused = top_visible_window(left), !.grab = NoGrab,
                     !.taskbar = 0]

\* A user program is only asked to close its window.
request_or_close_window(d, i) == IF d.windows[i] \in WmUser THEN d ELSE close_window(d, i)

\* The windows of the program are closed one by one, from the first.
WmOwned(d) == WmFirst(d.windows, WmUser)
CloseFirst(d) == IF WmOwned(d) = 0 THEN d ELSE close_window(d, WmOwned(d))
close_user_gui_windows_for_owner(d) ==
    LET after[n \in 0 .. WmMax] == IF n = 0 THEN d ELSE CloseFirst(after[n - 1]) IN after[WmMax]

switch_workspace(d, w) ==
    IF w = d.current THEN d ELSE
    LET there == [d EXCEPT !.current = w]
    IN  [there EXCEPT !.focused = top_visible_window(there), !.grab = NoGrab, !.taskbar = 0,
                      !.start = FALSE]

snap_window(d, i) ==
    WmRaise([d EXCEPT !.minimized = @ \ {d.windows[i]}, !.start = FALSE], i)

\* The visible window below the focused one, or 0.
PreviousVisible(d) ==
    LET n == Len(d.z)
        start == IF d.focused = 0 THEN n ELSE WmFirst(d.z, {d.focused})
        \* down from the focused window, and around
        order == [k \in 1 .. n |-> d.z[((start - 1 - k + n) % n) + 1]]
        seen == SelectSeq(order, LAMBDA i : WmVisible(d, i))
    IN  IF seen = <<>> THEN 0 ELSE Head(seen)
focus_previous_window(d) ==
    IF PreviousVisible(d) = 0 THEN [d EXCEPT !.focused = 0]
    ELSE [WmRaise(d, PreviousVisible(d)) EXCEPT !.start = FALSE]

WmHere(d) == {d.windows[i] : i \in {j \in 1 .. Len(d.windows) : OnWorkspace(d, j)}}
minimize_all_windows(d) == [d EXCEPT !.minimized = @ \cup WmHere(d), !.focused = 0]
toggle_show_desktop(d) ==
    IF WmHere(d) \subseteq d.minimized
    THEN LET shown == [d EXCEPT !.minimized = @ \ WmHere(d)]
         IN  [shown EXCEPT !.focused = top_visible_window(shown)]
    ELSE minimize_all_windows(d)
-----------------------------------------------------------------------------
(* The shell: menus, dialogs, the session.                                 *)

ClearMenusOnly(d) == [d EXCEPT !.start = FALSE, !.taskbar = 0, !.sink = 0]
clear_session_chrome(d) == [d EXCEPT !.start = FALSE, !.taskbar = 0, !.grab = NoGrab, !.sink = 0]
lock_session(d) == [clear_session_chrome(d) EXCEPT !.locked = TRUE]
logout_session(d) == lock_session(minimize_all_windows(d))

close_start_menu(d) == [d EXCEPT !.start = FALSE]
toggle_start_menu(d) == [d EXCEPT !.start = ~@, !.taskbar = 0]
open_start_menu_search(d) == [d EXCEPT !.start = TRUE, !.taskbar = 0]

\* The notification centre, the dialogs and the menu of the desktop stand in
\* front of the rest and keep no window; whether they are open is left out.
CloseMenus(d) == [d EXCEPT !.start = FALSE, !.taskbar = 0]
toggle_notification_center(d) == {d, CloseMenus(d)}
show_error_dialog(d) == CloseMenus(d)

\* A window, or a process whose window comes later, or a dialog.
launch_app(d) == {d, show_error_dialog(d)} \cup {add_window(d, id) : id \in WmFresh(d) \ WmUser}

WmTerminal(d) == WmFirst(d.windows, WmTerm)
run_terminal_command(d) ==
    IF WmTerminal(d) # 0 THEN {focus_window(d, WmTerminal(d))}
    ELSE {IF Len(e.windows) = 0 THEN e ELSE focus_window(e, Len(e.windows)) : e \in launch_app(d)}

\* A line of the session file that names a window which is open again.
RestoreOne(d, id, w) == [add_window(d, id) EXCEPT !.workspaces[Len(d.windows) + 1] = w]
Restored(d, id, w) ==
    LET e == [RestoreOne(d, id, w) EXCEPT !.current = 0]
    IN  [e EXCEPT !.focused = top_visible_window(e)]
restore_session(d) ==
    {d} \cup UNION {{Restored(d, id, w) : w \in 0 .. WORKSPACE_COUNT - 1} : id \in WmFresh(d) \ WmUser}

run_start_inline_action(d) ==
    {d, show_error_dialog(d), lock_session(d), logout_session(d),
     [d EXCEPT !.start = TRUE]} \* a category or a search
    \cup restore_session(d) \cup {add_window(d, id) : id \in WmFresh(d) \cap WmApp}

activate_start_search_kind(d) == launch_app(d) \cup run_terminal_command(d) \cup run_start_inline_action(d)

\* What a window asks for after a key or a click.
consume_window_open_request(d) == {repair_focus_if_hidden(e) : e \in launch_app(d)}
-----------------------------------------------------------------------------
(* Keys.                                                                   *)

handle_start_menu_input(d) ==
    IF d.start
    THEN {d, close_start_menu(d)} \cup activate_start_search_kind(close_start_menu(d)) ELSE {}

handle_global_shortcut(d) ==
    {open_start_menu_search(d), toggle_start_menu(d), focus_previous_window(d), show_error_dialog(d)}
    \cup toggle_notification_center(d)
    \cup {switch_workspace(d, (d.current + k) % WORKSPACE_COUNT) : k \in {1, WORKSPACE_COUNT - 1}}
    \cup (IF d.focused = 0 THEN {} ELSE {snap_window(d, d.focused), request_or_close_window(d, d.focused)})
    \cup {close_start_menu(e) : e \in launch_app(d)}
    \cup activate_start_search_kind(d)

focus_first_switcher_match(d) == {focus_window(d, i) : i \in {j \in 1 .. Len(d.windows) : WmVisible(d, j)}}

\* A key for the focused window; the key sink ends with '~' and when its pipe
\* is full or closed.  A command of a terminal may ask for the key sink.
handle_key(d) ==
    IF d.focused = 0 THEN {d}
    ELSE IF d.sink # 0 /\ d.sink = d.focused THEN {d, [d EXCEPT !.sink = 0]}
    ELSE consume_window_open_request(d)
         \cup {[d EXCEPT !.sink = IF @ = 0 THEN d.focused ELSE @] : w \in {d.windows[d.focused]} \cap WmTerm}

handle_key_input(d) ==
    handle_start_menu_input(d) \cup handle_global_shortcut(d) \cup focus_first_switcher_match(d) \cup handle_key(d)
-----------------------------------------------------------------------------
(* The pointer.                                                            *)

\* A click on a dialog closes it, restarts a program or opens the crash viewer.
handle_dialog_click(d) == launch_app(d)

TaskbarMenuRow(d, i) ==
    {IF d.windows[i] \in d.minimized THEN focus_window(d, i)
     ELSE LET e == [d EXCEPT !.minimized = @ \cup {d.windows[i]}]
          IN  IF d.focused = i THEN [e EXCEPT !.focused = top_visible_window(e)] ELSE e,
     snap_window(d, i), request_or_close_window(d, i)}

handle_taskbar_menu_click(d) ==
    IF d.taskbar = 0 THEN {d}
    ELSE LET e == [d EXCEPT !.taskbar = 0] IN {e} \cup TaskbarMenuRow(e, d.taskbar)

handle_context_menu_click(d) == launch_app(d)

\* A press on window i: on one of its buttons, its title, its edge or scroll
\* bar, or its content.
PressWindow(d, i) ==
    LET e == WmRaise(d, i)
    IN  {request_or_close_window(e, i), e, [e EXCEPT !.minimized = @ \cup {d.windows[i]}]}
        \cup {[e EXCEPT !.grab = <<g, i>>] : g \in {"title", "other"}}
        \cup UNION {consume_window_open_request(f) :
                       f \in {e, [e EXCEPT !.grab = IF d.windows[i] \in WmApp THEN <<"other", i>> ELSE @],
                              [e EXCEPT !.sink = IF @ = i THEN 0 ELSE @]}}

PressTaskbar(d) ==
    {toggle_show_desktop(d)} \cup toggle_notification_center(d) \cup launch_app(d)
    \cup {focus_window(d, i) : i \in {j \in 1 .. Len(d.windows) : OnWorkspace(d, j)}}

PressStartMenu(d) ==
    IF ~d.start THEN {d}
    ELSE {d} \cup {close_start_menu(e) : e \in run_start_inline_action(d) \cup launch_app(d)}
         \cup activate_start_search_kind(close_start_menu(d))

PressDesktop(d) == {IF d.start THEN d ELSE [d EXCEPT !.focused = 0]}

BehindMenus(d) ==
    handle_context_menu_click(d) \cup PressDesktop(d) \cup PressTaskbar(d)
    \cup UNION {PressWindow(d, i) : i \in {j \in 1 .. Len(d.windows) : WmVisible(d, j)}}

\* The layers of the desktop, from the front to the back; a click that closes
\* a dialog or a menu goes no further, except into the start menu.
left_press(d) ==
    {toggle_start_menu(e) : e \in handle_dialog_click(d)}
    \cup UNION {PressStartMenu(e) :
                   e \in handle_dialog_click(d) \cup
                       (IF d.taskbar # 0 THEN handle_taskbar_menu_click(d) ELSE BehindMenus(d))}

left_release(d) ==
    LET e == [d EXCEPT !.grab = NoGrab]
    IN  IF d.grab[1] = "title" THEN {e, [snap_window(d, d.grab[2]) EXCEPT !.grab = NoGrab]}
        ELSE {e} \cup (IF d.grab = NoGrab /\ ~d.start THEN launch_app(d) ELSE {})

right_press(d) ==
    {[d EXCEPT !.taskbar = i, !.start = FALSE] : i \in {j \in 1 .. Len(d.windows) : OnWorkspace(d, j)}}
    \cup UNION {consume_window_open_request(WmRaise(d, i)) :
                   i \in {j \in 1 .. Len(d.windows) : WmVisible(d, j)}}
-----------------------------------------------------------------------------
WmEmpty == [windows |-> <<>>, workspaces |-> <<>>, minimized |-> {}, z |-> <<>>, focused |-> 0,
            current |-> 0, sink |-> 0, taskbar |-> 0, grab |-> NoGrab, start |-> FALSE, locked |-> FALSE]

WmInit == desk = [WmEmpty EXCEPT !.locked = TRUE]

UserOpens == \E id \in WmFresh(desk) \cap WmUser : desk' = add_window(desk, id)
UserCloses == \E i \in 1 .. Len(desk.windows) : desk.windows[i] \in WmUser /\ desk' = close_window(desk, i)
OwnerCleanup == desk' = close_user_gui_windows_for_owner(desk)
WmLockRequest == desk' = lock_session(desk)
WmLogin == desk.locked /\ desk' = [desk EXCEPT !.locked = FALSE]
WmKeyInput == ~desk.locked /\ desk' \in handle_key_input(desk)
LeftPress == ~desk.locked /\ desk.grab = NoGrab /\ desk' \in left_press(desk)
LeftRelease == ~desk.locked /\ desk' \in left_release(desk)
RightPress == ~desk.locked /\ desk' \in right_press(desk)

WmNext ==
    \/ UserOpens \/ UserCloses \/ OwnerCleanup \/ WmLockRequest \/ WmLogin
    \/ WmKeyInput \/ LeftPress \/ LeftRelease \/ RightPress

\* The parallel vectors have one length, the stacking order names every window
\* once, and every position that is remembered is the position of a window.
WmTypeOK ==
    LET n == Len(desk.windows)
    IN  /\ (\A i, j \in 1 .. n : desk.windows[i] = desk.windows[j] => i = j) /\ Len(desk.workspaces) = n
        /\ Len(desk.z) = n /\ WmSet(desk.z) = 1 .. n
        /\ {desk.focused, desk.sink, desk.taskbar, desk.grab[2]} \subseteq 0 .. n

WmName(d, i) == IF i = 0 THEN 0 ELSE d.windows[i]
WmStack(d) == [n \in 1 .. Len(d.z) |-> d.windows[d.z[n]]]

\* Positions follow their windows: when windows come and go, the key sink, the
\* window in the user's hand and the window of the taskbar menu are the same
\* windows as before, and a window that is closed leaves the others, but for
\* the one that gets the focus, stacked as they were.
WmFollows ==
    desk'.windows # desk.windows =>
         /\ desk'.sink # 0 => WmName(desk', desk'.sink) = WmName(desk, desk.sink)
         /\ desk'.taskbar # 0 => WmName(desk', desk'.taskbar) = WmName(desk, desk.taskbar)
         /\ desk'.grab # NoGrab /\ desk.grab # NoGrab => WmName(desk', desk'.grab[2]) = WmName(desk, desk.grab[2])
         /\ LET others == (WmSet(desk.windows) \cap WmSet(desk'.windows)) \ {WmName(desk', desk'.focused)}
            IN  Len(desk'.windows) < Len(desk.windows) =>
                SelectSeq(WmStack(desk'), LAMBDA w : w \in others) = SelectSeq(WmStack(desk), LAMBDA w : w \in others)

\* A locked session has no menu, dialog or drag left that would act on the
\* windows when the next user signs in.
LockedIsQuiet == desk.locked => ~desk.start /\ desk.taskbar = 0 /\ desk.grab = NoGrab
==============================================================================
