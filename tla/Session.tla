------------------------------ MODULE Session ------------------------------
(***************************************************************************)
(* Who may use the machine: the lock screen, and the records of the accounts. *)
(***************************************************************************)
EXTENDS Integers, Sequences, FiniteSets

-----------------------------------------------------------------------------
(***************************************************************************)
(* The lock screen (wm/compositor.rs): the greeter, the first-boot wizard, *)
(* and the throttling of logins (security.rs).  A text field is a member   *)
(* of a small set: for the greeter's password only whether it is empty.    *)
(* The records of the accounts come after it; whether a password is        *)
(* right, and whether the setup can be stored, is open here.               *)
(***************************************************************************)

CONSTANTS GrUser,  \* names that may log in
          MAX_LOGIN_FAILURES

VARIABLE gr

GrText == GrUser \cup {"", "other"}
GrPassword == {"", "short", "good"}

GrInit ==
    gr = [locked |-> TRUE, first |-> TRUE, user |-> "", typed |-> FALSE, focus |-> "password",
          owner |-> "", password |-> "", confirm |-> "", at |-> 1, said |-> FALSE,
          tries |-> [n \in GrUser |-> 0], shut |-> {}]
-----------------------------------------------------------------------------
record_login_failure(g, n) ==
    IF g.tries[n] + 1 >= MAX_LOGIN_FAILURES
    THEN [g EXCEPT !.tries[n] = 0, !.shut = @ \cup {n}]
    ELSE [g EXCEPT !.tries[n] = @ + 1]
clear_login_failures(g, n) == [g EXCEPT !.tries[n] = 0]

GrRefused(g) == [g EXCEPT !.typed = FALSE, !.focus = "password"]
GrUnlocked(g) == [g EXCEPT !.locked = FALSE, !.typed = FALSE, !.focus = "password"]

LoginUnthrottled(g, n, right) ==
    IF n = "" THEN [g EXCEPT !.focus = "user"]
    ELSE IF n \notin GrUser THEN GrRefused(g)
    ELSE IF ~right THEN GrRefused(record_login_failure(g, n))
    ELSE GrUnlocked(clear_login_failures(g, n))

login_with_credentials(g, n, right) ==
    IF n = "" THEN [g EXCEPT !.focus = "user"]
    ELSE IF n \in g.shut \/ n \notin GrUser THEN GrRefused(g)
    ELSE IF ~right THEN GrRefused(record_login_failure(g, n))
    ELSE GrUnlocked(clear_login_failures(g, n))

\* No account has an empty password.
try_greeter_login(g) == {login_with_credentials(g, g.user, right) : right \in {FALSE, g.typed}}

select_greeter_user(g, n) == [g EXCEPT !.user = n, !.typed = FALSE, !.focus = "password"]

push_greeter_char(g) ==
    IF g.focus = "user" THEN {[g EXCEPT !.user = t] : t \in GrText \ {""}} ELSE {[g EXCEPT !.typed = TRUE]}
PopGreeterChar(g) ==
    IF g.focus = "user" THEN {[g EXCEPT !.user = t] : t \in GrText} ELSE {g, [g EXCEPT !.typed = FALSE]}

handle_greeter_input(g) ==
    {[g EXCEPT !.focus = IF @ = "user" THEN "password" ELSE "user"], [g EXCEPT !.typed = FALSE, !.focus = "password"]}
    \cup try_greeter_login(g) \cup push_greeter_char(g) \cup PopGreeterChar(g)
    \cup {select_greeter_user(g, n) : n \in GrUser} \* cycle_greeter_user

handle_greeter_click(g) ==
    {[g EXCEPT !.focus = f] : f \in {"user", "password"}}
    \cup try_greeter_login(g) \cup {select_greeter_user(g, n) : n \in GrUser}
-----------------------------------------------------------------------------
(* The wizard.                                                             *)

GrComplain(g, at) == [g EXCEPT !.said = TRUE, !.at = at]
GrRetype(g) == [GrComplain(g, 2) EXCEPT !.password = "", !.confirm = ""]

complete_first_boot_setup(g) ==
    IF g.owner = "" THEN {GrComplain(g, 1)}
    ELSE IF g.password # g.confirm THEN {GrRetype(g)}
    ELSE IF g.password # "good" THEN {GrRetype(g), GrComplain(g, 1)} \* the name is looked at first
    ELSE {[GrUnlocked(g) EXCEPT !.user = g.owner, !.first = FALSE, !.password = "", !.confirm = "", !.said = FALSE],
          GrComplain(g, 1),              \* the name is taken, or may not be used
          [g EXCEPT !.said = TRUE],    \* the database could not be written,
          [g EXCEPT !.said = TRUE, !.first = FALSE]} \* with the new records in memory

cycle_first_boot_focus(g, step) == [g EXCEPT !.at = ((@ + step + 3) % 4) + 1]

FieldIsEmpty(g) ==
    CASE g.at = 1 -> g.owner = "" [] g.at = 2 -> g.password = "" [] g.at = 3 -> g.confirm = "" [] OTHER -> TRUE

advance_or_complete_first_boot(g) ==
    IF g.at < 4 /\ ~FieldIsEmpty(g) THEN {[g EXCEPT !.at = @ + 1]} ELSE complete_first_boot_setup(g)

\* Typing and deleting; the name of the device is left out.
EditFirstBoot(g) ==
    CASE g.at = 1 -> {[g EXCEPT !.owner = t] : t \in GrText}
      [] g.at = 2 -> {[g EXCEPT !.password = t] : t \in GrPassword}
      [] g.at = 3 -> {[g EXCEPT !.confirm = t] : t \in GrPassword}
      [] OTHER -> {g}

handle_first_boot_escape(g) ==
    CASE g.said -> {[g EXCEPT !.said = FALSE]}
      [] ~g.said /\ g.at = 1 -> {[g EXCEPT !.said = TRUE]}
      [] ~g.said /\ g.at = 2 /\ g.password # "" -> {[g EXCEPT !.password = ""]}
      [] ~g.said /\ g.at = 3 /\ g.confirm # "" -> {[g EXCEPT !.confirm = ""]}
      [] OTHER -> {g, cycle_first_boot_focus(g, -1)}

handle_first_boot_input(g) ==
    {cycle_first_boot_focus(g, step) : step \in {-1, 1}}
    \cup advance_or_complete_first_boot(g) \cup EditFirstBoot(g) \cup handle_first_boot_escape(g)

handle_first_boot_click(g) == {[g EXCEPT !.at = i] : i \in 1 .. 4} \cup complete_first_boot_setup(g)
-----------------------------------------------------------------------------
LockedInput ==
    /\ gr.locked
    /\ gr' \in IF gr.first THEN handle_first_boot_input(gr) \cup handle_first_boot_click(gr)
               ELSE handle_greeter_input(gr) \cup handle_greeter_click(gr)

\* A command of the boot configuration; all others wait for the session.
run_locked_startup_command ==
    gr.locked /\ \E n \in GrUser \cup {"other"}, right \in BOOLEAN : gr' = login_with_credentials(gr, n, right)

lock_session_form == ~gr.locked /\ \E n \in GrUser : gr' = [gr EXCEPT !.locked = TRUE, !.user = n, !.typed = FALSE, !.focus = "password"]

\* Terminal commands: login, setup, and the reset of the handoff.
TerminalLogin ==
    /\ ~gr.locked
    /\ \E n \in GrUser \ gr.shut : gr' \in {clear_login_failures(gr, n), record_login_failure(gr, n)}
TerminalSetup == ~gr.locked /\ gr' = [gr EXCEPT !.first = FALSE]
TerminalReset == ~gr.locked /\ gr' = [gr EXCEPT !.first = TRUE]

\* LOGIN_LOCKOUT_MS have passed.
LockoutEnds == \E n \in gr.shut : gr' = [gr EXCEPT !.shut = @ \ {n}]

GrNext ==
    \/ LockedInput \/ run_locked_startup_command \/ lock_session_form
    \/ TerminalLogin \/ TerminalSetup \/ TerminalReset \/ LockoutEnds
-----------------------------------------------------------------------------
\* Fields, focus and counters have their types; a name that has failed too often
\* is shut out instead of counted on.
GrTypeOK ==
    /\ gr.user \in GrText /\ gr.owner \in GrText /\ gr.at \in 1 .. 4
    /\ {gr.password, gr.confirm} \subseteq GrPassword /\ gr.focus \in {"user", "password"}
    /\ gr.tries \in [GrUser -> 0 .. MAX_LOGIN_FAILURES - 1] /\ gr.shut \subseteq GrUser

\* No typed password outlives the lock screen.
GrForgets == ~gr.locked => ~gr.typed

\* The screen unlocks for a name that is not shut out, or when the wizard has
\* an owner and twice the same acceptable password.
UnlockIsEarned ==
    gr.locked /\ ~gr'.locked =>
        \/ gr.first /\ gr.owner # "" /\ gr.password = "good" /\ gr.confirm = "good" /\ ~gr'.first
        \/ \E n \in GrUser \ gr.shut : gr'.tries[n] = 0

-----------------------------------------------------------------------------
(***************************************************************************)
(* User accounts, sessions and the first-boot handoff (security.rs), with  *)
(* the commands and the settings page that call them.  The records live in *)
(* memory; /CONFIG/USERS.DB and /CONFIG/FIRSTBOOT.CFG are written one      *)
(* after the other.  A write may fail, and the machine may stop between    *)
(* two writes; a single write replaces the file as a whole.                *)
(*                                                                         *)
(* Passwords are left out but for one thing: whether root still has the    *)
(* one of the handoff.                                                     *)
(***************************************************************************)

CONSTANTS AccExtra, \* names other than root and guest
          AccFails  \* bound: failed writes

VARIABLE acc

AccName == {"root", "guest"} \cup AccExtra
UserRecord == [role : {"admin", "user"}, on : BOOLEAN, default : BOOLEAN]
NoUsers == [n \in {} |-> 0]

default_admin_user == [role |-> "admin", on |-> TRUE, default |-> TRUE]
default_guest_user == [role |-> "user", on |-> TRUE, default |-> FALSE]
default_users == [n \in {"root", "guest"} |-> IF n = "root" THEN default_admin_user ELSE default_guest_user]

PutUser(us, n, r) == [x \in DOMAIN us \cup {n} |-> IF x = n THEN r ELSE us[x]]
EnabledAdmins(us) == {n \in DOMAIN us : us[n].on /\ us[n].role = "admin"}
first_run_required(us) == "root" \in DOMAIN us /\ us["root"].on /\ us["root"].default

\* What a handler still has to do: write the users, write the state of the
\* first boot, start a session, reconcile the two files.  A step that must
\* succeed takes the rest with it when it fails.
persist_users == [op |-> "users", arg |-> "", must |-> TRUE]
write_first_boot_state(state) == [op |-> "mark", arg |-> state, must |-> TRUE]
set_session_from_user(n) == [op |-> "session", arg |-> n, must |-> TRUE]
AccIgnored(step) == [step EXCEPT !.must = FALSE]

\* The choice of the session at boot.
default_session_user(us) ==
    IF "root" \in DOMAIN us /\ us["root"].on THEN {"root"}
    ELSE IF EnabledAdmins(us) # {} THEN EnabledAdmins(us)
    ELSE {n \in DOMAIN us : us[n].on} \cup (IF \E n \in DOMAIN us : us[n].on THEN {} ELSE {"root"})

load_users_from_disk(disk) == IF {"root", "guest"} \subseteq DOMAIN disk THEN disk ELSE default_users

restore_default_handoff(us) ==
    LET r == PutUser(us, "root", default_admin_user)
    IN  IF "guest" \in DOMAIN r THEN r ELSE PutUser(r, "guest", default_guest_user)
HandoffWrites(us) == IF restore_default_handoff(us) = us THEN <<>> ELSE <<persist_users>>
-----------------------------------------------------------------------------
AccInit ==
    acc = [users |-> NoUsers, disk |-> NoUsers, fb |-> "missing", session |-> "root", caps |-> "admin",
           locked |-> TRUE, phase |-> "off", todo |-> <<>>, fails |-> 0]

\* security_init and the part of the boot that reconciles the files; wizard says
\* whether this is a boot that shows the wizard (no smoke run, no installer).
security_init(wizard) ==
    LET us == load_users_from_disk(acc.disk)
    IN  \E s \in default_session_user(us) :
            acc' = [acc EXCEPT !.users = us, !.session = s, !.caps = us[s].role, !.locked = TRUE,
                               !.phase = "boot",
                               !.todo = <<AccIgnored(persist_users)>> \o
                                        (IF wizard THEN <<[op |-> "ensure", arg |-> "", must |-> TRUE],
                                                          [op |-> "wizard", arg |-> "", must |-> TRUE]>>
                                         ELSE <<>>)]
AccBoot == acc.phase = "off" /\ \E wizard \in BOOLEAN : security_init(wizard)

AccCrash == acc.phase # "off" /\ acc' = [acc EXCEPT !.users = NoUsers, !.phase = "off", !.todo = <<>>]

\* repair_first_boot_unchecked; ensure_first_boot_boot_consistency does the
\* same.  The users it leaves and the steps that follow.
repair_first_boot_unchecked(s) ==
    IF EnabledAdmins(s.users) = {}
    THEN [s EXCEPT !.users = restore_default_handoff(s.users),
                   !.todo = HandoffWrites(s.users) \o <<write_first_boot_state("required")>> \o @]
    ELSE IF first_run_required(s.users) /\ s.fb = "complete"
    THEN [s EXCEPT !.todo = <<write_first_boot_state("required")>> \o @]
    ELSE IF ~first_run_required(s.users) /\ s.fb # "complete"
    THEN [s EXCEPT !.todo = <<write_first_boot_state("complete")>> \o @]
    ELSE s

mark_first_boot_in_progress(s) ==
    [s EXCEPT !.todo = (IF first_run_required(s.users) THEN <<AccIgnored(write_first_boot_state("in_progress"))>>
                        ELSE <<>>) \o @]

\* One step of what is under way.
AccStep ==
    /\ acc.todo # <<>>
    /\ LET step == Head(acc.todo)
           rest == [acc EXCEPT !.todo = Tail(@)]
       IN  \/ step.op = "users" /\ acc' = [rest EXCEPT !.disk = acc.users]
           \/ step.op = "mark" /\ acc' = [rest EXCEPT !.fb = step.arg]
           \/ step.op = "session" /\ acc' = [rest EXCEPT !.session = step.arg, !.caps = acc.users[step.arg].role]
           \/ step.op = "unlock" /\ acc' = [rest EXCEPT !.locked = FALSE]
           \/ step.op = "ensure" /\ acc' = repair_first_boot_unchecked(rest)
           \/ step.op = "wizard" /\ acc' = mark_first_boot_in_progress(rest)

AccStepFails ==
    /\ acc.todo # <<>> /\ acc.fails < AccFails
    /\ Head(acc.todo).op \in {"users", "mark"}
    /\ acc' = [acc EXCEPT !.fails = @ + 1, !.todo = IF Head(@).must THEN <<>> ELSE Tail(@)]

AccBootDone == acc.phase = "boot" /\ acc.todo = <<>> /\ acc' = [acc EXCEPT !.phase = "up"]
-----------------------------------------------------------------------------
AccIdle == acc.phase = "up" /\ acc.todo = <<>>
AccAtDesk == AccIdle /\ ~acc.locked
AccAdmin == AccAtDesk /\ acc.caps = "admin" \* require_admin_account

\* login: from a terminal, or from the greeter, which then unlocks the session.
\* A wrong password and a throttled login change no record.
login(n) ==
    /\ AccIdle /\ n \in DOMAIN acc.users /\ acc.users[n].on
    /\ acc' = [acc EXCEPT !.todo = <<set_session_from_user(n), [op |-> "unlock", arg |-> "", must |-> TRUE]>>]

\* From the start menu, or by the command, which leaves the lock to the next
\* frame.
logout ==
    /\ AccAtDesk
    /\ \E now \in BOOLEAN :
          acc' = [acc EXCEPT !.session = "guest", !.caps = acc.users["guest"].role, !.locked = now]
lock == AccAtDesk /\ acc' = [acc EXCEPT !.locked = TRUE]

change_password ==
    /\ AccAtDesk
    /\ acc' = [acc EXCEPT !.users[acc.session].default = FALSE, !.todo = <<persist_users>>]

OwnerRecords(us, n) ==
    IF n = "root" THEN PutUser(us, n, [role |-> "admin", on |-> TRUE, default |-> FALSE])
    ELSE PutUser([x \in DOMAIN us |-> IF x = "root" /\ first_run_required(us)
                                  THEN [us[x] EXCEPT !.on = FALSE, !.default = FALSE] ELSE us[x]],
             n, [role |-> "admin", on |-> TRUE, default |-> FALSE])

\* The wizard of a locked machine unlocks it and writes the state once more.
complete_first_run_admin(n) ==
    /\ AccIdle /\ first_run_required(acc.users)
    /\ n = "root" \/ n \notin DOMAIN acc.users
    /\ acc' = [acc EXCEPT !.users = OwnerRecords(@, n),
                          !.todo = <<persist_users, AccIgnored(write_first_boot_state("complete")),
                                     set_session_from_user(n)>> \o
                                   (IF acc.locked THEN <<AccIgnored(write_first_boot_state("complete")),
                                                         [op |-> "unlock", arg |-> "", must |-> TRUE]>>
                                    ELSE <<>>)]

create_user(n, role) ==
    /\ AccAdmin /\ n \notin DOMAIN acc.users
    /\ acc' = [acc EXCEPT !.users = PutUser(@, n, [role |-> role, on |-> TRUE, default |-> FALSE]),
                          !.todo = <<persist_users>>]

LastAdmin(n) == acc.users[n].role = "admin" /\ \A a, b \in EnabledAdmins(acc.users) : a = b

set_user_enabled(n, on) ==
    /\ AccAdmin /\ n \in DOMAIN acc.users
    /\ on \/ (n # acc.session /\ ~LastAdmin(n))
    /\ acc' = [acc EXCEPT !.users[n].on = on, !.todo = <<persist_users>>]

RoleOfAnyone(n, role) ==
    /\ AccAdmin /\ n \in DOMAIN acc.users
    /\ acc' = [acc EXCEPT !.users[n].role = role,
                          !.todo = <<persist_users>> \o
                                   (IF n = acc.session THEN <<set_session_from_user(n)>> ELSE <<>>)]

set_user_role(n, role) ==
    /\ AccAdmin /\ n \in DOMAIN acc.users
    /\ role = "admin" \/ ~LastAdmin(n)
    /\ acc' = [acc EXCEPT !.users[n].role = role,
                          !.todo = <<persist_users>> \o
                                   (IF n = acc.session THEN <<set_session_from_user(n)>> ELSE <<>>)]

reset_user_password(n) ==
    /\ AccAdmin /\ n \in DOMAIN acc.users
    /\ acc' = [acc EXCEPT !.users[n].default = FALSE, !.todo = <<persist_users>>]

delete_user(n) ==
    /\ AccAdmin /\ n \in DOMAIN acc.users
    /\ n \notin {acc.session, "root", "guest"} /\ ~LastAdmin(n)
    /\ acc' = [acc EXCEPT !.users = [x \in DOMAIN @ \ {n} |-> @[x]], !.todo = <<persist_users>>]

\* The recovery commands ask for no administrator.
reset_first_boot_unchecked ==
    AccAtDesk /\ acc' = [acc EXCEPT !.users = restore_default_handoff(@),
                                 !.todo = HandoffWrites(acc.users) \o <<write_first_boot_state("required")>>]
RecoveryRepair == AccAtDesk /\ acc' = repair_first_boot_unchecked(acc)

AccNext ==
    \/ AccBoot \/ AccCrash \/ AccStep \/ AccStepFails \/ AccBootDone
    \/ logout \/ lock \/ change_password \/ reset_first_boot_unchecked \/ RecoveryRepair
    \/ \E n \in AccName :
          \/ login(n) \/ complete_first_run_admin(n) \/ reset_user_password(n) \/ delete_user(n)
          \/ \E role \in {"admin", "user"} : create_user(n, role) \/ set_user_role(n, role)
          \/ \E on \in BOOLEAN : set_user_enabled(n, on)
-----------------------------------------------------------------------------
\* The tables in memory and on disk hold records of known users.
AccTypeOK ==
    /\ \A us \in {acc.users, acc.disk} : DOMAIN us \subseteq AccName /\ \A n \in DOMAIN us : us[n] \in UserRecord
    /\ acc.fb \in {"missing", "required", "in_progress", "complete"} /\ acc.phase \in {"off", "boot", "up"}

\* Account operations keep an enabled administrator, in memory and, whatever
\* write fails and whenever the machine stops, in the file the next boot reads;
\* the session belongs to a user that exists; and a boot that shows the wizard,
\* unless a write has failed, comes to it with a first-boot file that agrees
\* with the user database: complete exactly when root no longer has the
\* password of the handoff.
AdminRemains ==
    /\ acc.phase # "off" => EnabledAdmins(acc.users) # {} /\ acc.session \in DOMAIN acc.users
    /\ acc.disk # NoUsers => EnabledAdmins(load_users_from_disk(acc.disk)) # {}
    /\ acc.fails = 0 /\ acc.todo # <<>> /\ Head(acc.todo).op = "wizard"
         => (first_run_required(acc.users) <=> acc.fb # "complete")
=============================================================================
