------------------------------ MODULE Terminal ------------------------------
(***************************************************************************)
(* A terminal: its input, and the jobs that are run from it.               *)
(***************************************************************************)
EXTENDS Naturals, Sequences, FiniteSets

-----------------------------------------------------------------------------
(* A terminal (tty.rs): the keys that task 0 forwards to the foreground      *)
(* program, the line being edited, the input queue, and the tasks that wait  *)
(* for input in read_input_blocking() or in sys_poll().  Task 0 runs with    *)
(* interrupts on, so tasks run between its reading of the mode, its change   *)
(* of the terminal and each of its wake-ups.  The output side (echo) is a    *)
(* display and left out.                                                     *)

CONSTANTS TtyTask,          \* the tasks that use the terminal
          TTY_INPUT_SIZE,   \* slots of the input ring, one of them unused
          TTY_LINE_LIMIT,   \* bytes of a line that is being edited
          MaxKeys           \* bound on the keys that are typed

VARIABLES ttyInput,    \* bytes between input_tail and input_head
          ttyLine,     \* bytes of the line that is being edited
          ttyEof,      \* eof_pending
          ttyMode,     \* the flags that are set
          ttyWaiting,  \* waiting_readers
          ttyTasks,    \* status of the tasks, and the call they wait in
          ttyKey,      \* the key task 0 is forwarding, with the mode it has read
          ttyWakes,    \* the tasks task 0 is about to wake
          ttyTyped     \* number of keys typed

ttyVars == <<ttyInput, ttyLine, ttyEof, ttyMode, ttyWaiting, ttyTasks, ttyKey, ttyWakes, ttyTyped>>

\* Bytes: a printable one, the two of a wide character, newline, a control byte.
TtyByte == {"a", "w1", "w2", "nl", "ctl"}
TtyKeys == {"char", "wide", "enter", "backspace", "arrow", "ctrl-d"}
NoKey == [key |-> "none", mode |-> {}]
TTY_MODE_MASK == {"canonical", "signals"}

TtyTypeOK ==
    /\ ttyInput \in Seq(TtyByte) /\ Len(ttyInput) < TTY_INPUT_SIZE
    /\ ttyLine \in Seq(TtyByte) /\ Len(ttyLine) <= TTY_LINE_LIMIT
    /\ ttyEof \in BOOLEAN
    /\ ttyMode \subseteq TTY_MODE_MASK
    /\ ttyWaiting \subseteq TtyTask /\ ttyWakes \subseteq TtyTask
    /\ ttyTasks \in [TtyTask -> [status : {"Ready", "Blocked", "Dead"}, at : {"user", "read", "poll"}]]
    /\ ttyKey \in [key : TtyKeys \cup {"none"}, mode : SUBSET TTY_MODE_MASK]
    /\ ttyTyped \in 0 .. MaxKeys

TtyInit ==
    /\ ttyInput = <<>> /\ ttyLine = <<>> /\ ttyEof = FALSE
    /\ ttyMode = TTY_MODE_MASK
    /\ ttyWaiting = {} /\ ttyWakes = {}
    /\ ttyTasks = [t \in TtyTask |-> [status |-> "Ready", at |-> "user"]]
    /\ ttyKey = NoKey /\ ttyTyped = 0
-----------------------------------------------------------------------------
\* Mutant: the last slot is used, which makes a full ring look empty.
PushToLastSlot(bytes) ==
    LET all == ttyInput \o bytes
    IN  IF Len(all) <= TTY_INPUT_SIZE THEN all ELSE SubSeq(all, 1, TTY_INPUT_SIZE)

\* push_input_byte() for each byte: what does not fit is dropped.
PushedInput(bytes) ==
    LET all == ttyInput \o bytes
    IN  IF Len(all) < TTY_INPUT_SIZE THEN all ELSE SubSeq(all, 1, TTY_INPUT_SIZE - 1)

\* take_readers(): task 0 goes on to wake them.
TakeReaders == ttyWakes' = ttyWaiting /\ ttyWaiting' = {}
NoReaders == UNCHANGED <<ttyWakes, ttyWaiting>>

\* Mutant: the readers stay where they are.
KeepReaders(newline) ==
    /\ ttyInput' = PushedInput(ttyLine \o (IF newline THEN <<"nl">> ELSE <<>>))
    /\ ttyLine' = <<>>
    /\ NoReaders

flush_line(newline) ==
    /\ ttyInput' = PushedInput(ttyLine \o (IF newline THEN <<"nl">> ELSE <<>>))
    /\ ttyLine' = <<>>
    /\ TakeReaders

push_raw_input(bytes) == ttyInput' = PushedInput(bytes) /\ UNCHANGED ttyLine /\ TakeReaders

\* remove_last_line_char(): the continuation bytes go with their first byte.
remove_last_line_char(line) ==
    CASE line = <<>> -> line
      [] line[Len(line)] = "w2" -> SubSeq(line, 1, Len(line) - 2)
      [] OTHER -> SubSeq(line, 1, Len(line) - 1)

EditLine(bytes) ==
    /\ ttyLine' = IF Len(ttyLine) + Len(bytes) <= TTY_LINE_LIMIT THEN ttyLine \o bytes ELSE ttyLine
    /\ UNCHANGED ttyInput /\ NoReaders

submit_char(bytes) ==
    /\ IF "canonical" \in ttyMode THEN EditLine(bytes) ELSE push_raw_input(bytes)
    /\ UNCHANGED ttyEof

submit_enter ==
    /\ IF "canonical" \in ttyMode THEN flush_line(TRUE) ELSE push_raw_input(<<"nl">>)
    /\ UNCHANGED ttyEof

submit_backspace ==
    /\ IF "canonical" \in ttyMode
       THEN ttyLine' = remove_last_line_char(ttyLine) /\ UNCHANGED ttyInput /\ NoReaders
       ELSE push_raw_input(<<"ctl">>)
    /\ UNCHANGED ttyEof

\* submit_bytes() of an escape sequence: a line takes its printable bytes, each
\* as long as there is room.
submit_bytes(escape) ==
    /\ IF "canonical" \in ttyMode
       THEN LET room == TTY_LINE_LIMIT - Len(ttyLine)
                kept == SelectSeq(escape, LAMBDA b : b # "ctl")
            IN  /\ ttyLine' = ttyLine \o SubSeq(kept, 1, IF Len(kept) > room THEN room ELSE Len(kept))
                /\ UNCHANGED ttyInput /\ NoReaders
       ELSE push_raw_input(escape)
    /\ UNCHANGED ttyEof

submit_eof ==
    IF ttyLine = <<>>
    THEN ttyEof' = TRUE /\ TakeReaders /\ UNCHANGED <<ttyInput, ttyLine>>
    ELSE flush_line(FALSE) /\ UNCHANGED ttyEof
-----------------------------------------------------------------------------
\* forward_foreground_input(): the mode is read first, the key is submitted
\* later, and the terminal looks at its own mode again.
ReadMode(key) ==
    /\ ttyKey = NoKey /\ ttyWakes = {} /\ ttyTyped < MaxKeys
    /\ ttyKey' = [key |-> key, mode |-> ttyMode]
    /\ ttyTyped' = ttyTyped + 1
    /\ UNCHANGED <<ttyInput, ttyLine, ttyEof, ttyMode, ttyWaiting, ttyTasks, ttyWakes>>

forward_foreground_input ==
    /\ ttyKey # NoKey
    /\ ttyKey' = NoKey
    /\ CASE ttyKey.key = "ctrl-d" /\ "signals" \in ttyKey.mode -> submit_eof
         [] ttyKey.key = "ctrl-d" /\ "signals" \notin ttyKey.mode ->
                IF "canonical" \in ttyKey.mode THEN submit_char(<<"a">>) ELSE submit_bytes(<<"ctl">>)
         [] ttyKey.key = "char" -> submit_char(<<"a">>)
         [] ttyKey.key = "wide" -> submit_char(<<"w1", "w2">>)
         [] ttyKey.key = "enter" -> submit_enter
         [] ttyKey.key = "backspace" -> submit_backspace
         [] ttyKey.key = "arrow" ->
                IF "canonical" \in ttyKey.mode
                THEN NoReaders /\ UNCHANGED <<ttyInput, ttyLine, ttyEof>>
                ELSE submit_bytes(<<"ctl", "a", "a">>)
    /\ UNCHANGED <<ttyMode, ttyTasks, ttyTyped>>

Unblock(t) == IF ttyTasks[t].status = "Blocked" THEN [ttyTasks EXCEPT ![t].status = "Ready"] ELSE ttyTasks

\* wake_readers(): evented::wake_tasks(), one task after the other.
wake_readers ==
    \E t \in ttyWakes :
        /\ ttyWakes' = ttyWakes \ {t}
        /\ ttyTasks' = Unblock(t)
        /\ UNCHANGED <<ttyInput, ttyLine, ttyEof, ttyMode, ttyWaiting, ttyKey, ttyTyped>>
-----------------------------------------------------------------------------
InputReady == ttyInput # <<>> \/ ttyEof

\* The bytes one read takes: at most max, in canonical mode up to a newline.
ReadCount(max) ==
    LET n == IF Len(ttyInput) < max THEN Len(ttyInput) ELSE max
        line == {i \in 1 .. n : ttyInput[i] = "nl"}
    IN  IF "canonical" \in ttyMode /\ line # {} THEN CHOOSE i \in line : \A j \in line : i <= j ELSE n

\* One pass of the loop of read_input_blocking().
ReadPass(t, max) ==
    IF ttyInput # <<>>
    THEN /\ ttyInput' = SubSeq(ttyInput, ReadCount(max) + 1, Len(ttyInput))
         /\ ttyTasks' = [ttyTasks EXCEPT ![t].at = "user"] /\ UNCHANGED <<ttyEof, ttyWaiting>>
    ELSE IF ttyEof
         THEN /\ ttyEof' = FALSE
              /\ ttyTasks' = [ttyTasks EXCEPT ![t].at = "user"] /\ UNCHANGED <<ttyInput, ttyWaiting>>
         ELSE /\ ttyWaiting' = ttyWaiting \cup {t}
              /\ ttyTasks' = [ttyTasks EXCEPT ![t] = [status |-> "Blocked", at |-> "read"]]
              /\ UNCHANGED <<ttyInput, ttyEof>>

read_input_blocking(t) ==
    /\ ttyTasks[t].status = "Ready" /\ ttyTasks[t].at \in {"user", "read"}
    /\ \E max \in 1 .. 2 : ReadPass(t, max)
    /\ UNCHANGED <<ttyLine, ttyMode, ttyKey, ttyWakes, ttyTyped>>

\* sys_poll() on the terminal: scan, register and scan again in one go, since
\* system calls run with interrupts off; after a wake-up the task unregisters
\* and scans again.
PollTty(t) ==
    /\ ttyTasks[t].status = "Ready" /\ ttyTasks[t].at \in {"user", "poll"}
    /\ IF InputReady
       THEN /\ ttyTasks' = [ttyTasks EXCEPT ![t].at = "user"]
            /\ ttyWaiting' = IF ttyTasks[t].at = "poll" THEN ttyWaiting \ {t} ELSE ttyWaiting
       ELSE /\ ttyTasks' = [ttyTasks EXCEPT ![t] = [status |-> "Blocked", at |-> "poll"]]
            /\ ttyWaiting' = ttyWaiting \cup {t}
    /\ UNCHANGED <<ttyInput, ttyLine, ttyEof, ttyMode, ttyKey, ttyWakes, ttyTyped>>

\* The deadline of a poll has passed: the task unregisters and returns.
PollExpires(t) ==
    /\ ttyTasks[t].status # "Dead" /\ ttyTasks[t].at = "poll"
    /\ ttyTasks' = [ttyTasks EXCEPT ![t] = [status |-> "Ready", at |-> "user"]]
    /\ ttyWaiting' = ttyWaiting \ {t}
    /\ UNCHANGED <<ttyInput, ttyLine, ttyEof, ttyMode, ttyKey, ttyWakes, ttyTyped>>

\* set_input_mode(): any program that has the terminal may change its mode.
set_input_mode(t) ==
    /\ ttyTasks[t] = [status |-> "Ready", at |-> "user"]
    /\ \E m \in SUBSET TTY_MODE_MASK : m # ttyMode /\ ttyMode' = m
    /\ UNCHANGED <<ttyInput, ttyLine, ttyEof, ttyWaiting, ttyTasks, ttyKey, ttyWakes, ttyTyped>>

\* A sleeping task is made ready for a reason that is not the terminal, or dies
\* (cleanup_task_resources() leaves it in waiting_readers).
WokenElsewhere(t) ==
    /\ ttyTasks[t].status = "Blocked"
    /\ \E s \in {"Ready", "Dead"} : ttyTasks' = [ttyTasks EXCEPT ![t].status = s]
    /\ UNCHANGED <<ttyInput, ttyLine, ttyEof, ttyMode, ttyWaiting, ttyKey, ttyWakes, ttyTyped>>

TtyNext ==
    \/ \E key \in TtyKeys : ReadMode(key)
    \/ forward_foreground_input
    \/ wake_readers
    \/ \E t \in TtyTask : \/ read_input_blocking(t)
                          \/ PollTty(t)
                          \/ PollExpires(t)
                          \/ set_input_mode(t)
                          \/ WokenElsewhere(t)

TtySpec == TtyInit /\ [][TtyNext]_ttyVars
-----------------------------------------------------------------------------
\* A task that sleeps in read_input_blocking() or in sys_poll() has nothing to
\* read and is known to the terminal, unless task 0 is about to wake it: no
\* line, byte or end of file is ever typed past a sleeping reader.
TtyReaderIsWoken ==
    \A t \in TtyTask : ttyTasks[t].status = "Blocked" =>
        (~InputReady /\ t \in ttyWaiting) \/ t \in ttyWakes

\* Editing never splits a character: the line always consists of whole ones,
\* whatever mode the keys were typed in (remove_last_line_char, TTY_LINE_LIMIT).
TtyWholeChars ==
    \A i \in 1 .. Len(ttyLine) :
        /\ ttyLine[i] = "w1" => i < Len(ttyLine) /\ ttyLine[i + 1] = "w2"
        /\ ttyLine[i] = "w2" => i > 1 /\ ttyLine[i - 1] = "w1"

\* The end of file is reported only to a read that has found the input empty:
\* what was typed before it is read before it.
TtyEofIsLast == [][ttyEof /\ ~ttyEof' => ttyInput = <<>>]_ttyVars

-----------------------------------------------------------------------------
(* Background jobs (jobs.rs) and the foreground group of a terminal          *)
(* (apps/terminal: exec, job, fg, bg, ^C, ^Z and poll_foreground_job).  The  *)
(* commands run in task 0 with interrupts on: processes exit, are started    *)
(* and change their group between the looking up and the signalling of the   *)
(* members of a group.                                                       *)

CONSTANTS JobPid,    \* process numbers, in the order they are given out
          MAX_JOBS   \* rows of the job table

VARIABLES jobTable,    \* JOBS: records [id, state, pid]
          jobNext,     \* NEXT_JOB_ID
          procs,       \* status and group of the processes
          foreground,  \* foreground_job of the terminal: [group, pid]
          ttyGroup,    \* foreground group of its tty
          signals      \* a group signal under way: the members still to come

jobVars == <<jobTable, jobNext, procs, foreground, ttyGroup, signals>>

JobStates == {"Running", "Paused", "Cancelled", "Complete", "Failed"}
JobFinished == {"Cancelled", "Complete", "Failed"}
ProcStatus == {"none", "live", "stopped", "exit0", "exit1", "signalled"}
ProcGone == {"exit0", "exit1", "signalled"}
NoForeground == [group |-> 0, pid |-> 0]
NoSignal == [ids |-> {}, signal |-> "none"]

JobsTypeOK ==
    /\ jobTable \in Seq([id : 1 .. Cardinality(JobPid), state : JobStates, pid : JobPid])
    /\ Len(jobTable) <= MAX_JOBS
    /\ jobNext \in 1 .. Cardinality(JobPid) + 1
    /\ procs \in [JobPid -> [status : ProcStatus, group : JobPid \cup {0}]]
    /\ foreground \in [group : JobPid \cup {0}, pid : JobPid \cup {0}]
    /\ ttyGroup \in JobPid \cup {0}
    /\ signals \in [ids : SUBSET JobPid, signal : {"none", "INT", "STOP"}]

JobsInit ==
    /\ jobTable = <<>> /\ jobNext = 1
    /\ procs = [p \in JobPid |-> [status |-> "none", group |-> 0]]
    /\ foreground = NoForeground /\ ttyGroup = 0
    /\ signals = NoSignal
-----------------------------------------------------------------------------
ProcAlive(p) == procs[p].status \in {"live", "stopped"}
UnusedPid(p) == procs[p].status = "none" /\ \A q \in JobPid : q < p => procs[q].status # "none"
JobRow(id) == {i \in 1 .. Len(jobTable) : jobTable[i].id = id}

\* send_signal() to a process that has not exited.
Signalled(p, signal) ==
    CASE signal \in {"INT", "TERM"} -> "signalled"
      [] signal = "STOP" -> "stopped"
      [] signal = "CONT" -> "live"

SignalOne(p, signal) ==
    procs' = IF ProcAlive(p) THEN [procs EXCEPT ![p].status = Signalled(p, signal)] ELSE procs

\* The terminal is idle: the command that has just been given runs to its end.
AtPrompt == foreground = NoForeground /\ signals = NoSignal

NewProc(p, group) == procs' = [procs EXCEPT ![p] = [status |-> "live", group |-> group]]

\* set_state(): the row may have been dropped from the table.
set_state(id, state) ==
    jobTable' = [i \in DOMAIN jobTable |->
                    IF jobTable[i].id = id THEN [jobTable[i] EXCEPT !.state = state] ELSE jobTable[i]]

begin_foreground(p, group) == foreground' = [group |-> group, pid |-> p] /\ ttyGroup' = group

\* "exec", "sh": the process is set up before it is unblocked.
cmd_exec(p) ==
    /\ AtPrompt /\ UnusedPid(p)
    /\ NewProc(p, p)
    /\ begin_foreground(p, p)
    /\ UNCHANGED <<jobTable, jobNext, signals>>

\* "job run": start_process() drops the oldest row when the table is full.
cmd_job_run(p) ==
    /\ AtPrompt /\ UnusedPid(p)
    /\ NewProc(p, p)
    /\ LET rows == Append(jobTable, [id |-> jobNext, state |-> "Running", pid |-> p])
       IN  jobTable' = IF Len(rows) > MAX_JOBS THEN Tail(rows) ELSE rows
    /\ jobNext' = jobNext + 1
    /\ UNCHANGED <<foreground, ttyGroup, signals>>

\* Mutant: the job is cancelled and its process goes on.
CancelQuietly(id) ==
    /\ JobRow(id) # {}
    /\ set_state(id, "Cancelled")
    /\ UNCHANGED <<jobNext, procs, foreground, ttyGroup, signals>>

\* The job commands are given in any terminal, this one's foreground included.
cancel(id) ==
    /\ \E i \in JobRow(id) : SignalOne(jobTable[i].pid, "TERM")
    /\ set_state(id, "Cancelled")
    /\ UNCHANGED <<jobNext, foreground, ttyGroup, signals>>

\* pause() and resume(): nothing happens to the row of a process that has gone.
SignalJob(id, signal, state) ==
    \E i \in JobRow(id) :
        /\ ProcAlive(jobTable[i].pid)
        /\ SignalOne(jobTable[i].pid, signal)
        /\ set_state(id, state)

pause(id) == SignalJob(id, "STOP", "Paused") /\ UNCHANGED <<jobNext, foreground, ttyGroup, signals>>

\* resume(), which is also what "bg" does.
resume(id) == SignalJob(id, "CONT", "Running") /\ UNCHANGED <<jobNext, foreground, ttyGroup, signals>>

\* "fg": set_task_tty() refuses a process that has exited.
cmd_fg(id) ==
    /\ AtPrompt
    /\ SignalJob(id, "CONT", "Running")
    /\ \E i \in JobRow(id) : begin_foreground(jobTable[i].pid, procs[jobTable[i].pid].group)
    /\ UNCHANGED <<jobNext, signals>>

\* refresh_process_jobs(), before the table is shown.
RefreshedState(row) ==
    LET s == procs[row.pid].status
    IN  CASE row.state \in JobFinished -> row.state
          [] row.state \notin JobFinished /\ s = "exit0" -> "Complete"
          [] row.state \notin JobFinished /\ s = "exit1" -> "Failed"
          [] row.state \notin JobFinished /\ s = "signalled" -> "Cancelled"
          [] row.state \notin JobFinished /\ s = "stopped" -> "Paused"
          [] row.state \notin JobFinished /\ s = "live" -> "Running"

refresh_process_jobs ==
    /\ jobTable' = [i \in DOMAIN jobTable |-> [jobTable[i] EXCEPT !.state = RefreshedState(jobTable[i])]]
    /\ jobTable' # jobTable
    /\ UNCHANGED <<jobNext, procs, foreground, ttyGroup, signals>>
-----------------------------------------------------------------------------
\* ^C and ^Z: send_signal_to_group() looks up the members and signals them later,
\* one after the other.
signal_foreground(signal) ==
    /\ foreground # NoForeground /\ signals = NoSignal
    /\ LET ids == {p \in JobPid : procs[p].group = ttyGroup /\ ProcAlive(p)}
       IN  ids # {} /\ signals' = [ids |-> ids, signal |-> signal]
    /\ UNCHANGED <<jobTable, jobNext, procs, foreground, ttyGroup>>

DeliverNext ==
    /\ signals # NoSignal
    /\ LET p == CHOOSE q \in signals.ids : \A r \in signals.ids : q <= r
       IN  /\ SignalOne(p, signals.signal)
           /\ signals' = IF signals.ids = {p} THEN NoSignal ELSE [signals EXCEPT !.ids = @ \ {p}]
    /\ UNCHANGED <<jobTable, jobNext, foreground, ttyGroup>>

\* Mutant: the leader stands for the group.
LeaderOver(group) == procs[group].status # "live"

\* process_group_status(): a member that can run makes the group run.
GroupOver(group) == \A p \in JobPid : procs[p].group = group => procs[p].status # "live"

poll_foreground_job ==
    /\ foreground # NoForeground /\ signals = NoSignal
    /\ GroupOver(foreground.group)
    /\ foreground' = NoForeground /\ ttyGroup' = 0
    /\ UNCHANGED <<jobTable, jobNext, procs, signals>>

\* The processes: they end, start others in their group, and may leave it.
ProcExit(p) ==
    /\ procs[p].status = "live"
    /\ \E s \in {"exit0", "exit1"} : procs' = [procs EXCEPT ![p].status = s]
    /\ UNCHANGED <<jobTable, jobNext, foreground, ttyGroup, signals>>

ProcSpawn(p, q) ==
    /\ procs[p].status = "live" /\ UnusedPid(q)
    /\ NewProc(q, procs[p].group)
    /\ UNCHANGED <<jobTable, jobNext, foreground, ttyGroup, signals>>

set_process_group(p) ==
    /\ procs[p].status = "live" /\ procs[p].group # p
    /\ procs' = [procs EXCEPT ![p].group = p]
    /\ UNCHANGED <<jobTable, jobNext, foreground, ttyGroup, signals>>

JobsNext ==
    \/ \E p \in JobPid : cmd_exec(p) \/ cmd_job_run(p)
    \/ \E id \in 1 .. jobNext : cancel(id) \/ pause(id) \/ resume(id) \/ cmd_fg(id)
    \/ refresh_process_jobs
    \/ \E signal \in {"INT", "STOP"} : signal_foreground(signal)
    \/ DeliverNext
    \/ poll_foreground_job
    \/ \E p \in JobPid : ProcExit(p) \/ set_process_group(p) \/ (\E q \in JobPid : ProcSpawn(p, q))

JobsSpec == JobsInit /\ [][JobsNext]_jobVars
-----------------------------------------------------------------------------
\* What the table says of a finished job is true of its process: complete after
\* an exit with 0, failed after another exit, cancelled only if it is gone.  Job
\* commands, ^C, exits and refreshes come in any order.
JobVerdict ==
    \A i \in DOMAIN jobTable :
        LET s == procs[jobTable[i].pid].status
        IN  CASE jobTable[i].state = "Complete" -> s = "exit0"
              [] jobTable[i].state = "Failed" -> s = "exit1"
              [] jobTable[i].state = "Cancelled" -> s \in ProcGone
              [] OTHER -> TRUE

\* A job that has finished is not brought back by pause, resume, fg or a refresh.
JobStaysFinished ==
    [][\A i \in DOMAIN jobTable : \A j \in DOMAIN jobTable' :
        jobTable[i].id = jobTable'[j].id /\ jobTable[i].state \in JobFinished
            => jobTable'[j].state \in JobFinished]_jobVars

\* The prompt comes back only when no process of the foreground group can run,
\* and the tty forgets the group at the same time: keys and ^C never go to a
\* group that the terminal does not show, nor the prompt to a busy terminal.
PromptIsEarned ==
    [][foreground # NoForeground /\ foreground' = NoForeground
        => ttyGroup' = 0 /\ \A p \in JobPid : procs[p].group = foreground.group => procs[p].status # "live"]_jobVars

\* What a terminal reports comes in order: an end of file after the input that
\* was typed before it (TtyEofIsLast), a finished job stays finished
\* (JobStaysFinished), and the prompt comes back only when the foreground group
\* is over (PromptIsEarned).
TerminalOrder == TtyEofIsLast /\ JobStaysFinished /\ PromptIsEarned
=============================================================================
