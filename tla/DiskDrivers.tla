---------------------------- MODULE DiskDrivers ----------------------------
(***************************************************************************)
(* The drivers of the disks inside the machine: NVMe, SATA and IDE.  They share *)
(* no state; each has its variable, its Init and its Next.                 *)
(***************************************************************************)
EXTENDS Integers, Sequences, SequencesExt, Outcomes, FiniteSets

-----------------------------------------------------------------------------
(***************************************************************************)
(* The NVMe driver (src/src/nvme.rs): one queue pair at a time, one command*)
(* at a time, one buffer for all of them.  A command that timed out stays  *)
(* with the controller, which is external and carries the commands out in  *)
(* order, also after the driver has given up on them.                      *)
(***************************************************************************)

CONSTANTS
    QUEUE_ENTRIES,   \* of the admin and of the I/O queue
    NvNamespaces,    \* what identify may say: records of count, blocks, sectors_per_block
    NvValues,        \* what a call writes
    NvCalls,         \* bound: system calls
    NvFaults         \* bound: timeouts, failing commands, a fatal status

VARIABLE nv

Slots == 0 .. QUEUE_ENTRIES - 1
NoCommand == [op |-> "none", cid |-> 0, block |-> 0]
NotCalled == [op |-> "none", lba |-> 0, value |-> "none", ok |-> FALSE]

\* What a sector holds tells which sector it was meant for.
Own(lba, v) == [lba |-> lba, v |-> v]
SectorsOf(ns) == 0 .. (ns.blocks * ns.sectors_per_block) - 1

\* NvmeQueue::new(), and the controller's side of it: head, the tail it was told
\* of, and where it puts the next completion.
NewQueue ==
    [sq |-> [i \in Slots |-> NoCommand], cq |-> [i \in Slots |-> [cid |-> 0, ok |-> FALSE, phase |-> FALSE]],
     sq_tail |-> 0, cq_head |-> 0, cq_phase |-> TRUE, next_cid |-> 1,
     head |-> 0, tail |-> 0, post |-> 0, phase |-> TRUE]

----------------------------------------------------------------------------
(* External: the controller takes one command, reads or writes the buffer, *)
(* and posts its completion.                                               *)

Block(m, b) == b * m.ns.sectors_per_block
Carried_out(m, c) ==
    CASE c.op = "read" -> [m EXCEPT !.buf = [i \in DOMAIN @ |-> m.disk[Block(m, c.block) + i]]]
      [] c.op = "write" ->
            [m EXCEPT !.disk = [l \in DOMAIN @ |-> IF l - Block(m, c.block) \in DOMAIN m.buf THEN m.buf[l - Block(m, c.block)] ELSE @[l]]]
      [] OTHER -> m

Posted(m, cid, ok) ==
    [m EXCEPT !.q.head = (@ + 1) % QUEUE_ENTRIES,
              !.q.cq[m.q.post] = [cid |-> cid, ok |-> ok, phase |-> m.q.phase],
              !.q.post = (@ + 1) % QUEUE_ENTRIES,
              !.q.phase = IF m.q.post + 1 = QUEUE_ENTRIES THEN ~@ ELSE @]

Serve(m) ==
    IF m.fatal \/ m.q.head = m.q.tail THEN {}
    ELSE LET c == m.q.sq[m.q.head]
         IN {Posted(Carried_out(m, c), c.cid, TRUE)}
            \cup IF m.faults = 0 THEN {} ELSE {Posted([m EXCEPT !.faults = @ - 1], c.cid, FALSE), [m EXCEPT !.faults = @ - 1, !.fatal = TRUE]}

----------------------------------------------------------------------------
(* Commands. *)

Submitted(m, op, block) ==
    [m EXCEPT !.q.sq[m.q.sq_tail] = [op |-> op, cid |-> m.q.next_cid, block |-> block],
              !.q.next_cid = @ + 1, !.q.sq_tail = (@ + 1) % QUEUE_ENTRIES, !.q.tail = (m.q.sq_tail + 1) % QUEUE_ENTRIES]

Posted_at_head(m) == m.q.cq[m.q.cq_head].phase = m.q.cq_phase

Consumed(m, cid) ==
    LET x == [m EXCEPT !.q.cq_head = (@ + 1) % QUEUE_ENTRIES, !.q.cq_phase = IF m.q.cq_head + 1 = QUEUE_ENTRIES THEN ~@ ELSE @]
    IN IF m.q.cq[m.q.cq_head].cid = cid /\ m.q.cq[m.q.cq_head].ok THEN Go(x) ELSE Stop(x)

\* issue_command(): the first completion ends the wait, whosever it is.
Issue_command(m, op, block) ==
    LET x == Submitted(m, op, block)
        timeout == IF x.faults = 0 THEN {} ELSE {Stop([x EXCEPT !.faults = @ - 1])}
    IN IF Posted_at_head(x) THEN {Consumed(x, m.q.next_cid)}
       ELSE timeout \cup {IF Posted_at_head(y) THEN Consumed(y, m.q.next_cid) ELSE Stop(y) : y \in Serve(x) \cup (IF Serve(x) = {} THEN {x} ELSE {})}

----------------------------------------------------------------------------
(* System calls. *)

\* transfer_sector(): a sector that is smaller than a block is put into the
\* block that was read before.
PutSector(m, call) == [m EXCEPT !.buf[call.lba % m.ns.sectors_per_block] = Own(call.lba, call.value)]
Transfer_sector(m, call) ==
    LET block == call.lba \div m.ns.sectors_per_block
        whole == IF call.op = "write" /\ m.ns.sectors_per_block > 1 THEN Issue_command(m, "read", block) ELSE {Go(m)}
    IN IF call.lba \notin SectorsOf(m.ns) THEN {Stop(m)}
       ELSE Then(whole, LAMBDA x : Issue_command(IF call.op = "write" THEN PutSector(x, call) ELSE x, call.op, block))

Flush_device(m) == Issue_command(m, "flush", 0)

Called(m, call) ==
    {[r.m EXCEPT !.last = [call EXCEPT !.ok = r.ok,
                                       !.value = IF call.op # "read" \/ ~r.ok THEN @
                                                 ELSE r.m.buf[call.lba % m.ns.sectors_per_block].v]] :
        r \in IF call.op = "flush" THEN Flush_device(m) ELSE Transfer_sector(m, call)}

NvCall ==
    /\ nv.disks /\ nv.left > 0
    /\ \E lba \in 0 .. nv.ns.blocks * nv.ns.sectors_per_block, op \in {"read", "write", "flush"}, v \in NvValues :
          /\ op # "write" => v = CHOOSE w \in NvValues : TRUE
          /\ op = "flush" => lba = 0
          /\ nv' \in Called([nv EXCEPT !.left = @ - 1], [op |-> op, lba |-> lba, value |-> v, ok |-> FALSE])

\* init_controller(): identify the controller and the namespace, create the
\* queues; an error leaves no disk.
Init_controller ==
    LET Identified(x) == IF x.ns.count = 0 THEN {Stop(x)} ELSE Issue_command(x, "identify_namespace", 0)
        Sized(x) == IF x.ns.blocks = 0 \/ x.ns.sectors_per_block \notin {1, 2, 4, 8} THEN {Stop(x)} ELSE Issue_command(x, "create_cq", 0)
        setup == Then(Then(Then(Issue_command(nv, "identify_controller", 0), Identified), Sized), LAMBDA x : Issue_command(x, "create_sq", 0))
    IN /\ ~nv.up
       /\ \E r \in setup : nv' = [r.m EXCEPT !.up = TRUE, !.disks = r.ok, !.q = IF r.ok THEN NewQueue ELSE @]

\* The controller goes on with what was given up.
NvController == nv.up /\ \E x \in Serve(nv) : nv' = [x EXCEPT !.last = NotCalled]

NvStarts ==
    {[ns |-> ns, disk |-> [l \in SectorsOf(ns) |-> Own(l, "old")], buf |-> [i \in 0 .. ns.sectors_per_block - 1 |-> Own(i, "zero")],
      q |-> NewQueue, up |-> FALSE, disks |-> FALSE, fatal |-> FALSE, last |-> NotCalled, left |-> NvCalls, faults |-> NvFaults] :
        ns \in NvNamespaces}
NvInit == nv \in NvStarts

NvNext == Init_controller \/ NvCall \/ NvController

----------------------------------------------------------------------------
NvTypeOK ==
    /\ nv.q.sq_tail \in Slots /\ nv.q.cq_head \in Slots /\ nv.faults \in 0 .. NvFaults
    /\ nv.disks => nv.ns.count > 0 /\ nv.ns.blocks > 0

\* What is reported as read is on the disk, and what is reported as written too,
\* whatever was given up or failed before.
NvHonest ==
    (nv.last.ok /\ nv.last.op # "flush") =>
        nv.disk[nv.last.lba].v = nv.last.value /\ (nv.last.op = "write" => nv.disk[nv.last.lba].lba = nv.last.lba)

\* A command that succeeds has taken the last completion there is: once one was
\* given up and is answered late, no other ever succeeds.
SuccessIsInStep == nv.last.ok => nv.q.sq_tail = nv.q.cq_head

\* As long as nothing was given up, every sector holds what was meant for it,
\* also where several share a block.
SectorsInPlace == nv.faults = NvFaults => \A l \in DOMAIN nv.disk : nv.disk[l].lba = l

\* A call on the disk succeeds if nothing ever went wrong.
NvServes == (nv.faults = NvFaults /\ nv.last.op # "none") => (nv.last.ok <=> nv.last.lba \in SectorsOf(nv.ns))

-----------------------------------------------------------------------------
(***************************************************************************)
(* The SATA driver (src/src/ahci.rs): command slot 0 and one buffer of a   *)
(* port, the reset of a port after an error or a timeout, and the ports    *)
(* that are exposed as disks.  The host adapter and the disk are external. *)
(***************************************************************************)

CONSTANTS
    AhPorts,       \* ports that are implemented, some beyond the last one that is exposed
    AhLast,        \* the last port that is exposed (7)
    AhSignatures,  \* what a port may say at boot: "ata", "atapi", "empty"
    AhSectors,     \* size of a disk, 0 if identify says nothing of use
    AhValues,
    AhCalls,       \* bound: system calls
    AhFaults       \* bound: errors of the disk, timeouts, ports that do not stop or start

VARIABLE ah

Started == [port |-> 0, op |-> "none", lba |-> 0, value |-> "none", ok |-> FALSE]
NoWork == [op |-> "none", lba |-> 0]

----------------------------------------------------------------------------
(* External: the disk of port p carries out its command and clears CI, or  *)
(* says that it failed, or stays busy with it.                             *)

\* What a sector holds tells which sector it was meant for.
For(lba, v) == [lba |-> lba, v |-> v]
Dma(m, p, c) ==
    CASE c.op = "read" -> [m EXCEPT !.buf[p] = m.disk[p][c.lba]]
      [] c.op = "write" -> [m EXCEPT !.disk[p][c.lba] = m.buf[p]]
      [] OTHER -> m
Finished(m, p) == [Dma(m, p, m.work[p]) EXCEPT !.work[p] = NoWork, !.ci[p] = FALSE, !.busy[p] = FALSE]
Failed(m, p) == [m EXCEPT !.work[p] = NoWork, !.err[p] = TRUE, !.tfes[p] = TRUE, !.busy[p] = FALSE]

\* A command is fetched by an adapter that runs and has none in the slot.
Given(m, p, c) ==
    IF m.ci[p] \/ ~m.st[p] THEN [m EXCEPT !.ci[p] = TRUE]
    ELSE [m EXCEPT !.ci[p] = TRUE, !.busy[p] = TRUE, !.err[p] = FALSE, !.work[p] = c]

Fault(m) == IF m.faults = 0 THEN {} ELSE {[m EXCEPT !.faults = @ - 1]}
Worked(m, p) ==
    IF m.work[p] = NoWork THEN {m}
    ELSE {Finished(m, p)} \cup UNION {{Failed(x, p), x, Dma(x, p, x.work[p])} : x \in Fault(m)}

----------------------------------------------------------------------------
(* Ports. *)

\* stop_port(): an adapter that stopped has no command; one that did not in time
\* goes on.
Stop_port(m, p) ==
    {Go([m EXCEPT !.st[p] = FALSE, !.ci[p] = FALSE, !.work[p] = NoWork])} \cup {Stop(x) : x \in Fault(m)}
Start_port(m, p) == {Go([m EXCEPT !.st[p] = TRUE])} \cup {Stop(x) : x \in Fault(m)}

\* reset_port(): whatever comes of stopping, the port is started.
Reset_sata(m, p) ==
    {r.m : r \in Then({Go([s.m EXCEPT !.tfes[p] = FALSE]) : s \in Stop_port(m, p)}, LAMBDA x : Anyway(Start_port(x, p)))}

\* wait_port_ready(): a busy disk gets ready or does not, in which case the port
\* is reset and asked again.
Wait_port_ready(m, p) ==
    IF ~m.busy[p] THEN {Go(m)}
    ELSE {Go(IF m.work[p] = NoWork THEN [m EXCEPT !.busy[p] = FALSE] ELSE Finished(m, p)), Stop(m)}
Made_ready(m, p) ==
    UNION {IF r.ok THEN {r} ELSE UNION {Wait_port_ready(x, p) : x \in Reset_sata(r.m, p)} : r \in Wait_port_ready(m, p)}

\* The wait for CI is over because of an error, because time has run out, or
\* because the command was carried out.
Completion(m, p) ==
    IF m.tfes[p] \/ m.ci[p] THEN {Stop(x) : x \in Reset_sata(m, p)}
    ELSE {IF m.err[p] \/ m.busy[p] THEN Stop(m) ELSE Go(m)}

\* issue_command()
Issue_sata(m, p, c) ==
    Then(Made_ready(m, p),
         LAMBDA x : UNION {Completion(y, p) : y \in Worked(Given([x EXCEPT !.tfes[p] = FALSE], p, c), p)})

----------------------------------------------------------------------------
(* System calls. *)

Transfer_sata(m, call) ==
    IF call.port \notin m.ports \/ call.lba >= AhSectors THEN {Stop(m)}
    ELSE Issue_sata(IF call.op = "write" THEN [m EXCEPT !.buf[call.port] = For(call.lba, call.value)] ELSE m,
                    call.port, [op |-> call.op, lba |-> call.lba])

AhCall ==
    /\ ah.up /\ ah.left > 0
    /\ \E p \in AhPorts, lba \in 0 .. AhSectors, op \in {"read", "write", "flush"}, v \in AhValues :
          /\ op # "write" => v = CHOOSE w \in AhValues : TRUE
          /\ op = "flush" => lba = 0
          /\ LET call == [port |-> p, op |-> op, lba |-> lba, value |-> v, ok |-> FALSE]
             IN \E r \in Transfer_sata([ah EXCEPT !.left = @ - 1], call) :
                   ah' = [r.m EXCEPT !.last = [call EXCEPT !.ok = r.ok, !.value = IF op = "read" THEN r.m.buf[p].v ELSE @]]

\* init_controller() and init_port(): a port with a disk is stopped, given its
\* memory, started, and asked who is there.
Init_port(m, p) ==
    Then(Then(Stop_port(m, p), LAMBDA x : Start_port(x, p)),
         LAMBDA x : Then(Issue_sata(x, p, [op |-> "identify", lba |-> 0]),
                         LAMBDA y : IF AhSectors = 0 THEN {Stop(y)} ELSE {Go([y EXCEPT !.ports = @ \cup {p}])}))
\* Mutant: what is attached is not looked at.
ProbedAny(S, p) ==
    UNION {IF p > AhLast THEN {m} ELSE {r.m : r \in Init_port(m, p)} : m \in S}

Probed(S, p) ==
    UNION {IF p > AhLast \/ m.sig[p] # "ata" THEN {m} ELSE {r.m : r \in Init_port(m, p)} : m \in S}
AhInitController ==
    /\ ~ah.up
    /\ \E x \in FoldLeft(Probed, {ah}, SetToSeq(AhPorts)) : ah' = [x EXCEPT !.up = TRUE]

\* The disk finishes a command that was given up.
AhDisk ==
    /\ ah.up
    /\ \E p \in AhPorts : ah.work[p] # NoWork /\ ah.busy[p] /\ ah' = [Finished(ah, p) EXCEPT !.last = Started]

AhAll(x) == [p \in AhPorts |-> x]
AhStarts ==
    {[sig |-> sig, disk |-> AhAll([l \in 0 .. AhSectors - 1 |-> For(l, "old")]), buf |-> AhAll(For(0, "zero")), ci |-> AhAll(FALSE),
      st |-> AhAll(FALSE), busy |-> AhAll(FALSE), err |-> AhAll(FALSE), tfes |-> AhAll(FALSE), work |-> AhAll(NoWork), ports |-> {},
      up |-> FALSE, last |-> Started, left |-> AhCalls, faults |-> AhFaults] : sig \in [AhPorts -> AhSignatures]}
AhInit == ah \in AhStarts

AhNext == AhInitController \/ AhCall \/ AhDisk

----------------------------------------------------------------------------
AhTypeOK == ah.ports \subseteq {p \in AhPorts : p <= AhLast /\ ah.sig[p] = "ata"} /\ ah.faults \in 0 .. AhFaults

\* What is reported as read or written is on the disk, unless two things went
\* wrong.  (A read that was given up, on a port that then did not stop in time,
\* may end after the data of a write were put into the buffer.)
AhHonest ==
    (ah.last.ok /\ ah.last.op # "flush" /\ ah.faults >= AhFaults - 1) =>
        LET d == ah.disk[ah.last.port][ah.last.lba]
        IN d.v = ah.last.value /\ (ah.last.op = "write" => d.lba = ah.last.lba)

\* Every sector holds what was meant for it as long as no two things went wrong:
\* a command that was given up is ended by the reset, before its buffer gets
\* other data.
SataInPlace == ah.faults >= AhFaults - 1 => \A p \in AhPorts, l \in 0 .. AhSectors - 1 : ah.disk[p][l].lba = l

\* After at most one fault the slot is free again after each call, so that the
\* next command is not taken for an earlier one; without any a call succeeds.
SlotIsFree ==
    ah.faults >= AhFaults - 1 => \A p \in ah.ports : ~ah.ci[p]
SataServes ==
    (ah.faults = AhFaults /\ ah.last.op # "none") => (ah.last.ok <=> ah.last.port \in ah.ports /\ ah.last.lba < AhSectors)

-----------------------------------------------------------------------------
(***************************************************************************)
(* The IDE driver (src/src/ata.rs): two drives on a bus, of which one is   *)
(* selected, programmed I/O, and up to ATA_RETRIES attempts with a reset of*)
(* the bus, and so of both drives, in between.  The drives are external.   *)
(***************************************************************************)

CONSTANTS
    AtPresents,    \* which of the two drives may be there: a set of sets
    AtSectors,     \* of a drive
    AtValues,
    ATA_RETRIES,
    AtCalls,       \* bound: calls
    AtFaults       \* bound: errors of a drive, and commands it hangs in

VARIABLE at

Drives == {"master", "slave"}
Meant(d, lba, v) == [drive |-> d, lba |-> lba, v |-> v]
NoAtaCall == [drive |-> "master", op |-> "none", lba |-> 0, value |-> "none", ok |-> FALSE]

----------------------------------------------------------------------------
(* External: the status register is that of the selected drive, 0xFF if    *)
(* there is no drive, 0 if the other one answers for it.                   *)

StatusOf(m) == IF m.present = {} THEN "floating" ELSE IF m.selected \notin m.present THEN "zero" ELSE m.status[m.selected]
DriveIs(m, s) == [m EXCEPT !.status[m.selected] = s]

\* The selected drive gets a command: it asks for data, is done, has an error
\* or hangs.  One that is not idle takes none.
DriveTakes(m, next) ==
    IF StatusOf(m) \notin {"idle", "error"} THEN {m}
    ELSE {DriveIs(m, next)} \cup IF m.faults = 0 THEN {} ELSE {[DriveIs(m, s) EXCEPT !.faults = @ - 1] : s \in {"error", "busy"}}

\* After the data it is done, has an error or hangs, and has or has not written.
Settles(m, written) ==
    {DriveIs(written, "idle")} \cup
    IF m.faults = 0 THEN {} ELSE {[DriveIs(x, s) EXCEPT !.faults = @ - 1] : x \in {m, written}, s \in {"error", "busy"}}

----------------------------------------------------------------------------
(* Waiting. *)

\* wait_idle(): ERR does not matter.
Wait_idle(m) == IF StatusOf(m) \in {"idle", "error", "zero"} THEN {Go(m)} ELSE {Stop(m)}
\* wait_drq(), wait_settle()
Wait_drq(m) == IF StatusOf(m) = "drq" THEN {Go(m)} ELSE {Stop(m)}
Wait_settle(m) == IF StatusOf(m) \in {"idle", "zero"} THEN {Go(m)} ELSE {Stop(m)}

\* select_device(): the drive that was selected before must be idle, too.
Select_device(m, d) == Then(Then(Wait_idle(m), LAMBDA x : {Go([x EXCEPT !.selected = d])}), Wait_idle)

\* soft_reset(): both drives are idle and the master is selected.
Soft_reset(m) == [m EXCEPT !.status = [d \in Drives |-> "idle"], !.selected = "master"]

----------------------------------------------------------------------------
(* Operations. *)

Goes(S) == {Go(x) : x \in S}

Read_sector_inner(m, c) ==
    Then(Then(Then(Select_device(m, c.drive), LAMBDA x : Goes(DriveTakes(x, "drq"))), Wait_drq),
         LAMBDA x : UNION {Wait_settle([y EXCEPT !.buf = x.disk[x.selected][c.lba].v]) : y \in Settles(x, x)})

Write_sector_inner(m, c) ==
    Then(Then(Then(Select_device(m, c.drive), LAMBDA x : Goes(DriveTakes(x, "drq"))), Wait_drq),
         LAMBDA x : UNION {Wait_settle(y) : y \in Settles(x, [x EXCEPT !.disk[x.selected][c.lba] = Meant(c.drive, c.lba, c.value)])})

\* Attempts until one succeeds.
Attempt(m, c, k) ==
    LET x == IF k > 1 THEN Soft_reset(m) ELSE m
    IN IF c.op = "read" THEN Read_sector_inner(x, c) ELSE Write_sector_inner(x, c)
Retried(m, c) ==
    FoldLeft(LAMBDA S, k : UNION {IF r.ok THEN {r} ELSE Attempt(r.m, c, k) : r \in S}, {Stop(m)}, [k \in 1 .. ATA_RETRIES |-> k])

Flush_inner(m, c) ==
    Then(Then(Select_device(m, c.drive), LAMBDA x : Goes(DriveTakes(x, "idle"))), Wait_settle)

\* identify_sectors(): a status of 0 means that no drive is there.
Identify_sectors(m, c) ==
    Then(Then(Then(Select_device(m, c.drive), LAMBDA x : Goes(DriveTakes(x, "drq"))),
              LAMBDA x : IF StatusOf(x) = "zero" THEN {Stop(x)} ELSE Wait_drq(x)),
         LAMBDA x : {Go(DriveIs(x, "idle"))})

Ata_call(m, c) ==
    CASE c.op = "flush" -> Flush_inner(m, c)
      [] c.op = "identify" -> Identify_sectors(m, c)
      [] OTHER -> Retried(m, c)

AtCall ==
    /\ at.left > 0
    /\ \E d \in Drives, op \in {"read", "write", "flush", "identify"}, lba \in 0 .. AtSectors - 1, v \in AtValues :
          /\ op # "write" => v = CHOOSE w \in AtValues : TRUE
          /\ op \notin {"read", "write"} => lba = 0
          /\ LET c == [drive |-> d, op |-> op, lba |-> lba, value |-> v, ok |-> FALSE]
             IN \E r \in Ata_call([at EXCEPT !.left = @ - 1], c) :
                   at' = [r.m EXCEPT !.last = [c EXCEPT !.ok = r.ok, !.value = IF op = "read" THEN r.m.buf ELSE @], !.buf = "zero"]

AtStarts ==
    {[present |-> present, disk |-> [d \in Drives |-> [l \in 0 .. AtSectors - 1 |-> Meant(d, l, "old")]], status |-> [d \in Drives |-> "idle"],
          selected |-> "master", buf |-> "zero", last |-> NoAtaCall, left |-> AtCalls, faults |-> AtFaults] :
        present \in AtPresents}
AtInit == at \in AtStarts

AtNext == AtCall

----------------------------------------------------------------------------
AtTypeOK == at.selected \in Drives /\ \A d \in Drives : at.status[d] \in {"idle", "drq", "error", "busy"}

\* A sector that was reported as read or written is on the drive that was asked
\* for, whichever drive was selected before and whatever was reset.
AtHonest ==
    (at.last.ok /\ at.last.op \in {"read", "write"}) =>
        /\ at.last.drive \in at.present
        /\ at.disk[at.last.drive][at.last.lba].v = at.last.value

\* Every sector of both drives holds what was meant for it.
DrivesApart == \A d \in Drives, l \in 0 .. AtSectors - 1 : at.disk[d][l] = Meant(d, l, at.disk[d][l].v)

\* Reads and writes of a drive that is there succeed although fewer commands
\* than there are attempts fail, in them or in what came before.
RetriesMask ==
    (AtFaults < ATA_RETRIES /\ at.last.op \in {"read", "write"}) => (at.last.ok <=> at.last.drive \in at.present)
=============================================================================
