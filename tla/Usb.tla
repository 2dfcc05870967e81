-------------------------------- MODULE Usb --------------------------------
(***************************************************************************)
(* USB: the host controller with what is attached to it, and the transport to *)
(* a disk.  The two share no state.                                        *)
(***************************************************************************)
EXTENDS Integers, Sequences, SequencesExt, FiniteSets, Outcomes

-----------------------------------------------------------------------------
(***************************************************************************)
(* The USB host controller driver (src/src/usb/): ports, slots, the event  *)
(* ring, HID input with its fallback to PS/2, and the attachment of disks. *)
(*                                                                         *)
(* The driver polls.  A handler that gives the controller a command or a   *)
(* transfer waits for its completion by taking events off the ring, and    *)
(* drops every other event that it meets.  Devices come and go, and send   *)
(* reports, at any time: also during such a wait.  A handler is therefore  *)
(* the set of its outcomes.                                                *)
(***************************************************************************)

CONSTANTS
    XhPorts,    \* 1 .. n
    XhUsb3,     \* those with USB 3, on which a device is enabled by itself
    XhSlots,    \* max_slots
    MSC_MAX_DEVICES,
    XhAttached, \* the devices that are there at boot, a set of ports
    XhKinds,    \* kinds of devices: "kbd", "disk" or "plain"
    XhHappens,  \* bound: devices that come or go, reports
    XhCalls,    \* bound: disk transfers
    XhFaults    \* bound: commands and transfers that fail or time out

VARIABLE xh

NoDevice == [id |-> 0, kind |-> "none"]
SlotIds == 1 .. XhSlots
PortEvent(p) == [type |-> "port", port |-> p, slot |-> 0, trb |-> 0, ok |-> TRUE]
TransferEvent(s, trb, ok) == [type |-> "transfer", port |-> 0, slot |-> s, trb |-> trb, ok |-> ok]

----------------------------------------------------------------------------
(* External: the controller and what is plugged into it. *)

\* A change of a port is an event unless an earlier one was not cleared.
Changed(m, p, bit) ==
    [m EXCEPT !.chg[p] = @ \cup {bit}, !.events = IF m.chg[p] = {} THEN Append(@, PortEvent(p)) ELSE @]

Plug(m, p, kind) ==
    Changed([m EXCEPT !.happens = @ - 1, !.ids = @ + 1, !.dev[p] = [id |-> m.ids + 1, kind |-> kind],
                      !.ped[p] = p \in XhUsb3], p, "csc")

\* The transfers that a device had are ended with an error.
Aborted(m, s) ==
    IF m.pend[s] = 0 THEN m
    ELSE [m EXCEPT !.pend[s] = 0, !.events = Append(@, TransferEvent(s, m.pend[s], FALSE))]
SlotsOf(m, d) == {s \in SlotIds : m.slots[s] = d}
Unplug(m, p) ==
    LET gone == FoldLeft(Aborted, m, SetToSeq(SlotsOf(m, m.dev[p])))
    IN Changed([gone EXCEPT !.happens = @ - 1, !.dev[p] = NoDevice, !.ped[p] = FALSE], p, "csc")

Report(m, s) ==
    [m EXCEPT !.happens = @ - 1, !.pend[s] = 0, !.events = Append(@, TransferEvent(s, m.pend[s], TRUE))]

Happens(m) ==
    IF m.happens = 0 THEN {}
    ELSE {Plug(m, p, k) : p \in {q \in XhPorts : m.dev[q] = NoDevice}, k \in XhKinds}
         \cup {Unplug(m, p) : p \in {q \in XhPorts : m.dev[q] # NoDevice}}
         \cup {Report(m, s) : s \in {t \in SlotIds : m.pend[t] # 0}}

There(m, d) == \E p \in XhPorts : m.dev[p] = d

----------------------------------------------------------------------------
(* Waiting. *)

\* The events that a wait meets are gone.
Dropped(m) ==
    [m EXCEPT !.events = <<>>,
              !.missed = @ \cup {m.events[i].slot : i \in {j \in DOMAIN m.events : m.events[j].type = "transfer"}}]

Failing(m) == IF m.faults = 0 THEN {} ELSE {Stop([m EXCEPT !.faults = @ - 1])}
Meanwhile(m) == {m} \cup Happens(m)

\* wait_for_command_completion(), of a command that does Done.
Command(m, Done(_)) ==
    UNION {LET y == Dropped(x) IN {Go(Done(y))} \cup Failing(y) \cup Failing(Done(y)) : x \in Meanwhile(m)}

\* wait_for_transfer_completion(): needs the device.
Transfer(m, d) ==
    UNION {LET y == Dropped(x) IN IF There(x, d) THEN {Go(y)} \cup Failing(y) ELSE {Stop(y)} : x \in Meanwhile(m)}

Transfers(m, d, n) == FoldLeft(LAMBDA S, k : Then(S, LAMBDA y : Transfer(y, d)), {Go(m)}, [k \in 1 .. n |-> k])

----------------------------------------------------------------------------
(* Slots. *)

FreeSlots(m) == {s \in SlotIds : m.slots[s] = NoDevice}
Enable_slot(m, d) ==
    IF FreeSlots(m) = {} THEN {Stop(Dropped(m))}
    ELSE LET s == CHOOSE x \in FreeSlots(m) : \A y \in FreeSlots(m) : x <= y
         IN Command(m, LAMBDA y : [y EXCEPT !.slots[s] = d, !.slot = s, !.missed = @ \ {s}])

Disable_slot(m, s) == Command(m, LAMBDA y : [y EXCEPT !.slots[s] = NoDevice, !.pend[s] = 0])

\* address_device() with the device's answer.
Address_device(m, d) == Transfer(m, d)

\* The error of a step is passed on after the slot was given back.
OrDisable(S) ==
    UNION {IF s.ok THEN {s} ELSE {[r EXCEPT !.ok = FALSE] : r \in Disable_slot(s.m, s.m.slot)} : s \in S}

----------------------------------------------------------------------------
(* A device is set up. *)

Queue_interrupt_transfer(m, h) ==
    [m EXCEPT !.hids = (@ \ {h}) \cup {[h EXCEPT !.trb = @ + 1]}, !.pend[h.slot] = h.trb + 1]

\* activate_hid_interface(): the answer to set_idle() does not matter.
Activate_hid(m, p, d) ==
    Then(Then(Then(Transfer(m, d), LAMBDA x : Anyway(Transfer(x, d))),
              LAMBDA x : Command(x, LAMBDA y : y)),
         LAMBDA x : {Go(Queue_interrupt_transfer(x, [port |-> p, slot |-> x.slot, id |-> d.id, trb |-> 0]))})

\* next_usb_storage_index(): an index is never given again.
Activate_msc(m, p, d) ==
    IF m.index >= MSC_MAX_DEVICES THEN {Stop([m EXCEPT !.index = @ + 1])}
    ELSE Then(Then(Command([m EXCEPT !.index = @ + 1], LAMBDA y : y), LAMBDA x : Transfers(x, d, 2)),
              LAMBDA x : {Go([x EXCEPT !.disks = @ \cup {[port |-> p, slot |-> x.slot, id |-> d.id, index |-> m.index]},
                                       !.registry[m.index] = [port |-> p, active |-> TRUE]])})

\* Interfaces of other kinds leave the slot as it is.
Activate(m, p, d) ==
    IF d.kind = "kbd" THEN Activate_hid(m, p, d) ELSE Activate_msc(m, p, d)

\* prime_default_control_endpoint(): a slot, an address, the descriptors, the
\* second address, the configuration, and the interfaces.
Prime(m, p) ==
    LET d == m.dev[p]
        Set_up(x) == Then(OrDisable(Transfers(x, d, 2)),
                          LAMBDA y : IF d.kind = "plain" THEN {Go(y)}
                                     ELSE OrDisable(Then(Transfer(y, d), LAMBDA z : Activate(z, p, d))))
    IN Then(Then(Enable_slot(m, d), LAMBDA x : OrDisable(Address_device(x, d))), Set_up)

----------------------------------------------------------------------------
(* Ports. *)

Clear_port_changes(m, p) == [m EXCEPT !.chg[p] = {}]

\* The events up to the next one of port p.
UpTo(m, p) ==
    LET S == {i \in DOMAIN m.events : m.events[i] = PortEvent(p)}
        k == IF S = {} THEN Len(m.events) ELSE CHOOSE i \in S : \A j \in S : i <= j
    IN [Dropped([m EXCEPT !.events = SubSeq(@, 1, k)]) EXCEPT !.events = SubSeq(m.events, k + 1, Len(m.events))]

\* reset_port(): the change bits are written back and so cleared.
Reset_done(m, p) ==
    Changed([m EXCEPT !.ped[p] = m.dev[p] # NoDevice], p, "prc")
Reset_port(m, p) ==
    UNION {{Go(Clear_port_changes(UpTo(Reset_done(x, p), p), p))} \cup Failing(Dropped(x)) :
              x \in Meanwhile(Clear_port_changes(m, p))}

\* prepare_port_for_probe(): FALSE if the device is not there.
Prepare_port(m, p) ==
    IF m.dev[p] = NoDevice \/ m.ped[p] \/ p \in XhUsb3 THEN {Go(Clear_port_changes(m, p))} ELSE Reset_port(m, p)

Probe_port(m, p) ==
    Then(Prepare_port(m, p), LAMBDA x : IF x.dev[p] = NoDevice \/ ~x.ped[p] THEN {Go(x)} ELSE Prime(x, p))

RecordsAt(m, p) == {r \in m.hids \cup m.disks : r.port = p}

\* remove_port_devices()
Remove_port_devices(m, p) ==
    {Go([s.m EXCEPT !.hids = {r \in @ : r.port # p}, !.disks = {r \in @ : r.port # p},
                    !.registry = [i \in DOMAIN @ |-> IF @[i].port = p THEN [@[i] EXCEPT !.active = FALSE] ELSE @[i]]]) :
        s \in FoldLeft(LAMBDA S, slot : Then(S, LAMBDA x : Anyway(Disable_slot(x, slot))), {Go(m)},
                       SetToSeq({r.slot : r \in RecordsAt(m, p)}))}

\* handle_runtime_port_status_change()
PortChange(m, p) ==
    LET had_connection_change == "csc" \in m.chg[p]
        x == Clear_port_changes(m, p)
        stale == RecordsAt(x, p) # {} /\ (had_connection_change \/ ~x.ped[p])
    IN IF x.dev[p] = NoDevice THEN Remove_port_devices(x, p)
       ELSE Then(IF stale THEN Remove_port_devices(x, p) ELSE {Go(x)},
                 LAMBDA y : IF RecordsAt(y, p) # {} THEN {Go(y)} ELSE Probe_port(y, p))

----------------------------------------------------------------------------
(* The runtime. *)

\* handle_runtime_transfer_event(): a report is delivered and the next transfer
\* queued; a device whose transfer failed gets no other.
TransferDone(m, e) ==
    LET S == {h \in m.hids : h.slot = e.slot /\ h.trb = e.trb}
    IN IF S = {} \/ ~e.ok THEN {Go(m)} ELSE {Go(Queue_interrupt_transfer(m, CHOOSE h \in S : TRUE))}

Handle(m, e) == IF e.type = "port" THEN PortChange(m, e.port) ELSE TransferDone(m, e)

\* poll(): events are taken off the ring and handled until there are none;
Poll_event ==
    /\ xh.up /\ xh.events # <<>>
    /\ \E r \in Handle([xh EXCEPT !.events = Tail(@), !.polling = TRUE], Head(xh.events)) : xh' = [r.m EXCEPT !.slot = 0]

\* then reconcile_input_fallbacks().
Present(m) == m.hids # {}
Poll_end ==
    /\ xh.up /\ xh.events = <<>> /\ (xh.polling \/ xh.last # Present(xh))
    /\ xh' = [xh EXCEPT !.polling = FALSE, !.last = Present(xh), !.ps2 = ~Present(xh)]

\* probe() and active_init(): every port that has a device, in order; an error
\* of one port is noted.  reconcile_input_fallbacks() comes with init().
Probe ==
    /\ ~xh.up
    /\ \E r \in FoldLeft(LAMBDA S, p : Then(S, LAMBDA x : IF x.dev[p] = NoDevice THEN {Go(x)} ELSE Anyway(Probe_port(x, p))),
                         {Go(xh)}, [p \in XhPorts |-> p]) :
          xh' = [r.m EXCEPT !.up = TRUE, !.slot = 0, !.last = Present(r.m), !.ps2 = ~Present(r.m)]

\* storage_transfer_sector() and storage_flush(): command, data and status.
Disk_transfer ==
    /\ xh.up /\ ~xh.polling /\ xh.calls > 0
    /\ \E k \in xh.disks : \E r \in Transfers([xh EXCEPT !.calls = @ - 1], [id |-> k.id, kind |-> "disk"], 3) : xh' = r.m

Environment == xh.up /\ xh' \in Happens(xh)

XhInit ==
    xh = [dev |-> [p \in XhPorts |-> IF p \in XhAttached THEN [id |-> p, kind |-> "kbd"] ELSE NoDevice],
          ped |-> [p \in XhPorts |-> p \in XhAttached /\ p \in XhUsb3], chg |-> [p \in XhPorts |-> {}],
          ids |-> Cardinality(XhPorts), slots |-> [s \in SlotIds |-> NoDevice], pend |-> [s \in SlotIds |-> 0],
          slot |-> 0, events |-> <<>>, missed |-> {}, hids |-> {}, disks |-> {}, index |-> 0,
          registry |-> [i \in 0 .. MSC_MAX_DEVICES - 1 |-> [port |-> 0, active |-> FALSE]],
          up |-> FALSE, polling |-> FALSE, last |-> FALSE, ps2 |-> TRUE,
          happens |-> XhHappens, calls |-> XhCalls, faults |-> XhFaults]

XhNext == Probe \/ Poll_event \/ Poll_end \/ Disk_transfer \/ Environment

----------------------------------------------------------------------------
XhTypeOK ==
    /\ \A s \in SlotIds : xh.slots[s].id \in 0 .. xh.ids
    /\ \A r \in xh.hids \cup xh.disks : r.port \in XhPorts /\ r.slot \in SlotIds
    /\ \A i \in DOMAIN xh.events : xh.events[i].type \in {"port", "transfer"}

\* No two records have the same slot or the same disk number, and a record's
\* slot is one that the controller has given to the device of the record.
SlotsOwned ==
    /\ \A r, q \in xh.hids \cup xh.disks : r # q => r.slot # q.slot
    /\ \A r, q \in xh.disks : r # q => r.index # q.index
    /\ \A r \in xh.hids \cup xh.disks : xh.slots[r.slot].id = r.id

\* A port whose changes were all looked at has no record of another device than
\* the one that is there.  (A change that a wait dropped, or that is still to be
\* handled, is in the port's change bits.)
RecordsAreTrue == \A r \in xh.hids \cup xh.disks : xh.chg[r.port] = {} => xh.dev[r.port].id = r.id

\* The list of devices shows a disk as active with its port if there is one.
RegistryIsTrue ==
    \A i \in DOMAIN xh.registry :
        (\E k \in xh.disks : k.index = i /\ xh.registry[i] = [port |-> k.port, active |-> TRUE])
        \/ ~\E k \in xh.disks : k.index = i

\* A keyboard that is there can be heard: its transfer is with the controller
\* or its report is on the ring, unless a wait for something else dropped that
\* report.
InputFlows ==
    \A h \in xh.hids :
        (xh.dev[h.port].id = h.id /\ h.slot \notin xh.missed) =>
            \/ xh.pend[h.slot] = h.trb
            \/ \E i \in DOMAIN xh.events : xh.events[i] = TransferEvent(h.slot, h.trb, TRUE)

\* Between polls there is a keyboard of one kind or the other.
SomeKeyboard == (xh.up /\ ~xh.polling) => (xh.ps2 <=> xh.hids = {})

\* A slot without a record is that of a device without a known interface, as
\* long as no command failed; even if a device goes in the middle of its set-up.
NoSlotLost ==
    xh.faults = XhFaults =>
        \A s \in SlotIds : xh.slots[s].kind \in {"kbd", "disk"} => \E r \in xh.hids \cup xh.disks : r.slot = s

-----------------------------------------------------------------------------
(***************************************************************************)
(* USB disks (src/src/usb/xhci/mass_storage.rs): the bulk-only transport   *)
(* over the two transfer rings of the disk, with cycle bits and a link     *)
(* back to the start (src/src/usb/xhci/rings.rs).                          *)
(*                                                                         *)
(* All stages of a command use areas of one buffer, and a transfer whose   *)
(* wait timed out stays on its ring.  The disk and the controller are      *)
(* external: they serve a ring's next transfer when the disk's phase allows*)
(* it.  A system call holds the runtime's lock and is one step, the set of *)
(* its outcomes; while it waits, the disk makes any number of moves.       *)
(***************************************************************************)

CONSTANTS
    UdSize,      \* sectors of the disk
    UdValues,    \* what a sector holds
    BULK_RING_TRBS,
    UdCalls,     \* bound: system calls
    UdFaults     \* bound: timeouts, stalls, commands that the disk fails

VARIABLE ud

UdSectors == 0 .. UdSize - 1
Dirs == {"out", "in"}
Junk == "junk"    \* bytes of something else, or of two things
Zero == "zero"
NoCall == [op |-> "none", lba |-> 0, value |-> Zero, ok |-> FALSE]

----------------------------------------------------------------------------
(* Rings. *)

\* init_link_trb()
NewRing ==
    [trb |-> [i \in 0 .. BULK_RING_TRBS - 2 |-> [cycle |-> FALSE, area |-> "none"]], link |-> TRUE,
     idx |-> 0, cycle |-> TRUE, deq |-> 0, ccs |-> TRUE]

\* push_transfer_trb(), next_ring_enqueue_state()
Push_trb(r, area) ==
    LET wraps == r.idx + 1 = BULK_RING_TRBS - 1
    IN [r EXCEPT !.trb[r.idx] = [cycle |-> r.cycle, area |-> area], !.link = IF wraps THEN r.cycle ELSE @,
                 !.idx = IF wraps THEN 0 ELSE @ + 1, !.cycle = IF wraps THEN ~@ ELSE @]

\* External: the controller follows the link, and sees a transfer whose cycle
\* bit is its own.
Followed(r) ==
    IF r.deq = BULK_RING_TRBS - 1 /\ r.link = r.ccs THEN [r EXCEPT !.deq = 0, !.ccs = ~@] ELSE r
Pending(r) == r.deq # BULK_RING_TRBS - 1 /\ r.trb[r.deq].cycle = r.ccs
HeadArea(r) == r.trb[r.deq].area
Served(r) == [r EXCEPT !.deq = @ + 1]

----------------------------------------------------------------------------
(* External: the disk. *)

Cbw(tag, op, lba) == [tag |-> tag, op |-> op, lba |-> lba]
Csw(tag, status) == [tag |-> tag, status |-> status]
Phase(phase, cmd, csw) == [phase |-> phase, cmd |-> cmd, csw |-> csw]
Idle == Phase("idle", Cbw(0, "none", 0), Csw(0, "none"))
Answers(cmd, status) == Phase("status", Cbw(0, "none", 0), Csw(cmd.tag, status))

\* A transfer is over, with a completion event.
UsbDone(m, d, ok) == [m EXCEPT !.ring[d] = Served(@), !.events = Append(@, [dir |-> d, idx |-> m.ring[d].deq, ok |-> ok])]
Stalls(m, d) == [UsbDone(m, d, FALSE) EXCEPT !.halted = @ \cup {d}]

\* The command is taken from the buffer as it is now.
Accepts(m, cmd) ==
    {[m EXCEPT !.disk.state = CASE cmd.op = "read" -> Phase("in", cmd, Csw(0, "none"))
                                [] cmd.op = "write" -> Phase("out", cmd, Csw(0, "none"))
                                [] OTHER -> Answers(cmd, "ok")]}
    \cup IF m.faults = 0 \/ cmd.op # "flush" THEN {}
         ELSE {[m EXCEPT !.faults = @ - 1, !.disk.state = Answers(cmd, "failed")]}

TakesOut(m) ==
    LET s == m.disk.state
        full == HeadArea(m.ring["out"]) = "data"
    IN IF s.phase = "idle" THEN IF full THEN {Stalls(m, "out")} ELSE Accepts(UsbDone(m, "out", TRUE), m.buf.cbw)
       ELSE IF s.phase # "out" THEN {}
       ELSE IF full
       THEN {[UsbDone(m, "out", TRUE) EXCEPT !.disk.sector[s.cmd.lba] = m.buf.data, !.disk.state = Answers(s.cmd, "ok")]}
       ELSE {[UsbDone(m, "out", TRUE) EXCEPT !.disk.state = Answers(s.cmd, "failed")]}

\* A disk that cannot read says so in its status.
SendsIn(m) ==
    LET s == m.disk.state
        area == HeadArea(m.ring["in"])
    IN IF s.phase = "in"
       THEN IF area = "data"
            THEN {[UsbDone(m, "in", TRUE) EXCEPT !.buf.data = m.disk.sector[s.cmd.lba], !.disk.state = Answers(s.cmd, "ok")]}
                 \cup IF m.faults = 0 THEN {}
                      ELSE {[UsbDone(m, "in", TRUE) EXCEPT !.faults = @ - 1, !.buf.data = Junk, !.disk.state = Answers(s.cmd, "failed")]}
            ELSE {Stalls(m, "in")}
       ELSE IF s.phase # "status" THEN {}
       ELSE IF area = "csw" THEN {[UsbDone(m, "in", TRUE) EXCEPT !.buf.csw = s.csw, !.disk.state = Idle]}
       ELSE {[UsbDone(m, "in", TRUE) EXCEPT !.buf.data = Junk, !.disk.state = Idle]}

Moves(m) ==
    LET x == [m EXCEPT !.ring = [out |-> Followed(@.out), in |-> Followed(@.in)]]
    IN (IF Pending(x.ring["out"]) /\ "out" \notin x.halted THEN TakesOut(x) ELSE {})
       \cup (IF Pending(x.ring["in"]) /\ "in" \notin x.halted THEN SendsIn(x) ELSE {})

----------------------------------------------------------------------------
(* The driver. *)

\* wait_for_transfer_completion(): events of the other ring are dropped, and
\* successful ones of other transfers; the disk moves until the wait is over.
UsbEnds(m, d, idx) == {i \in DOMAIN m.events : m.events[i].dir = d /\ (m.events[i].idx = idx \/ ~m.events[i].ok)}
Waited(m, d, idx) ==
    IF UsbEnds(m, d, idx) = {} THEN Stop([m EXCEPT !.events = <<>>])
    ELSE LET i == CHOOSE k \in UsbEnds(m, d, idx) : \A j \in UsbEnds(m, d, idx) : k <= j
             x == [m EXCEPT !.events = <<>>]
         IN IF m.events[i].ok THEN Go(x) ELSE Stop(x)

\* At most this many transfers can be under way.
Progress(S, d, idx) ==
    UNION {IF UsbEnds(m, d, idx) # {} \/ Moves(m) = {} THEN {m} ELSE Moves(m) : m \in S}
Wait(m, d, idx) ==
    {Waited(x, d, idx) : x \in FoldLeft(LAMBDA S, k : Progress(S, d, idx), {m}, [k \in 1 .. 2 * BULK_RING_TRBS |-> k])}
    \cup (IF m.faults = 0 THEN {} ELSE {Stop([x EXCEPT !.faults = @ - 1, !.events = <<>>]) : x \in {m} \cup Moves(m)})

Bulk_transfer(m, d, area) == Wait([m EXCEPT !.ring[d] = Push_trb(@, area)], d, m.ring[d].idx)

\* recover_bot(): the disk is reset; the controller's endpoints are not.
Recover_bot(m) == [m EXCEPT !.disk.state = Idle]

Status(m, tag) ==
    IF m.buf.csw.tag # tag THEN Stop(Recover_bot(m))
    ELSE IF m.buf.csw.status = "ok" THEN Go(m)
    ELSE IF m.buf.csw.status = "failed" THEN Stop(m) ELSE Stop(Recover_bot(m))

\* The areas are cleared, but for data to be written; then command, data, status.
Prepared(m, op, lba) ==
    [m EXCEPT !.tag = @ + 1,
              !.buf = [cbw |-> Cbw(m.tag, op, lba), data |-> IF op = "write" THEN @.data ELSE Zero,
                       csw |-> Csw(0, "none")]]
Bot_command(m, op, lba) ==
    LET command == Bulk_transfer(Prepared(m, op, lba), "out", "cbw")
        data == IF op = "flush" THEN command
                ELSE Then(command, LAMBDA x : Bulk_transfer(x, IF op = "read" THEN "in" ELSE "out", "data"))
    IN Then(Then(data, LAMBDA x : Bulk_transfer(x, "in", "csw")), LAMBDA x : {Status(x, m.tag)})

\* storage_transfer_sector(), storage_flush(): what the caller gets.
Returns(m, call) ==
    IF call.lba >= UdSize THEN {[m EXCEPT !.last = call]}
    ELSE {[r.m EXCEPT !.last = [call EXCEPT !.ok = r.ok, !.value = IF call.op = "read" THEN r.m.buf.data ELSE @]] :
        r \in Bot_command([m EXCEPT !.buf.data = IF call.op = "write" THEN call.value ELSE @], call.op, call.lba)}

Calls ==
    {[op |-> "write", lba |-> l, value |-> v, ok |-> FALSE] : l \in 0 .. UdSize, v \in UdValues}
    \cup {[op |-> op, lba |-> l, value |-> Zero, ok |-> FALSE] : op \in {"read", "flush"}, l \in UdSectors}

UdCall ==
    /\ ud.left > 0
    /\ \E c \in Calls : ud' \in Returns([ud EXCEPT !.left = @ - 1], c)

\* External: the disk goes on between the calls.
UdDisk == \E x \in Moves(ud) : ud' = [x EXCEPT !.events = <<>>, !.last = NoCall]

UdInit ==
    ud = [ring |-> [out |-> NewRing, in |-> NewRing], halted |-> {}, events |-> <<>>, tag |-> 1,
          buf |-> [cbw |-> Cbw(0, "none", 0), data |-> Zero, csw |-> Csw(0, "none")],
          disk |-> [state |-> Idle, sector |-> [l \in UdSectors |-> Zero]],
          last |-> NoCall, left |-> UdCalls, faults |-> UdFaults]

UdNext == UdCall \/ UdDisk

----------------------------------------------------------------------------
UdTypeOK ==
    /\ \A d \in Dirs : ud.ring[d].idx \in 0 .. BULK_RING_TRBS - 2 /\ ud.ring[d].deq \in 0 .. BULK_RING_TRBS - 1
    /\ ud.buf.data \in UdValues \cup {Junk, Zero}

\* A sector that was read is the sector of the disk, and one that was written is
\* on it, whatever one thing timed out, stalled or failed before.  (With two that
\* is not so: a read that timed out leaves its transfer on the ring, and a status
\* that arrives late there overwrites the data of a later write.)
DiskIsTrue ==
    (ud.faults >= UdFaults - 1 /\ ud.last.op \in {"read", "write"}) =>
        (ud.last.ok => ud.disk.sector[ud.last.lba] = ud.last.value)

\* No sector then holds anything but what was written.
NoJunkWritten == ud.faults >= UdFaults - 1 =>
    \A l \in UdSectors : ud.disk.sector[l] \in UdValues \cup {Zero}

\* As long as nothing went wrong the controller has seen all that was pushed.
RingsAgree ==
    ud.faults = UdFaults =>
        /\ ud.halted = {}
        /\ \A d \in Dirs : LET r == Followed(ud.ring[d]) IN r.deq = r.idx /\ r.ccs = r.cycle
        /\ ud.last.op # "none" => (ud.last.ok <=> ud.last.lba < UdSize)
=============================================================================
