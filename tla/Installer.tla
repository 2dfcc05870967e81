------------------------------ MODULE Installer ------------------------------
(* The installer (installer.rs, disk_layout.rs, storage.rs) and its screens  *)
(* in the compositor.                                                        *)
(*                                                                          *)
(* A disk is a function from sector numbers to what the sector holds, a      *)
(* tuple whose first element says what it is:                                *)
(*   <<"zero">>, <<"pmbr">> (protective MBR), <<"mbr", code, partitions>>,   *)
(*   <<"gpt", entries_lba, last_usable>>, <<"entries", partitions>>,         *)
(*   <<"coolfs", v>> (a sector with the CoolFS magic), <<"data", v>>,        *)
(*   <<"boot", i>>, <<"bad">>.                                               *)
(* A partition is <<type, first sector, sectors>>; the sizes of the tables   *)
(* are constants.  A sector the disk reported written may hold something     *)
(* else: InsFaults bounds these and the transfers that fail.                 *)
EXTENDS Integers, Sequences, SequencesExt, FiniteSets, FiniteSetsExt

CONSTANTS InsMachines,  \* machines: [dev |-> devices in scan order, disk |-> their disks]
          InsEntries,   \* sectors of a GPT entry array (GPT_ENTRY_SECTORS)
          InsAlign,     \* INSTALL_ALIGNMENT_SECTORS
          InsPrefix,    \* ROOT_METADATA_REFRESH_SECTORS
          InsFaults,    \* bound: failing and wrong transfers
          InsWrites     \* bound: writes of the running system to its root

VARIABLE ins

NoJob == [state |-> "none"]
NoRoot == [dev |-> "none"]

(* ---- disks ------------------------------------------------------------------- *)
Bus(d) == d[1]
Physical(d) == Bus(d) \in {"sata", "nvme"}
Sectors(disk) == Cardinality(DOMAIN disk)
Trailing == InsEntries + 1

\* find_partition and the loop of find_gpt_partition: the first of the type.
PartOf(parts, type) == SelectSeq(parts, LAMBDA p : p[1] = type /\ p[3] > 0)

\* find_gpt_partition, has_protective_mbr, parse_gpt_header
GptPartition(disk, type) ==
  IF /\ disk[0] = <<"pmbr">> /\ disk[1][1] = "gpt" /\ disk[1][3] < Sectors(disk)
     /\ disk[disk[1][2]][1] = "entries"
  THEN PartOf(disk[disk[1][2]][2], type) ELSE <<>>

MbrPartition(disk, type) == IF disk[0][1] = "mbr" THEN PartOf(disk[0][3], type) ELSE <<>>

RootAt(d, disk, parts) ==
  IF parts # <<>> /\ parts[1][2] + parts[1][3] <= Sectors(disk) /\ disk[parts[1][2]][1] = "coolfs"
  THEN [dev |-> d, base |-> parts[1][2], sectors |-> parts[1][3]] ELSE NoRoot

\* detect_root_disk: a raw CoolFS disk, then an MBR partition, then a GPT partition,
\* each over the devices in their order.
DetectRoot(m) ==
  LET ds == m.dev
      raw(d) == IF m.disk[d][0][1] = "coolfs" THEN [dev |-> d, base |-> 0, sectors |-> Sectors(m.disk[d])] ELSE NoRoot
      mbr(d) == RootAt(d, m.disk[d], MbrPartition(m.disk[d], "coolfs"))
      gpt(d) == RootAt(d, m.disk[d], GptPartition(m.disk[d], "coolfs"))
      found == SelectSeq([i \in 1..Len(ds) |-> raw(ds[i])] \o [i \in 1..Len(ds) |-> mbr(ds[i])]
                         \o [i \in 1..Len(ds) |-> gpt(ds[i])], LAMBDA r : r # NoRoot)
  IN IF found = <<>> THEN NoRoot ELSE found[1]

\* boot_device: the root disk if it has an ESP, another disk that has one, the primary
\* master, any other disk.
BootDevice(s) ==
  LET hasEsp(d) == GptPartition(s.disk[d], "esp") # <<>>
      others == SelectSeq(s.dev, LAMBDA d : d # s.root.dev)
      esps == SelectSeq(others, hasEsp)
  IN IF hasEsp(s.root.dev) THEN s.root.dev
     ELSE IF esps # <<>> THEN esps[1]
     ELSE IF <<"ide", 0>> \in ToSet(s.dev) THEN <<"ide", 0>>
     ELSE IF others # <<>> THEN others[1] ELSE <<"ide", 0>>

(* ---- the plan ------------------------------------------------------------------ *)
AlignUp(lba) == ((lba + InsAlign - 1) \div InsAlign) * InsAlign

NoLayout == [kind |-> "none"]

LayoutAt(s, target, kind, boot, bootn, spare) ==
  LET first == AlignUp(boot + bootn)
  IN IF Sectors(s.disk[target]) < first + s.root.sectors + spare THEN NoLayout
     ELSE [kind |-> kind, boot |-> boot, bootn |-> bootn, root |-> first, rootn |-> s.root.sectors]

\* compute_uefi_install_layout: the ESP where it is on the boot disk, the root behind it.
UefiLayout(s, target, esp) ==
  IF esp[2] < 2 + InsEntries THEN NoLayout ELSE LayoutAt(s, target, "gpt", esp[2], esp[3], Trailing)

\* boot_area_end_lba: behind the last of the loader's partitions.
BootAreaEnd(mbr) == Max({1} \cup {p[2] + p[3] : p \in {q \in ToSet(mbr[3]) : q[1] \in {"stage2", "fat32"}}})

\* compute_bios_install_layout
BiosLayout(s, target, mbr) ==
  IF mbr[1] # "mbr" THEN NoLayout ELSE LayoutAt(s, target, "mbr", 0, BootAreaEnd(mbr), 0)

\* compute_install_layout
Layout(s, target) ==
  LET boot == s.disk[BootDevice(s)]
      esp == GptPartition(boot, "esp")
  IN IF esp # <<>> THEN UefiLayout(s, target, esp[1]) ELSE BiosLayout(s, target, boot[0])

\* install_plan
Installable(s, t) ==
  /\ t # s.root.dev /\ t # BootDevice(s)
  /\ Bus(t) = "ide" => t[2] >= 2
  /\ Bus(s.root.dev) = "usb" => Physical(t)
  /\ Layout(s, t) # NoLayout

\* physical_hardware_preflight
Preflight(s) ==
  /\ Bus(s.root.dev) = "usb" /\ BootDevice(s) = s.root.dev
  /\ GptPartition(s.disk[BootDevice(s)], "esp") # <<>>
  /\ \E d \in ToSet(s.dev) : Physical(d) /\ Installable(s, d)

(* ---- the job --------------------------------------------------------------------- *)
\* The sectors of the boot area and of the root: where they come from and go to.
BootSectors(l) == [i \in 1..l.bootn |-> [key |-> <<"b", i - 1>>, to |-> l.boot + i - 1]]
RootSectors(l) == [i \in 1..l.rootn |-> [key |-> <<"r", i - 1>>, to |-> l.root + i - 1]]
OnEach(op, seq) == [i \in 1..Len(seq) |-> [op |-> op, key |-> seq[i].key, to |-> seq[i].to]]

\* Where the sector with this key is on the running system.
FromDisk(s, l, key) ==
  IF key[1] = "b" THEN s.disk[BootDevice(s)][l.boot + key[2]]
  ELSE s.disk[s.root.dev][s.root.base + key[2]]

Put(to, what) == [op |-> "put", key |-> what, to |-> to]

\* write_target_gpt: protective MBR, entries, header, and the copies at the end of the
\* disk.
GptWrites(l, sectors) ==
  LET entries == <<"entries", <<<<"esp", l.boot, l.bootn>>, <<"coolfs", l.root, l.rootn>>>>>>
      last == sectors - Trailing
  IN <<Put(0, <<"pmbr">>), Put(2, entries), Put(1, <<"gpt", 2, last>>),
       Put(last, entries), Put(sectors - 1, <<"gpt", last, last>>)>>

\* write_target_mbr: the boot disk's MBR with the root partition in its third entry.
MbrWrites == <<[op |-> "patch", key |-> <<"mbr">>, to |-> 0]>>

PatchedMbr(mbr, l) ==
  <<"mbr", mbr[2], Append(SelectSeq(mbr[3], LAMBDA p : p[1] # "coolfs"), <<"coolfs", l.root, l.rootn>>)>>

LayoutWrites(l, sectors) == IF l.kind = "mbr" THEN MbrWrites ELSE GptWrites(l, sectors)

\* install_to_device and InstallerJob::tick: copy the boot sectors, write the layout,
\* copy the root and its first sectors once more, check the layout and every sector.
Script(l, sectors) ==
  OnEach("copy", BootSectors(l)) \o LayoutWrites(l, sectors)
  \o OnEach("copy", RootSectors(l)) \o OnEach("copy", SubSeq(RootSectors(l), 1, InsPrefix))
  \o <<[op |-> "layout", key |-> <<"l">>, to |-> 0]>>
  \o OnEach("check", IF l.kind = "mbr" THEN Tail(BootSectors(l)) ELSE BootSectors(l))
  \o OnEach("check", RootSectors(l))

\* verify_target_gpt, verify_target_mbr
RootEntry(l) == <<<<"coolfs", l.root, l.rootn>>>>
GptRight(disk, l) ==
  GptPartition(disk, "esp") = <<<<"esp", l.boot, l.bootn>>>> /\ GptPartition(disk, "coolfs") = RootEntry(l)
MbrRight(disk, boot, l) ==
  disk[0][1] = "mbr" /\ disk[0][2] = boot[0][2] /\ MbrPartition(disk, "coolfs") = RootEntry(l)

LayoutRight(s, j) ==
  IF j.layout.kind = "gpt" THEN GptRight(s.disk[j.target], j.layout)
  ELSE MbrRight(s.disk[j.target], s.disk[BootDevice(s)], j.layout)

\* write_sector_to
WriteSector(s, to, what) == [s EXCEPT !.disk[s.job.target][to] = what]

\* The step at the head of the job, when no transfer fails.
Did(s) ==
  LET j == s.job
      h == Head(j.todo)
      goes(t) == [t EXCEPT !.job.todo = Tail(@)]
      fails == [s EXCEPT !.job.state = "failed", !.job.todo = <<>>]
      read == FromDisk(s, j.layout, h.key)
      mbr == s.disk[BootDevice(s)][0]
      held == s.disk[j.target][h.to]
  IN CASE h.op = "copy" -> goes(WriteSector([s EXCEPT !.job.sums = [k \in DOMAIN @ \cup {h.key} |->
                                                  IF k = h.key THEN read ELSE @[k]]], h.to, read))
       [] h.op = "put" -> goes(WriteSector(s, h.to, h.key))
       [] h.op = "patch" -> goes(WriteSector(s, 0, PatchedMbr(mbr, j.layout)))
       [] h.op = "layout" -> IF LayoutRight(s, j) THEN goes(s) ELSE fails
       \* The job of the installer's screens compares with what it read, the command with
       \* the disk it reads again.
       [] h.op = "check" -> IF held = (IF j.by = "gui" THEN j.sums[h.key] ELSE read) THEN goes(s) ELSE fails

(* ---- actions ----------------------------------------------------------------------- *)
InsSwitchOn ==
  /\ ins.dev = <<>>
  /\ \E m \in InsMachines :
       ins' = [ins EXCEPT !.dev = m.dev, !.disk = m.disk, !.root = DetectRoot(m), !.sel = m.dev[1]]

\* The running system writes a sector of its own root.
InsSystemWrites ==
  /\ ins.root # NoRoot /\ ins.writes < InsWrites
  /\ \E i \in 1..ins.root.sectors - 1 :
       ins' = [ins EXCEPT !.disk[ins.root.dev][ins.root.base + i] = <<"data", ins.writes + 1>>,
                          !.writes = @ + 1]

\* The first step happens, fails, or is reported done with something else on the disk.
InsStep ==
  /\ ins.job.state = "running"
  /\ \/ ins.job.todo = <<>> /\ ins' = [ins EXCEPT !.job.state = "complete"]
     \/ ins.job.todo # <<>> /\ ins' = Did(ins)
     \/ /\ ins.job.todo # <<>> /\ ins.faults < InsFaults
        /\ \/ ins' = [ins EXCEPT !.job.state = "failed", !.job.todo = <<>>, !.faults = @ + 1]
           \/ /\ Head(ins.job.todo).op \in {"copy", "put", "patch"}
              /\ ins' = [Did(ins) EXCEPT !.disk[ins.job.target][Head(ins.job.todo).to] = <<"bad">>, !.faults = @ + 1]

NewJob(s, target, by) ==
  LET l == Layout(s, target)
  IN [state |-> "running", by |-> by, target |-> target, layout |-> l, boot |-> BootDevice(s),
      todo |-> Script(l, Sectors(s.disk[target])), sums |-> <<>>]

\* install_to_device_name and install_physical_device_name
InsCommand ==
  /\ ins.root # NoRoot /\ ins.job.state \in {"none", "failed"} /\ ins.screen = "select"
  /\ \E t \in ToSet(ins.dev), physical \in BOOLEAN :
       /\ Installable(ins, t)
       /\ physical => Physical(t) /\ Preflight(ins) /\ Layout(ins, t).kind = "gpt"
       /\ ins' = [ins EXCEPT !.job = NewJob(ins, t, "command")]

\* cycle_installer_target: the arrow keys, a digit or a click choose a disk.
InsSelect ==
  /\ ins.dev # <<>> /\ ins.screen = "select" /\ ins.job.state \in {"none", "failed"}
  /\ \E t \in ToSet(ins.dev) : ins' = [ins EXCEPT !.sel = t]

\* installer_review_selected_target
InsReview ==
  /\ ins.root # NoRoot /\ ins.screen = "select" /\ ins.job.state \in {"none", "failed"}
  /\ Installable(ins, ins.sel)
  /\ ins' = [ins EXCEPT !.screen = "review", !.text = <<>>]

\* push_installer_confirm_char: a whole name is typed, or the text erased.
InsType ==
  /\ ins.screen = "review"
  /\ \E t \in ToSet(ins.dev) \cup {<<>>} : ins' = [ins EXCEPT !.text = t]

\* Escape on the review screen, and anything on the screen of a failed job.
InsBack ==
  /\ ins.screen \in {"review", "failed"}
  /\ ins' = [ins EXCEPT !.screen = "select", !.text = <<>>,
                        !.job = IF ins.screen = "failed" THEN NoJob ELSE @]

\* installer_start_selected_target, start_gui_install
InsStart ==
  /\ ins.screen = "review" /\ ins.text = ins.sel /\ Installable(ins, ins.sel)
  /\ (Bus(ins.root.dev) = "usb" /\ Physical(ins.sel)) => Preflight(ins)
  /\ ins' = [ins EXCEPT !.job = NewJob(ins, ins.sel, "gui"), !.screen = "installing"]

\* tick_installer_job, when the job has ended
InsEnded ==
  /\ ins.screen = "installing" /\ ins.job.state \in {"complete", "failed"}
  /\ ins' = [ins EXCEPT !.screen = ins.job.state]

InsInit ==
  ins = [dev |-> <<>>, disk |-> <<>>, root |-> NoRoot, job |-> NoJob, screen |-> "select",
         sel |-> <<>>, text |-> <<>>, faults |-> 0, writes |-> 0]

InsNext ==
  \/ InsSwitchOn \/ InsSystemWrites \/ InsStep \/ InsCommand \/ InsSelect \/ InsReview
  \/ InsType \/ InsBack \/ InsStart \/ InsEnded

InsSpec == InsInit /\ [][InsNext]_ins

(* ---- properties ----------------------------------------------------------------------- *)
InsTypeOK ==
  /\ ins.screen \in {"select", "review", "installing", "complete", "failed"}
  /\ ins.job.state \in {"none", "running", "complete", "failed"}
  /\ ins.faults \in 0..InsFaults /\ ins.writes \in 0..InsWrites

\* A job never writes to the disk the system booted from or to its root, and one that
\* the screens started is for the disk whose name was typed to confirm it.
TargetIsChosen ==
  ins.job.state # "none" =>
    /\ ins.job.target \notin {ins.root.dev, ins.job.boot}
    /\ ins.job.by = "gui" => ins.job.target = ins.text /\ ins.job.target = ins.sel

\* An install that says it is complete has on the target what it read from the source,
\* sector by sector, whatever the disk did with the writes meanwhile.
CompleteIsFaithful ==
  ins.job.state = "complete" =>
    \A i \in 1..Len(RootSectors(ins.job.layout)) :
      LET r == RootSectors(ins.job.layout)[i]
      IN ins.disk[ins.job.target][r.to] = ins.job.sums[r.key]

\* A machine with the target as its only disk finds its root where the install put it.
CompleteBoots ==
  ins.job.state = "complete" =>
    DetectRoot([dev |-> <<ins.job.target>>, disk |-> [d \in {ins.job.target} |-> ins.disk[d]]])
      = [dev |-> ins.job.target, base |-> ins.job.layout.root, sectors |-> ins.job.layout.rootn]
==============================================================================
