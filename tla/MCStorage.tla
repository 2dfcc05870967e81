----------------------------- MODULE MCStorage -----------------------------
(***************************************************************************)
(* Parts of the system that do not share state, on one instance: each      *)
(* behaviour is about the part that the variable part names.               *)
(***************************************************************************)
EXTENDS CoolFs, Updates, Packages, Installer, FileManager, DiskDrivers

VARIABLE part

storageVars ==
    <<part, cf, up, pk, ins, fm, nv, ah, at>>

Paths == {<<"a">>, <<"b">>, <<"a", "b">>}
TaskZeroPaths == {<<"b">>}
Inodes == 0 .. 3

\* Two versions of a file, and updates of one file and of two.
Contents(v) == IF v = 1 THEN "x" ELSE "y"
Plans == {<<"f">>, <<"f", "g">>}

\* Two versions of one package, and a package that shares a file with the
\* second and depends on a built-in one.
Archives ==
    [A |-> {[id |-> "p", ver |-> 1, targets |-> <<"t">>, deps |-> {}],
            [id |-> "p", ver |-> 2, targets |-> <<"t", "u">>, deps |-> {}]},
     B |-> {[id |-> "q", ver |-> 1, targets |-> <<"u">>, deps |-> {"b"}]}]

\* A live USB stick with an empty NVMe disk; boot and root on two IDE disks
\* with two empty ones; a raw root disk whose boot partition is on another bus.
Zeros(last) == [i \in 0 .. last |-> <<"zero">>]
UsbLive ==
    [dev |-> <<<<"usb", 0>>, <<"nvme", 0>>>>,
     disk |-> (<<"usb", 0>> :> (0 :> <<"pmbr">> @@ 1 :> <<"gpt", 2, 5>>
                   @@ 2 :> <<"entries", <<<<"esp", 3, 1>>, <<"coolfs", 4, 2>>>>>>
                   @@ 3 :> <<"boot", 0>> @@ 4 :> <<"coolfs", 0>> @@ 5 :> <<"data", 0>>
                   @@ 6 :> <<"zero">> @@ 7 :> <<"zero">>))
              @@ (<<"nvme", 0>> :> Zeros(8))]
SplitIde ==
    [dev |-> <<<<"ide", 0>>, <<"ide", 1>>, <<"ide", 2>>, <<"ide", 3>>>>,
     disk |-> (<<"ide", 0>> :> (0 :> <<"mbr", "c", <<<<"stage2", 1, 1>>, <<"fat32", 2, 1>>>>>>
                   @@ 1 :> <<"boot", 1>> @@ 2 :> <<"boot", 2>>))
              @@ (<<"ide", 1>> :> (0 :> <<"coolfs", 0>> @@ 1 :> <<"data", 0>>))
              @@ (<<"ide", 2>> :> Zeros(5)) @@ (<<"ide", 3>> :> Zeros(3))]
RawRoot ==
    [dev |-> <<<<"ide", 1>>, <<"nvme", 0>>, <<"nvme", 1>>>>,
     disk |-> (<<"ide", 1>> :> (0 :> <<"coolfs", 0>> @@ 1 :> <<"data", 0>>))
              @@ (<<"nvme", 0>> :> (0 :> <<"pmbr">> @@ 1 :> <<"gpt", 2, 5>>
                   @@ 2 :> <<"entries", <<<<"esp", 3, 1>>>>>> @@ 3 :> <<"boot", 0>>
                   @@ 4 :> <<"zero">> @@ 5 :> <<"zero">> @@ 6 :> <<"zero">> @@ 7 :> <<"zero">>))
              @@ (<<"nvme", 1>> :> Zeros(8))]
Machines == {UsbLive, SplitIde, RawRoot}
\* /a, /d, /d/a and /Trash
TrashFolder == <<<<9>>>>
TypedNames == {<<1>>}
SmallTree == (<<<<1>>>> :> "c1") @@ (<<<<2>>>> :> FmFolder) @@ (<<<<2>>, <<1>>>> :> "c2") @@ (<<<<9>>>> :> FmFolder)
Ns(count, blocks, spb) == [count |-> count, blocks |-> blocks, sectors_per_block |-> spb]
NvFour == {Ns(1, 2, 1), Ns(1, 1, 2), Ns(0, 1, 1), Ns(1, 1, 16)}

\* A part that the behaviour is about starts in a state of S, another has none.
Starts(p, v, S) == IF part = p THEN v \in S ELSE v = <<>>

StorageInit ==
    /\ part \in {"coolfs", "updates", "packages", "installer", "files", "nvme",
                "ahci", "ata"}
    /\ IF part = "coolfs" THEN CfsInit ELSE cf = <<>>
    /\ IF part = "updates" THEN UpInit ELSE up = <<>>
    /\ IF part = "packages" THEN PkInit ELSE pk = <<>>
    /\ IF part = "installer" THEN InsInit ELSE ins = <<>>
    /\ IF part = "files" THEN FmInit ELSE fm = <<>>
    /\ Starts("nvme", nv, NvStarts)
    /\ Starts("ahci", ah, AhStarts)
    /\ Starts("ata", at, AtStarts)

\* All parts but p stay as they are.
Only(p) ==
    /\ part = p /\ UNCHANGED part
    /\ IF p = "coolfs" THEN TRUE ELSE UNCHANGED cf
    /\ IF p = "updates" THEN TRUE ELSE UNCHANGED up
    /\ IF p = "packages" THEN TRUE ELSE UNCHANGED pk
    /\ IF p = "installer" THEN TRUE ELSE UNCHANGED ins
    /\ IF p = "files" THEN TRUE ELSE UNCHANGED fm
    /\ IF p = "nvme" THEN TRUE ELSE UNCHANGED nv
    /\ IF p = "ahci" THEN TRUE ELSE UNCHANGED ah
    /\ IF p = "ata" THEN TRUE ELSE UNCHANGED at

StorageNext ==
    \/ Only("coolfs") /\ CfsNext
    \/ Only("updates") /\ UpNext
    \/ Only("packages") /\ PkNext
    \/ Only("installer") /\ InsNext
    \/ Only("files") /\ FmNext
    \/ Only("nvme") /\ NvNext
    \/ Only("ahci") /\ AhNext
    \/ Only("ata") /\ AtNext

StorageSpec == StorageInit /\ [][StorageNext]_storageVars

\* What is said of a part is checked in the behaviours of that part.
Of(p, says) == part = p => says

\* The files, disks, registries and tables of all parts have their types.
StorageTypeOK ==
    /\ Of("coolfs", CfsTypeOK)
    /\ Of("updates", UpTypeOK)
    /\ Of("packages", PkTypeOK)
    /\ Of("installer", InsTypeOK)
    /\ Of("files", FmTypeOK)
    /\ Of("nvme", NvTypeOK)
    /\ Of("ahci", AhTypeOK)
    /\ Of("ata", AtTypeOK)

\* What is stored stays whole. The image of CoolFS can be mounted after every
\* operation, and what it marks clean is on the disk (coolfs.rs). The drivers
\* report success only for what the disk has done, in the sector and on the drive
\* that was meant, and after a timeout they serve the next request (nvme.rs,
\* ahci.rs, ata.rs).
StorageSound ==
    /\ Of("coolfs", ImageSound /\ CleanMeansOnDisk)
    /\ Of("nvme", NvHonest /\ SuccessIsInStep /\ SectorsInPlace /\ NvServes)
    /\ Of("ahci", AhHonest /\ SataInPlace /\ SlotIsFree /\ SataServes)
    /\ Of("ata", AtHonest /\ DrivesApart /\ RetriesMask)

\* No software is installed or run that was not vouched for, and no disk is
\* overwritten that was not chosen.
SoftwareSafe ==
    /\ Of("updates", OnlyVouchedInstalled /\ BadUpdateIsUndone)
    /\ Of("packages", OneOwner /\ LaunchIsVouched)
    /\ Of("installer", TargetIsChosen /\ CompleteIsFaithful /\ CompleteBoots)

\* A paste that the File Manager reports as complete has made the whole tree
\* (file_manager/actions.rs).
DesktopSound ==
    /\ Of("files", FmCompleteIsWhole)

\* A failed transaction leaves the files as they were, files that belong to no
\* package are kept, and no operation loses content that it was not told to.
FilesKept ==
    [][/\ Of("packages", RollbackIsExact /\ UnownedKept)
       /\ Of("files", FmKeepsFiles)]_storageVars

=============================================================================
