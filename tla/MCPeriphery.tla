---------------------------- MODULE MCPeriphery ----------------------------
(***************************************************************************)
(* Parts of the system that do not share state, on one instance: each      *)
(* behaviour is about the part that the variable part names.               *)
(***************************************************************************)
EXTENDS Net, Web, VirtioNet, Fat32, Usb

CONSTANTS MaxTasks, MAX_FDS, MaxObjects, PIPE_SIZE, ChildFds, Ops
VARIABLES objects, fds, status, at, unsaved, itask, iwakes, icommits

Descriptors == INSTANCE Vfs
fdVars == <<objects, fds, status, at, unsaved, itask, iwakes, icommits>>

VARIABLE part

peripheryVars ==
    <<part, net, dg, web, wb, vn, fdVars, ft, xh, ud>>

Greeting == <<"a", "b", "c">>
Roots == <<"r1", "r2">>
\* Contents of the disk: a directory, a file of one cluster with a long name and
\* an empty one.
FatX == <<[kind |-> "x"]>>
FatY == <<[kind |-> "y"]>>
FatTwoClusters == {<<FatX, FatY>>}
FatDisk ==
    <<FatOp("mkdir", <<"D">>, <<>>), FatOp("create", <<"L">>, <<>>), FatOp("write", <<"L">>, <<FatY>>),
      FatOp("create", <<"S">>, <<>>)>>
XhTwoPorts == 1 .. 2

\* A part that the behaviour is about starts in a state of S, another has none.
Starts(p, v, S) == IF part = p THEN v \in S ELSE v = <<>>

PeripheryInit ==
    /\ part \in {"sockets", "datagrams", "web", "body", "virtio", "vfs", "fat",
                "usb", "usbdisk"}
    /\ IF part = "sockets" THEN NetInit ELSE net = <<>>
    /\ Starts("datagrams", dg, DgStarts)
    /\ Starts("web", web, WebStarts)
    /\ Starts("body", wb, WbStarts)
    /\ IF part = "virtio" THEN VnInit ELSE vn = <<>>
    /\ Descriptors!Init
    /\ IF part = "fat" THEN FatInit ELSE ft = <<>>
    /\ IF part = "usb" THEN XhInit ELSE xh = <<>>
    /\ IF part = "usbdisk" THEN UdInit ELSE ud = <<>>

\* All parts but p stay as they are.
Only(p) ==
    /\ part = p /\ UNCHANGED part
    /\ IF p = "sockets" THEN TRUE ELSE UNCHANGED net
    /\ IF p = "datagrams" THEN TRUE ELSE UNCHANGED dg
    /\ IF p = "web" THEN TRUE ELSE UNCHANGED web
    /\ IF p = "body" THEN TRUE ELSE UNCHANGED wb
    /\ IF p = "virtio" THEN TRUE ELSE UNCHANGED vn
    /\ IF p = "vfs" THEN TRUE ELSE UNCHANGED fdVars
    /\ IF p = "fat" THEN TRUE ELSE UNCHANGED ft
    /\ IF p = "usb" THEN TRUE ELSE UNCHANGED xh
    /\ IF p = "usbdisk" THEN TRUE ELSE UNCHANGED ud

PeripheryNext ==
    \/ Only("sockets") /\ NetNext
    \/ Only("datagrams") /\ DgNext
    \/ Only("web") /\ WebNext
    \/ Only("body") /\ WbNext
    \/ Only("virtio") /\ VnNext
    \/ Only("vfs") /\ Descriptors!Next
    \/ Only("fat") /\ FatNext
    \/ Only("usb") /\ XhNext
    \/ Only("usbdisk") /\ UdNext

PeripherySpec == PeripheryInit /\ [][PeripheryNext]_peripheryVars

\* What is said of a part is checked in the behaviours of that part.
Of(p, says) == part = p => says

\* The tables and rings of all parts have their types.
PeripheryTypeOK ==
    /\ Of("sockets", NetTypeOK)
    /\ Of("datagrams", DgTypeOK)
    /\ Of("web", WebTypeOK)
    /\ Of("fat", FatTypeOK)
    /\ Of("usb", XhTypeOK)
    /\ Of("usbdisk", UdTypeOK)

\* The devices and the network keep their promises, whatever becomes of frames,
\* transfers and sectors. A stream is exact, what was acknowledged is delivered,
\* and nobody sleeps on a ready socket (sockets.rs). A ping and a name are answered
\* by their own replies, in bounded time (protocol.rs). A request is sent once, and
\* a chunked body is read to its end (http.rs). No receive buffer is lost and
\* frames stay in order (virtio_net.rs). Buffered data of a descriptor is kept
\* (vfs.rs). Chains of FAT32 are disjoint and complete, its names unique (fat32.rs).
\* Slots, records and registry of the USB controller agree and input goes on; a USB
\* disk has what was written and its rings agree with the driver's (xhci/).
PeripherySound ==
    /\ Of("sockets", StreamIsExact /\ AckedIsDelivered /\ NoSleepOnReady)
    /\ Of("datagrams", AnswersAreOwn /\ WaitsAreBounded)
    /\ Of("web", SentOnce)
    /\ Of("body", ReadsTheBody)
    /\ Of("virtio", RxBuffersKept /\ FramesInOrder)
    /\ Of("vfs", Descriptors!NoLostData)
    /\ Of("fat", ChainsSound /\ NothingLeaked /\ NamesSound)
    /\ Of("usb", SlotsOwned /\ RecordsAreTrue /\ RegistryIsTrue /\ InputFlows /\ SomeKeyboard /\ NoSlotLost)
    /\ Of("usbdisk", DiskIsTrue /\ NoJunkWritten /\ RingsAgree)

\* What a step may never do: report a peer as verified that was not (tls.rs),
\* return from transmit before the frame is on the wire (virtio_net.rs), or change
\* a file of FAT32 other than the one it is about (fat32.rs).
PeripherySteps ==
    [][/\ Of("web", TlsIsHonest)
       /\ Of("virtio", SentIsOnWire)
       /\ Of("fat", FatKeepsFiles)]_peripheryVars

=============================================================================
