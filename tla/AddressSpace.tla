---------------------------- MODULE AddressSpace ----------------------------
(* Frames and address spaces: the frame allocator (memory.rs), the address   *)
(* spaces it serves (vmm.rs), the program loader (elf.rs) and the system     *)
(* calls that map memory (syscall/core.rs).  A call runs with interrupts off,*)
(* so it is one step; each of its allocations may be the one that fails.     *)
EXTENDS Outcomes, FiniteSets, Sequences, SequencesExt

CONSTANTS AsFrames,     \* frames of the machine
          AsSpaces,     \* bound on the address spaces at a time
          AsStack, AsGuard, AsThreads, AsArena,  \* pages: sequences, the guard page, a set of sequences, a set
          AsTables,     \* the page tables between the root and a page, top down
          AsImages,     \* program files: whether the header parses, and for each PT_LOAD
                        \* segment its pages, w, x and whether its numbers are valid
          MAX_USER_ADDRESS_SPACE_PAGES,
          AsCalls       \* bound on the calls

VARIABLE as

NoSpace == [root |-> 0, linked |-> {}, tables |-> <<>>, leaves |-> <<>>, pages |-> {}, files |-> 0]
Prot(w, x) == [w |-> w, x |-> x, user |-> TRUE]

\* memory: recycled frames and the next one that was never used; spaces by their
\* slot; current is 0 while the boot tables are loaded; calls counts down.
AsInit == as = [recycled |-> <<>>, next |-> 1, spaces |-> [s \in 1 .. AsSpaces |-> NoSpace],
                current |-> 0, calls |-> AsCalls]

-----------------------------------------------------------------------------
\* allocate_frame(): the frame freed last, or a new one; F goes on with it.
WithFrame(m, F(_, _)) ==
  IF m.recycled # <<>> THEN F([m EXCEPT !.recycled = Front(@)], Last(m.recycled))
  ELSE IF m.next <= AsFrames THEN F([m EXCEPT !.next = @ + 1], m.next) ELSE {Stop(m)}

free_unmapped_frame(m, frame) == [m EXCEPT !.recycled = Append(@, frame)]

\* The same outcomes, except that the frame is freed when the call failed.
OrFree(S, frame) == {IF r.ok THEN r ELSE Stop(free_unmapped_frame(r.m, frame)) : r \in S}

Linked(space, table) == \E l \in space.linked : l[1] = table
Mapped(space, page) == \E p \in space.pages : p.page = page

\* One table of map_to(): present, or a new frame that is linked at once.
NextTable(m, s, table) ==
  IF Linked(m.spaces[s], table) THEN {Go(m)}
  ELSE WithFrame(m, LAMBDA n, frame : {Go([n EXCEPT !.spaces[s].linked = @ \cup {<<table, frame>>}])})

\* The tables down to a page, as far as there are frames for them.
TablesOf(m, s, page) ==
  FoldLeft(LAMBDA S, t : Then(S, LAMBDA n : NextTable(n, s, t)), {Go(m)}, AsTables[page])

\* The frames of the tables of space b that space a did not have, top down.
NewTables(a, b, page) ==
  LET tables == SelectSeq(AsTables[page], LAMBDA t : ~Linked(a, t)) IN
  [i \in DOMAIN tables |-> (CHOOSE l \in b.linked : l[1] = tables[i])[2]]

Leaf(m, s, page, frame, prot) ==
  [m EXCEPT !.spaces[s].pages = @ \cup {[page |-> page, frame |-> frame, prot |-> prot]}]

\* map_page_in(): tables that map_to() made before it failed stay linked, but are
\* not recorded.
map_page_in(m, s, page, frame, prot) ==
  Then(TablesOf(m, s, page), LAMBDA n :
    IF Mapped(n.spaces[s], page) THEN {Stop(n)}
    ELSE {Go([Leaf(n, s, page, frame, prot) EXCEPT
                !.spaces[s].tables = @ \o NewTables(m.spaces[s], n.spaces[s], page)])})

can_add_owned_pages(m, s, n) == Len(m.spaces[s].leaves) + n <= MAX_USER_ADDRESS_SPACE_PAGES

map_owned_frame_in(m, s, page, frame, prot) ==
  IF ~can_add_owned_pages(m, s, 1) THEN {Stop(m)}
  ELSE Then(map_page_in(m, s, page, frame, prot), LAMBDA n :
         {Go([n EXCEPT !.spaces[s].leaves = Append(@, frame)])})

map_file_frame_in(m, s, page, frame, prot) ==
  Then(map_owned_frame_in(m, s, page, frame, prot), LAMBDA n : {Go([n EXCEPT !.spaces[s].files = @ + 1])})

\* A new frame for a page; the frame is freed when it cannot be mapped.
NewPage(m, s, page, prot, file) ==
  WithFrame(m, LAMBDA n, frame :
    OrFree(IF file THEN map_file_frame_in(n, s, page, frame, prot)
           ELSE map_owned_frame_in(n, s, page, frame, prot), frame))

\* Pages one after the other, as far as they can be had: what was mapped stays.
NewPages(m, s, pages, prot, file) ==
  FoldLeft(LAMBDA S, page : Then(S, LAMBDA n : NewPage(n, s, page, prot, file)), {Go(m)}, pages)

map_region(m, s, pages, prot) ==
  IF can_add_owned_pages(m, s, Len(pages)) THEN NewPages(m, s, pages, prot, FALSE) ELSE {Stop(m)}

\* protect_region(): page after page, up to the first that is not a user page.
protect_region(m, s, pages, prot) ==
  LET user == {p.page : p \in {q \in m.spaces[s].pages : q.prot.user}}
      stop == SelectInSeq(pages, LAMBDA p : p \notin user)
      done == ToSet(IF stop = 0 THEN pages ELSE SubSeq(pages, 1, stop - 1)) IN
  [m EXCEPT !.spaces[s].pages = {IF p.page \in done THEN [p EXCEPT !.prot = prot] ELSE p : p \in @}]
-----------------------------------------------------------------------------

\* free_address_space(): never the space that is loaded.
free_address_space(m, s) ==
  IF s = m.current \/ m.spaces[s].root = 0 THEN m
  ELSE [m EXCEPT !.spaces[s] = NoSpace,
                !.recycled = Append(@ \o m.spaces[s].leaves \o m.spaces[s].tables, m.spaces[s].root)]

new_process_pml4(m, s) ==
  WithFrame(m, LAMBDA n, frame : {Go([n EXCEPT !.spaces[s] = [NoSpace EXCEPT !.root = frame]])})

\* map_user_stack(): the stack and, below it, a page the program cannot touch.
map_user_stack(m, s) ==
  Then(NewPages(m, s, AsStack, Prot(TRUE, FALSE), FALSE), LAMBDA n :
    NewPage(n, s, AsGuard, [w |-> FALSE, x |-> FALSE, user |-> FALSE], FALSE))

\* build_initial_stack(): arguments that do not fit end the load.
build_initial_stack(m, fit) == IF fit THEN {Go(m)} ELSE {Stop(m)}

\* The pages that segment i may not have.
TakenBy(segs, i) == UNION {ToSet(segs[j].pages) : j \in 1 .. i - 1} \cup ToSet(AsStack) \cup {AsGuard}

\* map_load_segment(): the pages are filled from the file and mapped as it says.
map_load_segment(m, s, seg) == NewPages(m, s, seg.pages, Prot(seg.w, seg.x), FALSE)

\* load_segments(): each segment is checked, against those before it and the
\* stack too, then mapped, before the next is looked at.
load_segments(m, s, segs) ==
  IF segs = <<>> THEN {Stop(m)}
  ELSE FoldLeft(LAMBDA S, i : Then(S, LAMBDA n :
                  IF segs[i].valid /\ ToSet(segs[i].pages) \cap TakenBy(segs, i) = {}
                  THEN map_load_segment(n, s, segs[i]) ELSE {Stop(n)}),
                {Go(m)}, [i \in DOMAIN segs |-> i])

Filled(m, s, segs, fit) ==
  Then(map_user_stack(m, s), LAMBDA n :
    Then(build_initial_stack(n, fit), LAMBDA o : load_segments(o, s, segs)))

\* load_elf_image_with_args(): a failed load frees the space it began.
load_elf_image(m, s, image, fit) ==
  IF ~image.header THEN {Stop(m)}
  ELSE Then(new_process_pml4(m, s), LAMBDA n :
         {IF r.ok THEN r ELSE Stop(free_address_space(r.m, s)) : r \in Filled(n, s, image.segs, fit)})
-----------------------------------------------------------------------------
AsCalled == [as EXCEPT !.calls = @ - 1]
Unused(s) == as.spaces[s].root = 0

\* sys_spawn() and its kin.
Spawn == \E s \in 1 .. AsSpaces, image \in AsImages, fit \in BOOLEAN :
  as.calls > 0 /\ Unused(s) /\ \E r \in load_elf_image(AsCalled, s, image, fit) : as' = r.m

\* sys_exec(): the new space is loaded into CR3 before the old one is freed.
Exec == \E s \in 1 .. AsSpaces, image \in AsImages :
  /\ as.calls > 0 /\ as.current # 0 /\ Unused(s)
  /\ \E r \in load_elf_image(AsCalled, s, image, TRUE) :
     as' = IF r.ok THEN free_address_space([r.m EXCEPT !.current = s], as.current) ELSE r.m

\* Runs of pages in the arena that a call may name.
Ranges == {<<p>> : p \in AsArena} \cup {<<p, p + 1>> : p \in {q \in AsArena : q + 1 \in AsArena}}

sys_mmap(pages, w, x) ==
  /\ as.calls > 0 /\ as.current # 0 /\ ~(w /\ x)
  /\ \E r \in map_region(AsCalled, as.current, pages, Prot(w, x)) : as' = r.m

\* sys_mmap_file(): the limit is asked for all the pages, then the pages come one
\* by one; fits counts the pages that can be read from the descriptor.
sys_mmap_file(pages, x, fits) ==
  /\ as.calls > 0 /\ as.current # 0
  /\ can_add_owned_pages(as, as.current, Len(pages))
  /\ \E r \in NewPages(AsCalled, as.current, SubSeq(pages, 1, fits), Prot(FALSE, x), TRUE) : as' = r.m

sys_mprotect(pages, w, x) ==
  /\ as.calls > 0 /\ as.current # 0 /\ ~(w /\ x)
  /\ as' = protect_region(AsCalled, as.current, pages, Prot(w, x))

Mmap == \E pages \in Ranges, w, x \in BOOLEAN : sys_mmap(pages, w, x)
MmapFile == \E pages \in Ranges, x \in BOOLEAN : \E fits \in 1 .. Len(pages) : sys_mmap_file(pages, x, fits)
Mprotect == \E pages \in Ranges, w, x \in BOOLEAN : sys_mprotect(pages, w, x)

\* user_range_accessible() for one page, of a call that reads or writes it.
user_page_accessible_in(space, page, writable) ==
  \E p \in space.pages : p.page = page /\ p.prot.user /\ (writable => p.prot.w)

\* sys_thread_spawn_common(): the entry is readable; the pages of a stack slot.
ThreadStack == \E pages \in AsThreads, entry \in DOMAIN AsTables :
  /\ as.calls > 0 /\ as.current # 0
  /\ user_page_accessible_in(as.spaces[as.current], entry, FALSE)
  /\ \E r \in map_region(AsCalled, as.current, pages, Prot(TRUE, FALSE)) : as' = r.m

\* The scheduler runs a task of another space, or a kernel task.
Switch == \E s \in 0 .. AsSpaces :
  /\ s # as.current /\ (s # 0 => ~Unused(s)) /\ as' = [as EXCEPT !.current = s]

\* The last task of a space is reaped.
Reap == \E s \in 1 .. AsSpaces : ~Unused(s) /\ s # as.current /\ as' = free_address_space(as, s)

AsNext == Spawn \/ Exec \/ Mmap \/ MmapFile \/ Mprotect \/ ThreadStack \/ Switch \/ Reap
-----------------------------------------------------------------------------
AsTypeOK ==
    /\ as.recycled \in Seq(1 .. AsFrames) /\ as.next \in 1 .. AsFrames + 1
    /\ as.current \in 0 .. AsSpaces /\ as.calls \in 0 .. AsCalls
    /\ \A s \in 1 .. AsSpaces : as.spaces[s].leaves \o as.spaces[s].tables \in Seq(1 .. AsFrames)

Owned(s) == LET sp == as.spaces[s] IN
            ToSet(sp.leaves) \cup {l[2] : l \in sp.linked} \cup (IF sp.root = 0 THEN {} ELSE {sp.root})
Free == ToSet(as.recycled) \cup as.next .. AsFrames

\* No frame is in two hands: what the allocator will give out next is not the
\* root, a table or a page of any space, no two spaces share a frame, and no
\* frame waits twice (a double free would give it to two programs).
FramesOnce ==
    /\ IsInjective(as.recycled) /\ \A f \in ToSet(as.recycled) : f < as.next
    /\ \A s \in 1 .. AsSpaces : Owned(s) \cap Free = {}
    /\ \A s, t \in 1 .. AsSpaces : s # t => Owned(s) \cap Owned(t) = {}

\* A program reaches only memory that its space owns and will give back: each of
\* its pages has a frame of its own that is recorded as a leaf, every table on the
\* way to the page is linked, and the limit on pages holds.
PagesOwned ==
    \A s \in 1 .. AsSpaces : LET sp == as.spaces[s] IN
        /\ {p.frame : p \in sp.pages} = ToSet(sp.leaves)
        /\ Cardinality({p.page : p \in sp.pages}) = Cardinality(sp.pages)
        /\ Len(sp.leaves) = Cardinality(sp.pages)
        /\ \A p \in sp.pages : \A i \in DOMAIN AsTables[p.page] : Linked(sp, AsTables[p.page][i])
        /\ Len(sp.leaves) <= MAX_USER_ADDRESS_SPACE_PAGES
        /\ ToSet(sp.tables) \subseteq {l[2] : l \in sp.linked}

\* While memory never ran out, nothing is lost: the frames that no space holds
\* are free, so when the last space is reaped the machine has them all again.
\* (A mapping that fails for want of a page table leaks the tables it made.)
NothingLost ==
    as.next <= AsFrames =>
        /\ \A s \in 1 .. AsSpaces : {l[2] : l \in as.spaces[s].linked} = ToSet(as.spaces[s].tables)
        /\ Free \cup UNION {Owned(s) : s \in 1 .. AsSpaces} = 1 .. AsFrames

\* The loaded space exists, with its stack, its guard page untouchable, and only a
\* program file may have asked for pages that are writable and executable.
SpacesWhole ==
    /\ as.current # 0 => as.spaces[as.current].root # 0
    /\ \A s \in 1 .. AsSpaces : as.spaces[s].root # 0 =>
         /\ \A i \in DOMAIN AsStack : Mapped(as.spaces[s], AsStack[i])
         /\ \E p \in as.spaces[s].pages : p.page = AsGuard /\ ~p.prot.user
         /\ \A p \in as.spaces[s].pages :
              p.prot.w /\ p.prot.x => \E image \in AsImages : \E i \in DOMAIN image.segs :
                  p.page \in ToSet(image.segs[i].pages) /\ image.segs[i].w /\ image.segs[i].x
=============================================================================
