------------------------------- MODULE Dynlink -------------------------------
(* The loader of shared objects (userspace/libcool/src/dynlink.rs):          *)
(* load_with_deps() loads an object after all it needs, at one stride after  *)
(* the other, binds its references, seals its pages and runs its             *)
(* initialisers.  The recursion is a stack of frames.                        *)
EXTENDS Integers, FiniteSets, Sequences, SequencesExt, FiniteSetsExt

CONSTANTS DlWorlds,       \* what the disk holds: the file behind each name of /lib
          MAX_OBJECTS, MAX_TLS_BYTES,
          DEFAULT_OBJECT_STRIDE,  \* in pages
          DlFaults        \* bound on the calls of the kernel that fail

VARIABLE dl

\* A file has a soname ("" for none), the names it needs, the symbols it exports
\* (tls: thread local), its references, segments of pages with w and x, the page
\* that its relocations write to, a TLS block and whether its tables parse.
\* A frame is the name being loaded and how many of its dependencies are done.
DlStart(world, root) ==
  [world |-> world, root |-> root, stack |-> <<>>, images |-> 0, objects |-> <<>>, tls_bytes |-> 0,
   next_tls_module |-> 1, mem |-> {}, inits |-> <<>>, dependencies |-> 0, state |-> "call", faults |-> DlFaults]
DlStarts == {DlStart(w, r) : w \in DlWorlds, r \in {"a"}}
DlInit == dl \in DlStarts

File(m, name) == m.world[name]
-----------------------------------------------------------------------------
\* Mutant: objects are told apart by their soname alone.
FindBySoname(m, name) == {i \in DOMAIN m.objects : m.objects[i].soname = name}

\* find_loaded(): objects that are complete, by name or soname.
find_loaded(m, name) == {i \in DOMAIN m.objects : name \in {m.objects[i].name, m.objects[i].soname}}

Fails(m) == [m EXCEPT !.state = "err", !.stack = <<>>]

\* The head of load_recursive(): the object is there, or one more image is read;
\* an unreadable file or one whose tables do not parse ends the whole load.
Enter(m, name) ==
  IF find_loaded(m, name) # {} THEN m
  ELSE IF m.images >= MAX_OBJECTS THEN Fails(m)
  ELSE IF name \notin DOMAIN m.world \/ ~File(m, name).parses THEN Fails([m EXCEPT !.images = @ + 1])
  ELSE [m EXCEPT !.images = @ + 1,
                 !.stack = Append(@, [name |-> name, dep |-> 0])]

load_with_deps ==
  /\ dl.state = "call"
  /\ dl' = Enter([dl EXCEPT !.state = "load"], dl.root)

\* The loop over the dependencies.
NextDependency ==
  /\ dl.state = "load" /\ dl.stack # <<>>
  /\ LET top == Last(dl.stack) needed == File(dl, top.name).needed IN
     /\ top.dep < Len(needed)
     /\ dl' = Enter([dl EXCEPT !.stack[Len(dl.stack)].dep = @ + 1], needed[top.dep + 1])
-----------------------------------------------------------------------------
\* collect_load_segments(): at least one, and no two overlap.
SegmentsFit(segs) ==
  segs # <<>> /\ \A i, j \in DOMAIN segs : i < j => segs[i].pages \cap segs[j].pages = {}

\* The place of the next object.
ObjectBase(m) == DEFAULT_OBJECT_STRIDE * Len(m.objects)

Placed(m, seg) == LET low == Min(UNION {s.pages : s \in ToSet(File(m, Last(m.stack).name).segs)}) IN
                  {ObjectBase(m) + p - low : p \in seg.pages}

\* MapSegment(): what is not writable comes from the file, the rest is
\* mapped writable and copied; the kernel refuses pages that are mapped.
MappedAs(m, seg) == {[page |-> p, object |-> Last(m.stack).name, w |-> seg.w, x |-> FALSE] : p \in Placed(m, seg)}

MapSegment(m, seg) ==
  LET new == IF seg.file THEN {[p EXCEPT !.x = seg.x] : p \in MappedAs(m, seg)}
             ELSE {[p EXCEPT !.w = TRUE] : p \in MappedAs(m, seg)} IN
  IF {p.page : p \in new} \cap {p.page : p \in m.mem} # {} THEN Fails(m)
  ELSE [m EXCEPT !.mem = @ \cup new]

\* The segments in turn; after the first that fails nothing more is mapped.
MapSegments(m, segs) ==
  FoldLeft(LAMBDA S, seg : {IF r.state = "err" THEN r ELSE MapSegment(r, seg) : r \in S}, {m}, segs)

TlsAlign(n, align) == ((n + align - 1) \div align) * align

\* allocate_tls(): the block is taken even if the object fails later.
allocate_tls(m, tls) ==
  LET start == TlsAlign(m.tls_bytes, tls.align) IN
  IF tls.size = 0 THEN m
  ELSE IF start + tls.size > MAX_TLS_BYTES THEN Fails(m)
  ELSE [m EXCEPT !.tls_bytes = start + tls.size, !.next_tls_module = @ + 1]

\* resolve_symbol_reference(): the object's own definition, else that of the first
\* object that has one; 0 stands for the object itself.
Exporters(m, sym) == {i \in DOMAIN m.objects : sym \in File(m, m.objects[i].name).exports}
Binding(m, file, sym) == IF sym \in file.exports THEN 0 ELSE Min(Exporters(m, sym))

\* apply_relocations_with_set(): the place is in a writable segment, the symbol is
\* known, and a TLS relocation needs a TLS symbol of an object that has a block.
Resolves(m, file, ref) ==
  /\ ref.sym \in file.exports \/ Exporters(m, ref.sym) # {}
  /\ \E i \in DOMAIN file.segs : file.writes \in file.segs[i].pages /\ file.segs[i].w
  /\ ref.tls => LET owner == IF ref.sym \in file.exports THEN file
                             ELSE File(m, m.objects[Binding(m, file, ref.sym)].name) IN
                ref.sym \in owner.tls_syms /\ owner.tls.size > 0

\* protect_load_segments(): segment after segment, up to one that is writable and
\* executable.
Sealed(m, file) ==
  LET bad == SelectInSeq(file.segs, LAMBDA s : s.w /\ s.x)
      done == IF bad = 0 THEN file.segs ELSE SubSeq(file.segs, 1, bad - 1)
      seal(p) == LET S == {i \in DOMAIN done : p.page \in Placed(m, done[i])} IN
                 IF p.object # Last(m.stack).name \/ S = {} THEN p
                 ELSE LET seg == done[Min(S)] IN [p EXCEPT !.x = seg.x, !.w = seg.w /\ ~seg.x] IN
  LET n == [m EXCEPT !.mem = {seal(p) : p \in @}] IN IF bad = 0 THEN n ELSE Fails(n)

\* call_init_array(), as soon as the object is in the set.
call_init_array(m, object) == [m EXCEPT !.inits = Append(@, object.name)]

\* The end of load_recursive(): the object joins the set, and counts as a
\* dependency of the object that asked for it.
Joined(m, file, n) ==
  LET name == Last(m.stack).name
      object == [name |-> name, soname |-> file.soname, base |-> ObjectBase(m),
                 tls |-> IF file.tls.size = 0 THEN <<0, 0, 0>>
                         ELSE <<n.tls_bytes - file.tls.size, n.tls_bytes, n.next_tls_module - 1>>,
                 binds |-> [r \in file.refs |-> Binding(m, file, r.sym)]]
      rest == Front(m.stack) IN
  call_init_array([n EXCEPT !.objects = Append(@, object), !.stack = rest,
                            !.dependencies = @ + (IF rest = <<>> THEN 0 ELSE 1),
                            !.state = IF rest = <<>> THEN "ok" ELSE @], object)

\* load_image_with_set(), after the dependencies.
Relocated(m, file, n) ==
  IF n.state = "err" THEN n
  ELSE IF \E r \in file.refs : ~Resolves(m, file, r) THEN Fails(n)
  ELSE LET s == Sealed(n, file) IN IF s.state = "err" THEN s ELSE Joined(m, file, s)

load_image_with_set ==
  /\ dl.state = "load" /\ dl.stack # <<>>
  /\ LET file == File(dl, Last(dl.stack).name) IN
     /\ Last(dl.stack).dep = Len(file.needed)
     /\ IF Len(dl.objects) >= MAX_OBJECTS \/ ~SegmentsFit(file.segs) THEN dl' = Fails(dl)
        ELSE \E n \in MapSegments(dl, file.segs) :
               dl' = IF n.state = "err" THEN n ELSE Relocated(dl, file, allocate_tls(n, file.tls))

\* An open, a read, a mapping or a protection is refused by the kernel.
KernelRefuses ==
  /\ dl.state = "load" /\ dl.faults > 0
  /\ dl' = Fails([dl EXCEPT !.faults = @ - 1])

DlNext == load_with_deps \/ NextDependency \/ load_image_with_set \/ KernelRefuses
-----------------------------------------------------------------------------

DlTypeOK ==
    /\ dl.state \in {"call", "load", "ok", "err"} /\ dl.images \in 0 .. MAX_OBJECTS
    /\ Len(dl.objects) <= MAX_OBJECTS /\ Len(dl.stack) <= dl.images
    /\ dl.tls_bytes \in 0 .. MAX_TLS_BYTES

FoundBefore(i, name) == find_loaded([dl EXCEPT !.objects = SubSeq(@, 1, i - 1)], name) # {}

\* Initialisers run once for each object and never before those of what the
\* object needs, however the needs are shared, repeated or circular: a circle
\* ends in an error and not in an object whose dependency is half done.
InitsInOrder ==
    /\ dl.inits = [i \in DOMAIN dl.objects |-> dl.objects[i].name] /\ IsInjective(dl.inits)
    /\ \A i \in DOMAIN dl.objects : \A n \in ToSet(File(dl, dl.objects[i].name).needed) : FoundBefore(i, n)
    /\ dl.state = "ok" => Last(dl.inits) = dl.root /\ dl.dependencies = Len(dl.objects) - 1

\* Every reference of a complete object is bound to a definition in the object or
\* in one that was complete before it.
RefsBound ==
    \A i \in DOMAIN dl.objects : LET o == dl.objects[i] IN
        \A r \in DOMAIN o.binds :
            IF o.binds[r] = 0 THEN r.sym \in File(dl, o.name).exports
            ELSE o.binds[r] < i /\ r.sym \in File(dl, dl.objects[o.binds[r]].name).exports

\* Objects share neither pages nor thread-local storage, each block starts where
\* its alignment says and has a module number of its own.
ObjectsApart ==
    /\ \A p, q \in dl.mem : p.page = q.page => p = q
    /\ \A i \in DOMAIN dl.objects : LET o == dl.objects[i] IN
         o.tls[2] # 0 =>
           /\ o.tls[1] % File(dl, o.name).tls.align = 0 /\ o.tls[2] <= MAX_TLS_BYTES
           /\ \A j \in 1 .. i - 1 : dl.objects[j].tls[2] <= o.tls[1] /\ dl.objects[j].tls[3] < o.tls[3]

\* W^X: nothing is ever writable and executable at once, also half-way through a
\* load or after it failed, and a complete object has the protection of its file.
NeverWX ==
    /\ \A p \in dl.mem : ~(p.w /\ p.x)
    /\ \A i \in DOMAIN dl.objects : LET o == dl.objects[i] f == File(dl, o.name) IN
         \A s \in ToSet(f.segs) : \A p \in dl.mem :
            p.object = o.name /\ p.page - o.base + Min(UNION {t.pages : t \in ToSet(f.segs)}) \in s.pages
              => p.w = s.w /\ p.x = s.x

\* The reference: files whose needs form no circle, fit the limits, define what
\* they use and have sane segments.
Closure(world, S) == LET step(T) == T \cup UNION {ToSet(world[n].needed) : n \in T \cap DOMAIN world} IN
                     step(step(step(S)))
NeedsOf(world, n) == Closure(world, ToSet(world[n].needed))
WellFormed(world, root) ==
    LET all == Closure(world, {root}) IN
    /\ all \subseteq DOMAIN world /\ Cardinality(all) <= MAX_OBJECTS
    /\ SumSet({0} \cup {world[n].tls.size : n \in all}) * 2 <= MAX_TLS_BYTES
    /\ \A n \in all : LET f == world[n] IN
         /\ n \notin NeedsOf(world, n) /\ f.soname \in {"", n} /\ f.parses /\ SegmentsFit(f.segs)
         /\ \A s \in ToSet(f.segs) : ~(s.w /\ s.x)
         /\ Max(UNION {s.pages : s \in ToSet(f.segs)}) - Min(UNION {s.pages : s \in ToSet(f.segs)}) < DEFAULT_OBJECT_STRIDE
         /\ f.refs # {} => \E s \in ToSet(f.segs) : f.writes \in s.pages /\ s.w
         /\ \A r \in f.refs : ~r.tls /\ \E k \in {n} \cup NeedsOf(world, n) : r.sym \in world[k].exports

\* A program whose objects are in order loads, unless the kernel refuses a call.
GoodProgramsLoad == dl.state = "err" => dl.faults < DlFaults \/ ~WellFormed(dl.world, dl.root)
=============================================================================
