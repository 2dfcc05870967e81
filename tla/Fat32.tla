-------------------------------- MODULE Fat32 --------------------------------
(***************************************************************************)
(* The FAT32 file system (src/src/fat32.rs): the two copies of the table,  *)
(* directories of slots with long names, and the order in which every      *)
(* operation writes its sectors.                                           *)
(*                                                                         *)
(* An operation holds WRITE_LOCK and is one step.  It is the set of its     *)
(* outcomes: one of its writes may fail, and it then cleans up or does not,*)
(* or the power goes after any of its writes.  A cluster is one sector.  A *)
(* file's content is a sequence with one value for each cluster.  A long   *)
(* name takes one fragment.                                                *)
(***************************************************************************)
EXTENDS Integers, Sequences, SequencesExt, FiniteSets, Outcomes

CONSTANTS
    FatClusters,   \* the highest cluster; the first is 2, the root directory
    FatSlots,      \* slots of a directory cluster
    FatDirs,       \* names for directories
    FatShort,      \* names that are valid 8.3 names
    FatLong,       \* names that are not, and are alike in their first letters
    FatContents,   \* contents
    FatSetup,      \* the operations that made the disk as it is found
    FatCalls,      \* bound: operations
    FatFaults      \* bound: writes that fail, power cuts

VARIABLE ft

Clusters == 2 .. FatClusters
Root == 2
FREE == 0
EOC == 1
EndSlot == [kind |-> "end"]
FreeSlot == [kind |-> "free"]
Blank == [i \in 1 .. FatSlots |-> EndSlot]
Tmp == "CWTMP.TMP"

\* name_to_83(): a long name is cut down to the short one that begins alike.
Name_to_83(n) == IF n \in FatLong THEN <<CHOOSE s \in FatShort : TRUE, 0>> ELSE <<n, 0>>

----------------------------------------------------------------------------
(* The table and the directories as they are read. *)

Fat_next(m, c) == m.fat[1][c]

\* cluster_chain_clusters(): as long as the table leads to a cluster.  The code
\* would not come back from a cycle.
Chain(m, start) ==
    IF start \notin Clusters THEN <<>>
    ELSE FoldLeft(LAMBDA s, k : IF Fat_next(m, Last(s)) \in Clusters THEN Append(s, Fat_next(m, Last(s))) ELSE s,
                  <<start>>, [k \in 1 .. FatClusters |-> k])

\* The slots of a directory in order, as places on the disk.
Places(m, dir) ==
    LET chain == Chain(m, dir)
    IN [k \in 1 .. Len(chain) * FatSlots |-> <<chain[((k - 1) \div FatSlots) + 1], ((k - 1) % FatSlots) + 1>>]

SlotAt(m, place) == m.data[place[1]][place[2]]
IsFree(slot) == slot.kind \in {"end", "free"}
Is(slot, kind) == slot.kind = kind

\* The indexes of the slots before the end marker that hold an entry.
Live(m, places) ==
    {k \in DOMAIN places : Is(SlotAt(m, places[k]), "entry") /\ \A j \in 1 .. k : ~Is(SlotAt(m, places[j]), "end")}

\* assemble_lfn_for_entry(): the fragments right before the entry have to be
\* one, with the checksum of the entry's short name.
HasLfn(m, places, k) ==
    /\ k > 1 /\ Is(SlotAt(m, places[k - 1]), "lfn")
    /\ SlotAt(m, places[k - 1]).sum = SlotAt(m, places[k]).short
    /\ k > 2 => ~Is(SlotAt(m, places[k - 2]), "lfn")

Matches(m, places, k, name) ==
    \/ SlotAt(m, places[k]).short = Name_to_83(name)
    \/ HasLfn(m, places, k) /\ SlotAt(m, places[k - 1]).text = name

\* find_entry_location(): the first entry that matches; 0 if there is none.
FindAt(m, places, name) ==
    LET S == {k \in Live(m, places) : Matches(m, places, k, name)}
    IN IF S = {} THEN 0 ELSE CHOOSE k \in S : \A j \in S : k <= j

FoundIn(m, places, k) ==
    IF k = 0 THEN [found |-> FALSE]
    ELSE [found |-> TRUE, place |-> places[k], entry |-> SlotAt(m, places[k]),
          lfn |-> IF HasLfn(m, places, k) THEN {places[k - 1]} ELSE {}]

Find_entry_location(m, dir, name) == FoundIn(m, Places(m, dir), FindAt(m, Places(m, dir), name))

\* resolve_dir_cluster() of a path of at most one component; 0 is an error.
DirOf(l) == IF l.found /\ l.entry.dir THEN l.entry.first ELSE 0
Resolve_dir_cluster(m, path) == IF path = <<>> THEN Root ELSE DirOf(Find_entry_location(m, Root, path[1]))

LocateIn(m, dir, name) == IF dir = 0 THEN [found |-> FALSE] ELSE Find_entry_location(m, dir, name)
Locate(m, path) == LocateIn(m, Resolve_dir_cluster(m, Front(path)), Last(path))

\* read_file(): the data of the chain cut to the size.
ReadChain(m, entry, chain) ==
    [k \in 1 .. (IF entry.size < Len(chain) THEN entry.size ELSE Len(chain)) |-> m.data[chain[k]]]
NoFile == [ok |-> FALSE]
ContentOf(m, l) ==
    IF ~l.found \/ (l.found /\ l.entry.dir) THEN NoFile
    ELSE [ok |-> TRUE, data |-> ReadChain(m, l.entry, Chain(m, l.entry.first))]
Read_file(m, path) == ContentOf(m, Locate(m, path))

----------------------------------------------------------------------------
(* Writes.  m.power goes when the power does; m.got is what was allocated. *)

Wr(m, new) ==
    {Go(new)} \cup (IF m.faults = 0 THEN {}
                    ELSE {Stop([m EXCEPT !.faults = @ - 1]), Stop([m EXCEPT !.faults = @ - 1, !.power = FALSE])})

\* G cleans up after an error, if the machine is still there to do so.
Rescue(S, G(_)) ==
    UNION {IF s.ok \/ ~s.m.power THEN {s} ELSE {[r EXCEPT !.ok = FALSE] : r \in G(s.m)} : s \in S}

Each(m, list, F(_, _)) == FoldLeft(LAMBDA S, x : Then(S, LAMBDA y : F(y, x)), {Go(m)}, list)

\* The first copy of the table, then the second.
Fat_write_entry(m, c, v) ==
    Then(Wr(m, [m EXCEPT !.fat[1][c] = v]), LAMBDA x : Wr(x, [x EXCEPT !.fat[2][c] = v]))
Write_cluster(m, c, v) == Wr(m, [m EXCEPT !.data[c] = v])
Write_dir_slot(m, place, v) == Wr(m, [m EXCEPT !.data[place[1]][place[2]] = v])

Unused(m) == {c \in Clusters : Fat_next(m, c) = FREE}
Alloc_at(m, c) ==
    Then(Then(Fat_write_entry(m, c, EOC), LAMBDA x : Write_cluster(x, c, Blank)),
         LAMBDA x : {Go([x EXCEPT !.got = Append(@, c)])})
Alloc_cluster(m) ==
    IF Unused(m) = {} THEN {Stop(m)} ELSE Alloc_at(m, CHOOSE c \in Unused(m) : \A d \in Unused(m) : c <= d)

Free_cluster_list(m, list) == Each(m, list, LAMBDA x, c : Fat_write_entry(x, c, FREE))
Free_cluster_chain(m, start) == Free_cluster_list(m, Chain(m, start))

\* All clusters are taken first and then linked.
Link(m) == Each(m, [k \in 1 .. Len(m.got) - 1 |-> k], LAMBDA x, k : Fat_write_entry(x, x.got[k], x.got[k + 1]))
Alloc_cluster_chain(m, n) ==
    Then(Each(m, [k \in 1 .. n |-> k],
              LAMBDA x, k : Rescue(Alloc_cluster(x), LAMBDA y : Free_cluster_list(y, y.got))),
         Link)

----------------------------------------------------------------------------
(* New entries in a directory. *)

\* find_free_dir_entry_run(): the first run of n free slots; 0 if there is none.
RunAt(m, places, n) ==
    LET S == {k \in 1 .. Len(places) - n + 1 : \A j \in k .. k + n - 1 : IsFree(SlotAt(m, places[j]))}
    IN IF S = {} THEN 0 ELSE CHOOSE k \in S : \A j \in S : k <= j

\* extend_dir_chain()
Extend_dir_chain(m, dir) ==
    Then(Alloc_cluster(m),
         LAMBDA x : Rescue(Fat_write_entry(x, Last(Chain(x, dir)), Last(x.got)),
                           LAMBDA y : Fat_write_entry(y, Last(y.got), FREE)))

\* The entries are written in order, and the end marker is moved behind them.
WriteRun(m, places, k, entries) ==
    LET n == Len(entries)
        hits_end == \E j \in k .. k + n - 1 : Is(SlotAt(m, places[j]), "end")
    IN Then(Each(m, [i \in 1 .. n |-> i], LAMBDA x, i : Write_dir_slot(x, places[k + i - 1], entries[i])),
            LAMBDA x : IF hits_end /\ k + n <= Len(places) THEN Write_dir_slot(x, places[k + n], EndSlot) ELSE {Go(x)})

TryRun(m, places, entries) ==
    IF RunAt(m, places, Len(entries)) = 0 THEN {Stop(m)} ELSE WriteRun(m, places, RunAt(m, places, Len(entries)), entries)

\* Two entries and no more are ever added, for which one more cluster is enough.
Append_dir_entries(m, dir, entries) ==
    IF RunAt(m, Places(m, dir), Len(entries)) # 0 THEN TryRun(m, Places(m, dir), entries)
    ELSE Then(Extend_dir_chain(m, dir), LAMBDA x : TryRun(x, Places(x, dir), entries))

\* short_name_exists_except()
ShortTaken(m, places, short, except) ==
    \E k \in Live(m, places) : places[k] # except /\ SlotAt(m, places[k]).short = short

\* generate_short_alias(): the first number that is free.
Alias(m, places, except) ==
    LET base == CHOOSE n \in FatLong : TRUE
        free == {i \in 1 .. Len(places) + 1 : ~ShortTaken(m, places, <<base, i>>, except)}
    IN <<base, CHOOSE i \in free : \A j \in free : i <= j>>

\* encode_name_for_dir(): a short name unless it is taken, or an alias.
NoName == <<>>
Encode_name(m, places, name, except) ==
    IF name \in FatLong THEN Alias(m, places, except)
    ELSE IF ShortTaken(m, places, <<name, 0>>, except) THEN NoName ELSE <<name, 0>>

Fragments(name, short) == IF name \in FatLong THEN <<[kind |-> "lfn", sum |-> short, text |-> name]>> ELSE <<>>
Entry(short, dir, first, size) == [kind |-> "entry", short |-> short, dir |-> dir, first |-> first, size |-> size]

----------------------------------------------------------------------------
(* The operations. *)

\* prepare_create(), then the entry with what was allocated for it.
Creatable(m, dir, name) ==
    /\ dir # 0
    /\ ~Find_entry_location(m, dir, name).found
    /\ Encode_name(m, Places(m, dir), name, <<>>) # NoName

AddEntry(m, dir, name, short, isdir, first) ==
    Append_dir_entries(m, dir, Append(Fragments(name, short), Entry(short, isdir, first, 0)))

Create_in(m, dir, name) ==
    IF ~Creatable(m, dir, name) THEN {Stop(m)}
    ELSE AddEntry(m, dir, name, Encode_name(m, Places(m, dir), name, <<>>), FALSE, 0)
Create_file(m, path) == Create_in(m, Resolve_dir_cluster(m, Front(path)), Last(path))

DotEntries(c, parent) ==
    [Blank EXCEPT ![1] = Entry(<<".", 0>>, TRUE, c, 0), ![2] = Entry(<<"..", 0>>, TRUE, parent, 0)]
MakeDir(m, name, short, c) ==
    Rescue(Then(Write_cluster(m, c, DotEntries(c, Root)), LAMBDA x : AddEntry(x, Root, name, short, TRUE, c)),
           LAMBDA y : Fat_write_entry(y, c, FREE))
Create_dir(m, name) ==
    IF ~Creatable(m, Root, name) THEN {Stop(m)}
    ELSE Then(Alloc_cluster(m),
              LAMBDA x : MakeDir(x, name, Encode_name(x, Places(x, Root), name, <<>>), Last(x.got)))

\* Mutant: the old chain is freed before the entry leads to the new one.
CommitLate(m, l, size) ==
    Then(IF l.entry.first \in Clusters THEN Free_cluster_chain(m, l.entry.first) ELSE {Go(m)},
         LAMBDA x : Write_dir_slot(x, l.place, [l.entry EXCEPT !.first = IF x.got = <<>> THEN 0 ELSE x.got[1], !.size = size]))

\* The entry is led to the new chain; only then is the old one freed.
Commit(m, l, size) ==
    Then(Rescue(Write_dir_slot(m, l.place, [l.entry EXCEPT !.first = IF m.got = <<>> THEN 0 ELSE m.got[1], !.size = size]),
                LAMBDA x : Free_cluster_list(x, x.got)),
         LAMBDA y : IF l.entry.first \in Clusters THEN Free_cluster_chain(y, l.entry.first) ELSE {Go(y)})

Write_data(m, data) ==
    Rescue(Each(m, [k \in DOMAIN data |-> k], LAMBDA x, k : Write_cluster(x, x.got[k], data[k])),
           LAMBDA y : Free_cluster_list(y, y.got))

Write_located(m, l, data) ==
    IF ~l.found THEN {Stop(m)} ELSE IF l.entry.dir THEN {Stop(m)}
    ELSE Then(Then(Alloc_cluster_chain(m, Len(data)), LAMBDA x : Write_data(x, data)),
              LAMBDA y : Commit(y, l, Len(data)))
Write_file(m, path, data) == Write_located(m, Locate(m, path), data)

\* mark_entry_location_deleted()
Mark_deleted(m, l) ==
    Then(Each(m, SetToSeq(l.lfn), LAMBDA x, p : Write_dir_slot(x, p, FreeSlot)),
         LAMBDA y : Write_dir_slot(y, l.place, FreeSlot))

\* Entries other than the dots.
IsEmptyDir(m, dir) == \A k \in Live(m, Places(m, dir)) : SlotAt(m, Places(m, dir)[k]).short[1] \in {".", ".."}

\* The clusters are freed first.
Delete_located(m, l) ==
    IF ~l.found THEN {Stop(m)} ELSE IF l.entry.dir /\ ~IsEmptyDir(m, l.entry.first) THEN {Stop(m)}
    ELSE Then(IF l.entry.first \in Clusters THEN Free_cluster_chain(m, l.entry.first) ELSE {Go(m)},
              LAMBDA x : Mark_deleted(x, l))
Delete_file(m, path) == Delete_located(m, Locate(m, path))

\* The three ways of a new name: in place without fragments, in place with as
\* many fragments as before, or a new entry and then the end of the old one.
Rename_to(m, dir, l, name, short) ==
    LET entry == [l.entry EXCEPT !.short = short]
        fragments == Fragments(name, short)
    IN IF fragments = <<>>
       THEN Then(Write_dir_slot(m, l.place, entry),
                 LAMBDA x : Each(x, SetToSeq(l.lfn), LAMBDA y, p : Write_dir_slot(y, p, FreeSlot)))
       ELSE IF Cardinality(l.lfn) = Len(fragments)
       THEN Then(Each(m, SetToSeq(l.lfn), LAMBDA y, p : Write_dir_slot(y, p, fragments[1])),
                 LAMBDA x : Write_dir_slot(x, l.place, entry))
       ELSE Then(Append_dir_entries(m, dir, Append(fragments, entry)), LAMBDA x : Mark_deleted(x, l))

Rename_located(m, dir, l, name, other) ==
    IF ~l.found THEN {Stop(m)} ELSE IF other.found /\ other # l THEN {Stop(m)}
    ELSE IF Encode_name(m, Places(m, dir), name, l.place) = NoName THEN {Stop(m)}
    ELSE Rename_to(m, dir, l, name, Encode_name(m, Places(m, dir), name, l.place))
Rename(m, path, name) ==
    IF Last(path) = name THEN {Go(m)}
    ELSE IF Resolve_dir_cluster(m, Front(path)) = 0 THEN {Stop(m)}
    ELSE Rename_located(m, Resolve_dir_cluster(m, Front(path)), Locate(m, path), name,
                        LocateIn(m, Resolve_dir_cluster(m, Front(path)), name))

----------------------------------------------------------------------------
(* Procedures of several operations, each with the lock of its own. *)

FatOp(op, path, arg) == [op |-> op, path |-> path, arg |-> arg]

\* safe_write_file()
Safe_write(path, data) ==
    LET tmp == Append(Front(path), Tmp)
    IN <<FatOp("delete", tmp, <<>>), FatOp("create", tmp, <<>>), FatOp("write", tmp, data),
         FatOp("delete", path, <<>>), FatOp("rename", tmp, Last(path))>>

\* copy_file(), the content having been read.
Copy_file(m, src, dst) ==
    IF ~Read_file(m, src).ok THEN <<>> ELSE <<FatOp("create", dst, <<>>), FatOp("write", dst, Read_file(m, src).data)>>

Do(m, o) ==
    CASE o.op = "create" -> Create_file(m, o.path)
      [] o.op = "mkdir" -> Create_dir(m, o.path[1])
      [] o.op = "write" -> Write_file(m, o.path, o.arg)
      [] o.op = "delete" -> Delete_file(m, o.path)
      [] o.op = "rename" -> Rename(m, o.path, o.arg)

\* What is left of a procedure after one of its operations.  Nothing is left
\* after an error, but that deleting what is not there is none.
Remaining(m, todo, ok) ==
    IF ok \/ (todo[1].op = "delete" /\ ~Locate(m, todo[1].path).found) THEN Tail(todo)
    ELSE IF Len(todo) = 2 /\ todo[1].op = "delete" THEN <<FatOp("delete", todo[2].path, <<>>)>>
    ELSE <<>>

\* A rename to a long name that is cut to the short name of the file itself: the
\* search for the new name finds that file and no other.
FindsItself(l, o) == o.op = "rename" /\ o.arg \in FatLong /\ l.found /\ (l.found => l.entry.short = Name_to_83(o.arg))

\* What a fault in the middle of an operation may have damaged.
Damage(m, o, fault, power) ==
    (IF FindsItself(Locate(m, o.path), o) THEN {"names"} ELSE {})
    \cup (IF ~fault \/ o.op = "write" THEN {}
          ELSE IF o.op \in {"create", "mkdir"} /\ ~power THEN {"names"} ELSE {"names", "chains"})

FatPaths == {<<n>> : n \in FatDirs \cup FatShort \cup FatLong} \cup {<<d, n>> : d \in FatDirs, n \in FatShort}

\* One operation with one of its outcomes.
Runs_op(m, o, own) ==
    \E r \in Do(m, o) :
        ft' = [r.m EXCEPT !.got = <<>>, !.last = o,
                          !.todo = IF ~r.m.power THEN <<>> ELSE IF own THEN Remaining(m, @, r.ok) ELSE @,
                          !.hurt = @ \cup Damage(m, o, r.m.faults < m.faults, r.m.power), !.power = TRUE]

FatOps ==
    {FatOp(op, p, <<>>) : op \in {"create", "delete"}, p \in FatPaths}
    \cup {FatOp("mkdir", <<d>>, <<>>) : d \in FatDirs}
    \cup {FatOp("write", p, c) : p \in FatPaths, c \in FatContents}
    \cup {FatOp("rename", p, n) : p \in FatPaths, n \in FatShort \cup FatLong}

\* A system call, also between the operations of a procedure.
FatCall ==
    /\ ft.left > 0
    /\ \E o \in FatOps : Runs_op([ft EXCEPT !.left = @ - 1], o, FALSE)

\* The main task begins a procedure, and goes on with it.
FatStart ==
    /\ ft.left > 0 /\ ft.todo = <<>>
    /\ \E p \in FatPaths :
          \/ \E c \in FatContents : ft' = [ft EXCEPT !.left = @ - 1, !.todo = Safe_write(p, c), !.last = FatOp("none", <<>>, <<>>)]
          \/ \E q \in FatPaths \ {p} : ft' = [ft EXCEPT !.left = @ - 1, !.todo = Copy_file(ft, p, q), !.last = FatOp("none", <<>>, <<>>)]
FatGoOn == ft.todo # <<>> /\ Runs_op(ft, ft.todo[1], TRUE)

Formatted ==
         [fat |-> [k \in 1 .. 2 |-> [c \in Clusters |-> IF c = Root THEN EOC ELSE FREE]],
          data |-> [c \in Clusters |-> Blank], power |-> TRUE, got |-> <<>>,
          last |-> FatOp("none", <<>>, <<>>), todo |-> <<>>, hurt |-> {}, left |-> FatCalls, faults |-> 0]
After(m, o) == CHOOSE x \in {[r.m EXCEPT !.got = <<>>] : r \in Do(m, o)} : TRUE
Prepared_disk == [FoldLeft(After, Formatted, FatSetup) EXCEPT !.faults = FatFaults]
FatInit == ft = Prepared_disk

\* What becomes of a disk with damaged chains is not followed.
FatNext == "chains" \notin ft.hurt /\ (FatCall \/ FatStart \/ FatGoOn)

----------------------------------------------------------------------------
\* The entries of a directory, and of the disk, without the dots.
EntriesIn(m, dir) ==
    {Places(m, dir)[k] : k \in {j \in Live(m, Places(m, dir)) : SlotAt(m, Places(m, dir)[j]).short[1] \notin {".", ".."}}}
Subdirs(m) == {SlotAt(m, p).first : p \in {q \in EntriesIn(m, Root) : SlotAt(m, q).dir}}
Entries(m) == EntriesIn(m, Root) \cup UNION {EntriesIn(m, d) : d \in Subdirs(m)}
Range1(s) == {s[k] : k \in DOMAIN s}
ClustersOf(m, place) == Range1(Chain(m, SlotAt(m, place).first))

FatTypeOK ==
    /\ \A k \in 1 .. 2, c \in Clusters : ft.fat[k][c] \in {FREE, EOC} \cup Clusters
    /\ ft.got = <<>> /\ ft.power
    /\ Len(ft.todo) <= 5

\* No cluster belongs to two files, every cluster of a file is marked as used,
\* and a file has the clusters that its size asks for: after every operation,
\* and after any power cut or failed write in write_file() and any power cut in
\* create_file() and create_dir().  (A cut in delete_file() or rename() leaves
\* an entry that leads to free clusters, or two entries for one file.)
ChainsSound ==
    "chains" \notin ft.hurt =>
        /\ \A p, q \in Entries(ft) : p # q => ClustersOf(ft, p) \cap ClustersOf(ft, q) = {}
        /\ \A p \in Entries(ft) :
              /\ ClustersOf(ft, p) \cap (Unused(ft) \cup Range1(Chain(ft, Root))) = {}
              /\ Cardinality(ClustersOf(ft, p)) = IF SlotAt(ft, p).dir THEN Len(Chain(ft, SlotAt(ft, p).first)) ELSE SlotAt(ft, p).size

\* As long as nothing failed, no cluster is lost and both copies of the table
\* are the same.
NothingLeaked ==
    ft.faults = FatFaults =>
        /\ ft.fat[1] = ft.fat[2]
        /\ Clusters \ Unused(ft) = Range1(Chain(ft, Root)) \cup UNION {ClustersOf(ft, p) : p \in Entries(ft)}

\* A name is in a directory once, and an entry with an alias has its long name;
\* a fault, or a rename in which a file was taken for its own new name, aside.
NamesSound ==
    "names" \notin ft.hurt =>
        \A dir \in {Root} \cup Subdirs(ft) :
            LET places == Places(ft, dir) IN
            /\ \A j, k \in Live(ft, places) : j # k =>
                  /\ SlotAt(ft, places[j]).short # SlotAt(ft, places[k]).short
                  /\ HasLfn(ft, places, j) /\ HasLfn(ft, places, k) => SlotAt(ft, places[j - 1]).text # SlotAt(ft, places[k - 1]).text
            /\ \A k \in Live(ft, places) : SlotAt(ft, places[k]).short[2] # 0 <=> HasLfn(ft, places, k)

\* Paths that an operation cannot tell apart: name_to_83() cuts long names.
\* A path is touched with the directory that it is in.
Alike(p, q) == Len(p) <= Len(q) /\ \A k \in DOMAIN p : Name_to_83(p[k]) = Name_to_83(q[k])
Touches(o, p) == Alike(o.path, p) \/ (o.op = "rename" /\ Alike(Append(Front(o.path), o.arg), p))

\* An operation changes the content of the files that its name stands for and of
\* no other; and write_file() leaves the old content or the new one whenever
\* the power goes or a write fails.
FatKeepsFiles ==
    ft'.hurt = {} =>
       /\ \A p \in FatPaths : Read_file(ft, p) # Read_file(ft', p) => Touches(ft'.last, p)
       /\ (ft'.last.op = "write" /\ ft'.last # ft.last /\ Read_file(ft, ft'.last.path).ok) =>
             Read_file(ft', ft'.last.path) \in {Read_file(ft, ft'.last.path), [ok |-> TRUE, data |-> ft'.last.arg]}
=============================================================================
