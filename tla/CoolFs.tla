------------------------------- MODULE CoolFs -------------------------------
(* CoolFS (coolfs.rs), the root filesystem: inodes, the block bitmap,      *)
(* directories rewritten copy-on-write, and a write-back block cache whose *)
(* contents reach the disk when a dirty block is evicted or when the        *)
(* writeback service flushes (writeback.rs, fs_hardening.rs).               *)
(*                                                                         *)
(* One operation on the image holds the image lock with interrupts off and *)
(* is one step.  The kernel's main task runs with interrupts on, so its     *)
(* multi-operation procedures (safe_write_file, the flush) are lists of     *)
(* steps that system calls of user tasks may interrupt; a system call runs *)
(* with interrupts off and is one step whatever it does.                   *)
(*                                                                         *)
(* A file's bytes are one value that takes one block; a directory with      *)
(* entries takes one block and an empty one none.                           *)
EXTENDS Integers, Sequences, FiniteSets, SequencesExt, FiniteSetsExt

CONSTANTS CfsInodes,   \* inode numbers, 0 is the root directory
          CfsBlocks,   \* blocks of the data region
          CfsNames,    \* names a program may use in a directory
          CfsPaths,    \* paths programs operate on
          CfsMainWrites, \* paths the main task's own safe writes go to
          CfsData      \* contents of a file

VARIABLE cf

CfsTmp == "CWTMP.TMP"
CfsJournal == "FSJOURNAL.TXT"
CfsAllNames == CfsNames \cup {CfsTmp, CfsJournal}
CfsFree == [kind |-> "free", blocks |-> {}, data |-> "", ents |-> {}]
CfsEmpty(k) == [CfsFree EXCEPT !.kind = k]

(* ---- the image: every operation gives [im, err], err = "ok" or a reason *)
CfsOk(im) == [im |-> im, err |-> "ok"]
CfsErr(im, e) == [im |-> im, err |-> e]

EntryOf(im, dir, n) == {e \in im.ino[dir].ents : e.name = n}

\* resolve_path: the inode a path leads to, or -1.
Resolve(im, path) ==
  FoldLeft(LAMBDA i, n :
             IF i >= 0 /\ im.ino[i].kind = "dir" /\ EntryOf(im, i, n) # {}
             THEN (CHOOSE e \in EntryOf(im, i, n) : TRUE).ino ELSE -1,
           0, path)

FreeBlocks(im) == CfsBlocks \ im.used

\* alloc_block: the lowest free block.
AllocBlock(im) == {Min(FreeBlocks(im))}

\* Mutant: the rewritten inode's old blocks are forgotten, not freed.
WriteBytesLeaks(im, i, size, node) ==
  IF size > Cardinality(FreeBlocks(im)) THEN CfsErr(im, "NoSpace")
  ELSE LET new == IF size = 0 THEN {} ELSE AllocBlock(im)
       IN CfsOk([ino |-> [im.ino EXCEPT ![i] = [node EXCEPT !.blocks = new]],
                 used |-> im.used \cup new])

\* write_inode_bytes: new blocks are taken before the old ones are freed, so
\* rewriting needs a spare block; running out frees what was taken.
WriteBytes(im, i, size, node) ==
  IF size > Cardinality(FreeBlocks(im)) THEN CfsErr(im, "NoSpace")
  ELSE LET new == IF size = 0 THEN {} ELSE AllocBlock(im)
       IN CfsOk([ino |-> [im.ino EXCEPT ![i] = [node EXCEPT !.blocks = new]],
                 used |-> (im.used \cup new) \ im.ino[i].blocks])

\* write_dir_entries
WriteDir(im, dir, ents) ==
  WriteBytes(im, dir, IF ents = {} THEN 0 ELSE 1, [im.ino[dir] EXCEPT !.ents = ents])

\* free_inode
FreeInode(im, i) == [ino |-> [im.ino EXCEPT ![i] = CfsFree], used |-> im.used \ im.ino[i].blocks]

CreateNode(im, path, kind) ==
  LET dir == Resolve(im, Front(path))
      spare == {i \in CfsInodes \ {0} : im.ino[i].kind = "free"}
      i == Min(spare)
      im1 == [im EXCEPT !.ino[i] = CfsEmpty(kind)]
      w == WriteDir(im1, dir, im.ino[dir].ents \cup {[ino |-> i, name |-> Last(path)]})
  IN CASE dir < 0 \/ (dir >= 0 /\ im.ino[dir].kind # "dir") -> CfsErr(im, "NotFound")
       [] dir >= 0 /\ EntryOf(im, dir, Last(path)) # {} -> CfsErr(im, "AlreadyExists")
       [] spare = {} -> CfsErr(im, "NoSpace")
       [] OTHER -> IF w.err = "ok" THEN w ELSE CfsErr(FreeInode(im1, i), w.err)

WriteFile(im, path, d) ==
  LET i == Resolve(im, path)
  IN CASE i < 0 -> CfsErr(im, "NotFound")
       [] i >= 0 /\ im.ino[i].kind # "file" -> CfsErr(im, "InvalidPath")
       [] OTHER -> WriteBytes(im, i, IF d = "" THEN 0 ELSE 1, [im.ino[i] EXCEPT !.data = d])

\* delete_file: also removes an empty directory.
DeleteNode(im, path) ==
  LET dir == Resolve(im, Front(path))
      i == Resolve(im, path)
      w == WriteDir(im, dir, im.ino[dir].ents \ EntryOf(im, dir, Last(path)))
  IN CASE i < 0 -> CfsErr(im, "NotFound")
       [] i >= 0 /\ im.ino[i].ents # {} -> CfsErr(im, "NotEmpty")
       [] OTHER -> IF w.err = "ok" THEN CfsOk(FreeInode(w.im, i)) ELSE w

\* rename: only the last name changes.
RenameNode(im, path, n) ==
  LET dir == Resolve(im, Front(path))
      ents == im.ino[dir].ents
  IN CASE dir < 0 \/ (dir >= 0 /\ im.ino[dir].kind # "dir") -> CfsErr(im, "NotFound")
       [] n = Last(path) -> CfsErr(im, "same")
       [] EntryOf(im, dir, n) # {} -> CfsErr(im, "AlreadyExists")
       [] EntryOf(im, dir, Last(path)) = {} -> CfsErr(im, "NotFound")
       [] OTHER -> WriteDir(im, dir, {IF e.name = Last(path) THEN [e EXCEPT !.name = n] ELSE e : e \in ents})

(* ---- procedures as lists of image operations ---------------------------- *)
Op(f, path, arg, tolerate) == [f |-> f, path |-> path, arg |-> arg, tolerate |-> tolerate]

Apply(im, op) ==
  CASE op.f = "create" -> CreateNode(im, op.path, "file")
    [] op.f = "mkdir" -> CreateNode(im, op.path, "dir")
    [] op.f = "write" -> WriteFile(im, op.path, op.arg)
    [] op.f = "delete" -> DeleteNode(im, op.path)
    [] op.f = "rename" -> RenameNode(im, op.path, op.arg)

\* safe_write_file_with_metadata: write a temporary in the same directory,
\* delete the file, give the temporary its name.
SafeWrite(path, d) ==
  LET tmp == Append(Front(path), CfsTmp)
  IN <<Op("delete", tmp, "", {"NotFound"}), Op("create", tmp, "", {}), Op("write", tmp, d, {}),
       Op("delete", path, "", {"NotFound"}), Op("rename", tmp, Last(path), {})>>

\* What a failed operation of a procedure leaves to do: a safe write that cannot
\* delete the old file deletes its temporary, anything else stops.
AfterFailure(op, rest) ==
  IF op.f = "delete" /\ rest # <<>> /\ Head(rest).f = "rename"
  THEN <<Op("delete", Head(rest).path, "", {"NotFound", "NoSpace", "NotEmpty"})>>
  ELSE <<>>

\* fs_hardening.flush: the journal file is created and written, and only then is
\* the image flushed; a journal that cannot be written stops the flush.
FlushScript == <<Op("create", <<CfsJournal>>, "", {"AlreadyExists"}),
                 Op("write", <<CfsJournal>>, "j", {}),
                 [f |-> "flush"]>>

Procedures ==
       {<<Op(f, p, "", {})>> : f \in {"create", "mkdir", "delete"}, p \in CfsPaths}
  \cup {<<Op("write", p, d, {})>> : p \in CfsPaths, d \in CfsData}
  \cup {<<Op("rename", p, n, {})>> : p \in CfsPaths, n \in CfsNames}
  \cup {SafeWrite(p, d) : p \in CfsPaths, d \in CfsData \ {""}}

\* A whole procedure inside one system call.
RECURSIVE RunAll(_, _)
RunAll(im, ops) ==
  IF ops = <<>> THEN im
  ELSE LET r == Apply(im, Head(ops))
       IN IF r.err = "ok" \/ r.err \in Head(ops).tolerate THEN RunAll(r.im, Tail(ops))
          ELSE RunAll(r.im, AfterFailure(Head(ops), Tail(ops)))

(* ---- the cache ------------------------------------------------------------ *)
\* stale: some cached block differs from the disk.  get_mut marks the blocks an
\* operation writes; an operation that ran out of space has put everything back.
Touch(c, im) ==
  [c EXCEPT !.mem = im, !.stale = @ \/ im # c.mem]

(* ---- actions ---------------------------------------------------------------- *)
\* A system call: the operations and the DIRTY flag in one step.
UserCalls ==
  \E ops \in Procedures :
    LET im == RunAll(cf.mem, ops)
    IN cf' = [Touch(cf, im) EXCEPT !.dirty = @ \/ im # cf.mem]

\* The main task begins a safe write of its own (every file the kernel saves is
\* saved this way) or the writeback flush.
MainBegins ==
  /\ cf.todo = <<>>
  /\ \E ops \in {SafeWrite(p, d) : p \in CfsMainWrites, d \in CfsData \ {""}} \cup {FlushScript} :
       cf' = [cf EXCEPT !.todo = ops]

\* One operation of the main task.  record_mutation, which sets DIRTY, comes after
\* the image lock is released: it is a step of its own.
MainStep ==
  /\ cf.todo # <<>>
  /\ Head(cf.todo).f \notin {"flush", "write-out", "record"}
  /\ LET op == Head(cf.todo)
         rest == Tail(cf.todo)
         r == Apply(cf.mem, op)
         next == IF r.err = "ok" \/ r.err \in op.tolerate THEN rest ELSE AfterFailure(op, rest)
     IN cf' = [Touch(cf, r.im) EXCEPT
                 !.todo = IF r.err = "ok" THEN <<[f |-> "record"]>> \o next ELSE next]

MainRecords ==
  /\ cf.todo # <<>> /\ Head(cf.todo).f = "record"
  /\ cf' = [cf EXCEPT !.dirty = TRUE, !.todo = Tail(@)]

\* coolfs.flush looks at DIRTY before it takes the lock...
FlushLooks ==
  /\ cf.todo # <<>> /\ Head(cf.todo).f = "flush"
  /\ cf' = [cf EXCEPT !.todo = IF cf.dirty THEN <<[f |-> "write-out"]>> ELSE <<>>]

\* ... and clears it only when every dirty block was written: the device may
\* refuse one, and then the blocks before it are on the disk and DIRTY stays.
WriteOut(ok) == [cf EXCEPT !.stale = @ /\ ~ ok, !.todo = <<>>, !.dirty = ~ ok]

FlushWrites ==
  /\ cf.todo # <<>> /\ Head(cf.todo).f = "write-out"
  /\ \E ok \in BOOLEAN : cf' = WriteOut(ok)

\* cache_index: a miss may evict the oldest block, writing it first if dirty; after
\* enough of them nothing is left to write although DIRTY is still set.
Evict == cf.stale /\ cf' = [cf EXCEPT !.stale = FALSE]

CfsFormatted == [ino |-> [i \in CfsInodes |-> IF i = 0 THEN CfsEmpty("dir") ELSE CfsFree],
                 used |-> {}]

CfsInit == cf = [mem |-> CfsFormatted, stale |-> FALSE,
                 dirty |-> FALSE, todo |-> <<>>]

CfsNext == UserCalls \/ MainBegins \/ MainStep \/ MainRecords \/ FlushLooks \/ FlushWrites \/ Evict

CfsSpec == CfsInit /\ [][CfsNext]_cf

(* ---- properties ------------------------------------------------------------- *)
CfsTypeOK ==
  /\ DOMAIN cf.mem.ino = CfsInodes
  /\ cf.mem.used \subseteq CfsBlocks
  /\ \A i \in CfsInodes : cf.mem.ino[i].kind \in {"free", "file", "dir"}
  /\ cf.stale \in BOOLEAN /\ cf.dirty \in BOOLEAN

\* Whatever mixture of operations succeeds or runs out of space, the bitmap marks
\* exactly the blocks that inodes own, no block has two owners, and every node but
\* the root is named by exactly one entry of a directory that is itself in the tree.
ImageSound ==
  LET im == cf.mem
      live == {i \in CfsInodes : im.ino[i].kind # "free"}
      named(i) == {<<d, n>> \in live \X CfsAllNames : [ino |-> i, name |-> n] \in im.ino[d].ents}
  IN /\ im.used = UNION {im.ino[i].blocks : i \in live}
     /\ \A i, j \in live : i # j => im.ino[i].blocks \cap im.ino[j].blocks = {}
     /\ \A i \in live \ {0} : Cardinality(named(i)) = 1
     /\ \A i \in live : \A e \in im.ino[i].ents : e.ino \in live

\* When DIRTY is clear and no operation of the main task is between its change and
\* its record, what a reboot would read is exactly the image in memory: the flag
\* that lets flush return early never hides an unwritten change.
CleanMeansOnDisk ==
  ~ cf.dirty /\ (cf.todo = <<>> \/ Head(cf.todo).f # "record") => ~ cf.stale
=============================================================================
