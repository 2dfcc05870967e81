----------------------------- MODULE VfsProofs -----------------------------
(***************************************************************************)
(* The other calls of module Vfs keep its invariant: spawn, threads, reads, *)
(* writes, poll, signals, and the steps of task 0; with the theorems.       *)
(***************************************************************************)
EXTENDS VfsCalls

\* The list of a spawn.
LEMMA MappingList ==
    ASSUME NEW m \in Mappings
    PROVE  Len(m) \in Nat /\ DOMAIN m = 1 .. Len(m) /\ \A i \in 1 .. Len(m) : m[i] \in Fd \X Fd
  <1>1. PICK n \in 0 .. 2 : m \in [1 .. n -> Fd \X ChildFds] BY DEF Mappings
  <1>2. ChildFds \in SUBSET Fd BY VfsAssumption DEF Fd
  <1>3. m \in Seq(Fd \X ChildFds) BY <1>1
  <1>4. Len(m) = n /\ DOMAIN m = 1 .. n BY <1>1, <1>3
  <1> QED BY <1>1, <1>2, <1>4

\* A task that does not exist yet has no descriptors that count.
LEMMA FreeTask ==
    ASSUME VfsInv, NEW c \in Task, status[c] = "Free"
    PROVE  c # itask /\ at[c] = User /\ \A fd \in Fd : Table[<<c, fd>>] = NoFd
  <1>1. c # itask BY NoTaskIsNone DEF VfsInv, Killing
  <1>2. at[c] = User BY DEF VfsInv, TaskOK
  <1> QED BY <1>1, <1>2, TableFacts DEF Live

\* The table when c is created with a table of its own.
LEMMA TableWith ==
    ASSUME VfsInv, NEW c \in Task, status[c] = "Free", NEW table \in [Fd -> Entry], itask' = itask,
           fds' = [fds EXCEPT ![c] = table], status' = [status EXCEPT ![c] = "Ready"]
    PROVE  /\ Table' = With(Table, c, table) /\ Table' \in Cells
           /\ fds' \in [Task -> [Fd -> Entry]] /\ \A u \in Task : u # c => fds'[u] = fds[u]
           /\ status' \in [Task -> {"Free", "Ready", "Blocked", "Dead"}]
           /\ \A u \in Task : u # c => status'[u] = status[u]
           /\ status'[c] = "Ready" /\ fds'[c] = table
  <1>1. Types BY DEF VfsInv
  <1>2. /\ fds' \in [Task -> [Fd -> Entry]] /\ \A u \in Task : u # c => fds'[u] = fds[u]
        /\ fds'[c] = table
    BY <1>1 DEF Types
  <1>3. /\ status' \in [Task -> {"Free", "Ready", "Blocked", "Dead"}] /\ status'[c] = "Ready"
        /\ \A u \in Task : u # c => status'[u] = status[u]
    BY <1>1 DEF Types
  <1>4. \A k \in Cell : k[1] \in Task /\ k[2] \in Fd BY DEF Cell
  <1>5. NoFd \in Entry BY DEF Entry
  <1>6. Table' \in Cells BY <1>2, <1>4, <1>5 DEF Table, Cells
  <1>7. ASSUME NEW k \in Cell PROVE Table'[k] = With(Table, c, table)[k]
    <2>1. CASE k[1] = c BY <1>2, <1>3, <2>1 DEF Table, Live, With
    <2>2. CASE k[1] # c
      <3>1. fds'[k[1]] = fds[k[1]] /\ status'[k[1]] = status[k[1]] BY <1>2, <1>3, <1>4, <2>2
      <3> QED BY <2>2, <3>1 DEF Table, Live, With
    <2> QED BY <2>1, <2>2
  <1>8. Table' = With(Table, c, table) BY <1>7 DEF Table, With
  <1> QED BY <1>2, <1>3, <1>6, <1>8

\* A step that makes at most the task c and disturbs nobody.
Others(c) == \A u \in Task : u # c => fds'[u] = fds[u] /\ status'[u] = status[u]
Made(c) == c \in Task => status[c] = "Free" /\ at[c] = User /\ c # itask /\ status'[c] = "Ready"
SafeBut(c) ==
    \A k \in Cell, u \in Task : k[1] # c /\ Safe(objects, Table[k], u) => Safe(objects', Table[k], u)
StaysDirty == \A o \in ObjectId : Dirty(objects, o) => Dirty(objects', o)
Tasks == fds' \in [Task -> [Fd -> Entry]] /\ status' \in [Task -> {"Free", "Ready", "Blocked", "Dead"}]

\* Steps that disturb no sleeper.
LEMMA CalmStep ==
    ASSUME VfsInv, UNCHANGED <<at, unsaved, idle>>, Tasks, NEW c, Others(c), Made(c),
           Good(objects', Table'), SafeBut(c), StaysDirty
    PROVE  VfsInv'
  <1> USE DEF Tasks, Others, Made, SafeBut, StaysDirty
  <1>1. Types /\ NoLostData BY Zenon DEF VfsInv
  <1>2. NoLostData' BY <1>1 DEF NoLostData, Dirty, Types, idle
  <1>3. ASSUME NEW u \in Task, status'[u] = "Blocked"
        PROVE  /\ status[u] = "Blocked" /\ fds'[u] = fds[u]
               /\ \A f \in Fd : Safe(objects, fds[u][f], u) => Safe(objects', fds[u][f], u)
    <2>1. status[u] = "Blocked" /\ u # c /\ fds'[u] = fds[u] BY <1>3
    <2>2. ASSUME NEW f \in Fd, Safe(objects, fds[u][f], u) PROVE Safe(objects', fds[u][f], u)
      <3> DEFINE k == <<u, f>>
      <3>1. k \in Cell /\ Table[k] = fds[u][f] /\ k[1] # c BY <2>1, TableFacts DEF Live
      <3> HIDE DEF k
      <3> QED BY <2>2, <3>1
    <2> QED BY <2>1, <2>2
  <1>4. unsaved' \in SUBSET ObjectId BY <1>1 DEF Types
  <1>5. itask # NoTask => status'[itask] = status[itask] BY <1>1 DEF Types
  <1>6. \A u \in Task : status'[u] = "Free" => status[u] = "Free" OBVIOUS
  <1>7. \A u \in Task : status'[u] = "Ready" => (Live(u) /\ fds'[u] = fds[u]) \/ at[u] = User BY DEF Live
  <1> QED BY Zenon, <1>2, <1>3, <1>4, <1>5, <1>6, <1>7, CallStep

\* spawn with a list of descriptors.
LEMMA SpawnKeeps ==
    ASSUME Basics, VfsInv, "dupmap" \notin Ops, NEW t \in Task, NEW c \in NextTask, NEW m \in Mappings,
           spawn_fds(t, c, m)
    PROVE  VfsInv'
  <1> DEFINE in == inherit_fds(t, m)
  <1>1. /\ status[t] = "Ready" /\ at[t] = User
        /\ \A i, j \in DOMAIN m : i # j => m[i][2] # m[j][2]
        /\ objects' = in.obj
        /\ fds' = IF in.ok THEN [fds EXCEPT ![c] = in.table] ELSE fds
        /\ status' = IF in.ok THEN [status EXCEPT ![c] = "Ready"] ELSE status
        /\ UNCHANGED <<at, unsaved, idle>>
    BY DEF spawn_fds, Calls
  <1>2. c \in Task /\ status[c] = "Free" /\ t # c BY <1>1 DEF NextTask
  <1>3. c # itask /\ at[c] = User /\ \A fd \in Fd : Table[<<c, fd>>] = NoFd BY <1>2, FreeTask
  <1>4. \A fd \in Fd : fds[t][fd] = Table[<<t, fd>>] BY <1>1, TableFacts DEF Live
  <1>5. Len(m) \in Nat /\ DOMAIN m = 1 .. Len(m) /\ \A i \in 1 .. Len(m) : m[i] \in Fd \X Fd BY MappingList
  <1>6. Types /\ Good(objects, Table) /\ fds \in [Task -> [Fd -> Entry]] BY DEF VfsInv, Types
  <1>7. Inherited(objects, Table, c, Fd, in) BY Zenon, <1>1, <1>2, <1>3, <1>4, <1>5, <1>6, InheritFds
  <1> HIDE DEF in
  <1>8. /\ in.ok \in BOOLEAN /\ in.table \in [Fd -> Entry]
        /\ in.ok => Good(in.obj, With(Table, c, in.table))
        /\ ~in.ok => Good(in.obj, Table)
        /\ \A k \in Cell, u \in Task : k[1] # c /\ Safe(objects, Table[k], u) => Safe(in.obj, Table[k], u)
        /\ \A o \in ObjectId : Dirty(objects, o) => Dirty(in.obj, o)
    BY <1>7 DEF Inherited
  <1>9. itask' = itask BY <1>1 DEF idle
  <1>10. CASE in.ok
    <2>1. /\ Table' = With(Table, c, in.table)
          /\ fds' \in [Task -> [Fd -> Entry]] /\ \A u \in Task : u # c => fds'[u] = fds[u]
          /\ status' \in [Task -> {"Free", "Ready", "Blocked", "Dead"}]
          /\ \A u \in Task : u # c => status'[u] = status[u]
          /\ status'[c] = "Ready"
      BY Zenon, <1>1, <1>2, <1>8, <1>9, <1>10, TableWith
    <2>2. Good(objects', Table') BY Zenon, <1>1, <1>8, <1>10, <2>1
    <2>3. Tasks /\ Others(c) /\ Made(c) BY Zenon, <1>2, <1>3, <2>1 DEF Tasks, Others, Made
    <2>4. SafeBut(c) BY Zenon, <1>1, <1>8 DEF SafeBut
    <2>5. StaysDirty BY Zenon, <1>1, <1>8 DEF StaysDirty
    <2> QED BY Zenon, <1>1, <2>2, <2>3, <2>4, <2>5, CalmStep
  <1>11. CASE ~in.ok
    <2>1. fds' = fds /\ status' = status BY <1>1, <1>11
    <2>2. Table' = Table BY <1>9, <2>1 DEF Table, Live
    <2>3. Good(objects', Table') BY <1>1, <1>8, <1>11, <2>2
    <2>4. Tasks /\ Others(NoTask) /\ Made(NoTask)
      BY Zenon, <1>6, <2>1, NoTaskIsNone DEF Types, Tasks, Others, Made
    <2>5. SafeBut(NoTask)
      <3>1. ASSUME NEW k \in Cell, NEW u \in Task, Safe(objects, Table[k], u) PROVE Safe(objects', Table[k], u)
        <4>1. k[1] # c
          <5>1. k[2] \in Fd /\ k = <<k[1], k[2]>> BY DEF Cell
          <5>2. k[1] = c => Table[k] = NoFd BY <1>3, <5>1
          <5> QED BY <3>1, <5>2 DEF Safe, NoFd
        <4> QED BY <1>1, <1>8, <3>1, <4>1
      <3> QED BY Zenon, <3>1 DEF SafeBut
    <2>6. StaysDirty BY Zenon, <1>1, <1>8 DEF StaysDirty
    <2> QED BY Zenon, <1>1, <2>3, <2>4, <2>5, <2>6, CalmStep
  <1> QED BY <1>8, <1>10, <1>11

\* A thread.
LEMMA ThreadKeeps ==
    ASSUME Basics, VfsInv, NEW t \in Task, NEW c \in NextTask, spawn_thread(t, c)
    PROVE  VfsInv'
  <1>1. /\ status[t] = "Ready" /\ objects' = inherit_all_fds(t)
        /\ fds' = [fds EXCEPT ![c] = fds[t]] /\ status' = [status EXCEPT ![c] = "Ready"]
        /\ UNCHANGED <<at, unsaved, idle>>
    BY DEF spawn_thread, Calls
  <1>2. c \in Task /\ status[c] = "Free" /\ t # c BY <1>1 DEF NextTask
  <1>3. c # itask /\ at[c] = User /\ \A fd \in Fd : Table[<<c, fd>>] = NoFd BY <1>2, FreeTask
  <1>4. \A fd \in Fd : fds[t][fd] = Table[<<t, fd>>] BY <1>1, TableFacts DEF Live
  <1>5. /\ Types /\ Good(objects, Table) /\ fds \in [Task -> [Fd -> Entry]] /\ fds[t] \in [Fd -> Entry]
    BY DEF VfsInv, Types
  <1>6. itask' = itask BY <1>1 DEF idle
  <1>7. /\ Table' = With(Table, c, fds[t]) /\ Table' \in Cells
        /\ fds' \in [Task -> [Fd -> Entry]] /\ \A u \in Task : u # c => fds'[u] = fds[u]
        /\ status' \in [Task -> {"Free", "Ready", "Blocked", "Dead"}]
        /\ \A u \in Task : u # c => status'[u] = status[u]
        /\ status'[c] = "Ready"
    BY Zenon, <1>1, <1>2, <1>5, <1>6, TableWith
  <1>8. \A k \in Cell : Table'[k] = IF k[1] = c THEN Table[<<t, k[2]>>] ELSE Table[k]
    <2>1. \A k \in Cell : k[2] \in Fd BY DEF Cell
    <2> QED BY <1>4, <1>7, <2>1 DEF With
  <1>9. /\ Good(objects', Table')
        /\ \A s \in Entry, u \in Task : Safe(objects, s, u) => Safe(objects', s, u)
        /\ \A o \in ObjectId : Dirty(objects, o) => Dirty(objects', o)
    <2> DEFINE f == Table'
               g == Table
               new == inherit_all_fds(t)
    <2>1. /\ f \in Cells /\ CopiedRow(g, t, c, f)
          /\ Good(objects, g) /\ EmptyRow(g, c) /\ OwnRow(g, t)
      BY Zenon, <1>3, <1>4, <1>5, <1>7, <1>8 DEF EmptyRow, OwnRow, CopiedRow
    <2> HIDE DEF f, g
    <2>2. /\ Good(new, f) /\ \A s \in Entry, u \in Task : Safe(objects, s, u) => Safe(new, s, u)
          /\ \A o \in ObjectId : Dirty(objects, o) => Dirty(new, o)
      BY Zenon, <1>2, <1>5, <2>1, CopyFds
    <2> QED BY <1>1, <2>2 DEF f
  <1>10. \A k \in Cell : Table[k] \in Entry BY TableFacts DEF Cells
  <1>11. Tasks /\ Others(c) /\ Made(c) BY Zenon, <1>2, <1>3, <1>7 DEF Tasks, Others, Made
  <1>12. SafeBut(c) BY Zenon, <1>9, <1>10 DEF SafeBut
  <1>13. StaysDirty BY Zenon, <1>9 DEF StaysDirty
  <1>14. Good(objects', Table') BY Zenon, <1>9
  <1> QED BY Zenon, <1>1, <1>11, <1>12, <1>13, <1>14, CalmStep

\* new is obj but for the fields of o that y has other values for: the counters
\* and the kind of the object are not among them.
Touches(obj, o, y, new) ==
    /\ new \in Objects /\ new[o] = y /\ \A p \in ObjectId : p # o => new[p] = obj[p]
    /\ y.refs = obj[o].refs /\ y.readers = obj[o].readers /\ y.writers = obj[o].writers /\ y.kind = obj[o].kind

\* A change of the data or the waiters of an object leaves the counters exact.
LEMMA TouchGood ==
    ASSUME NEW obj, NEW g, Good(obj, g), NEW o \in ObjectId, obj[o] # NoObject,
           NEW y, NEW new, Touches(obj, o, y, new)
    PROVE  Good(new, g)
  <1>1. \A p \in ObjectId : /\ new[p].refs = obj[p].refs /\ new[p].readers = obj[p].readers
                            /\ new[p].writers = obj[p].writers /\ new[p].kind = obj[p].kind
                            /\ (obj[p] = NoObject => new[p] = NoObject)
    <2>1. ASSUME NEW p \in ObjectId
          PROVE  /\ new[p].refs = obj[p].refs /\ new[p].readers = obj[p].readers
                 /\ new[p].writers = obj[p].writers /\ new[p].kind = obj[p].kind
                 /\ (obj[p] = NoObject => new[p] = NoObject)
      <3>1. CASE p = o BY <3>1 DEF Touches
      <3>2. CASE p # o
        <4>1. new[p] = obj[p] BY <3>2 DEF Touches
        <4> QED BY <4>1
      <3> QED BY <3>1, <3>2
    <2> QED BY <2>1
  <1>2. new \in Objects BY DEF Touches
  <1> QED BY <1>1, <1>2, SameCounts

\* A write to a pipe: the fields.
PipeWritten(obj, o, n, new) ==
    new = [obj EXCEPT ![o].len = @ + n, ![o].waiting_readers = IF n > 0 THEN {} ELSE @]

\* The pipe behind it.
PipeGrew(obj, o, n, new) ==
    LET x == obj[o]
        y == new[o]
    IN  /\ Touches(obj, o, y, new)
        /\ y.len = x.len + n /\ y.waiting_readers = (IF n > 0 THEN {} ELSE x.waiting_readers)
        /\ y.waiting_writers = x.waiting_writers /\ y.dirty = x.dirty

\* What pipe::write() does to the pipe.
LEMMA PipeWriteFields ==
    ASSUME NEW obj \in Objects, NEW o \in ObjectId, NEW n \in Nat, obj[o].len + n <= PIPE_SIZE,
           NEW new, PipeWritten(obj, o, n, new)
    PROVE  PipeGrew(obj, o, n, new)
  <1> DEFINE x == obj[o]
             y == [x EXCEPT !.len = x.len + n, !.waiting_readers = IF n > 0 THEN {} ELSE x.waiting_readers]
             r == IF n > 0 THEN {} ELSE x.waiting_readers
             l == x.len + n
             x1 == [x EXCEPT !.len = l]
             x2 == [x1 EXCEPT !.waiting_readers = r]
  <1>1. x \in AnyObject BY DEF Objects
  <1>2. new = [obj EXCEPT ![o] = y] BY Zenon, <1>1 DEF Objects, AnyObject, PipeWritten
  <1>3. y = x2 BY <1>1 DEF AnyObject
  <1>4. l \in 0 .. PIPE_SIZE /\ r \in SUBSET Task
    <2>1. x.len \in Nat /\ x.waiting_readers \in SUBSET Task BY <1>1, VfsAssumption DEF AnyObject
    <2> QED BY <2>1, VfsAssumption
  <1>5. /\ y.len = l /\ y.waiting_readers = r /\ y.waiting_writers = x.waiting_writers /\ y.dirty = x.dirty
        /\ y.refs = x.refs /\ y.readers = x.readers /\ y.writers = x.writers /\ y.kind = x.kind
    BY <1>1 DEF AnyObject
  <1>6. y \in AnyObject
    <2> HIDE DEF l, r, x, y
    <2>1. x1 \in AnyObject BY <1>1, <1>4 DEF AnyObject
    <2> HIDE DEF x1
    <2>2. x2 \in AnyObject BY <1>4, <2>1 DEF AnyObject
    <2> QED BY <1>3, <2>2
  <1> HIDE DEF y, x2
  <1>7. new \in Objects /\ new[o] = y /\ \A p \in ObjectId : p # o => new[p] = obj[p]
    BY <1>2, <1>6 DEF Objects
  <1>8. Touches(obj, o, y, new) BY <1>5, <1>7 DEF Touches
  <1>9. /\ Touches(obj, o, new[o], new)
        /\ new[o].len = x.len + n /\ new[o].waiting_readers = (IF n > 0 THEN {} ELSE x.waiting_readers)
        /\ new[o].waiting_writers = x.waiting_writers /\ new[o].dirty = x.dirty
    BY <1>5, <1>7, <1>8
  <1> QED BY Zenon, <1>9 DEF PipeGrew

\* A write to a buffered file: the fields.
FileWritten(obj, o, new) == new = [obj EXCEPT ![o].dirty = TRUE]

\* What a write to a buffered file does to its object.
LEMMA FileWriteFields ==
    ASSUME NEW obj \in Objects, NEW o \in ObjectId, NEW new, FileWritten(obj, o, new)
    PROVE  LET x == obj[o]
               y == new[o]
           IN  /\ Touches(obj, o, y, new) /\ y.dirty = TRUE /\ y.len = x.len
               /\ y.waiting_readers = x.waiting_readers /\ y.waiting_writers = x.waiting_writers
  <1> DEFINE x == obj[o]
             y == [x EXCEPT !.dirty = TRUE]
  <1>1. x \in AnyObject BY DEF Objects
  <1>2. new = [obj EXCEPT ![o] = y] BY <1>1 DEF Objects, AnyObject, FileWritten
  <1>3. y \in AnyObject
    <2> HIDE DEF x
    <2> QED BY Zenon, <1>1 DEF AnyObject
  <1>4. /\ y.len = x.len /\ y.waiting_readers = x.waiting_readers /\ y.waiting_writers = x.waiting_writers
        /\ y.dirty = TRUE
        /\ y.refs = x.refs /\ y.readers = x.readers /\ y.writers = x.writers /\ y.kind = x.kind
    BY <1>1 DEF AnyObject
  <1> HIDE DEF y
  <1>5. new \in Objects /\ new[o] = y /\ \A p \in ObjectId : p # o => new[p] = obj[p]
    BY <1>2, <1>3 DEF Objects
  <1>6. Touches(obj, o, y, new) BY <1>4, <1>5 DEF Touches
  <1>7. /\ Touches(obj, o, new[o], new) /\ new[o].dirty = TRUE /\ new[o].len = x.len
        /\ new[o].waiting_readers = x.waiting_readers /\ new[o].waiting_writers = x.waiting_writers
    BY <1>4, <1>5, <1>6
  <1> QED BY <1>7

\* vfs_write().
LEMMA WriteKeeps ==
    ASSUME Basics, VfsInv, NEW t \in Task, NEW fd \in Fd, NEW bytes \in 1 .. PIPE_SIZE, vfs_write(t, fd, bytes)
    PROVE  VfsInv'
  <1> DEFINE e == fds[t][fd]
             o == e.object
             x == objects[o]
             room == PIPE_SIZE - x.len
             n == IF bytes > room THEN room ELSE bytes
             y == objects'[o]
  <1>1. status[t] = "Ready" /\ at[t] = User /\ e # NoFd /\ UNCHANGED <<fds, at, idle>>
    BY DEF vfs_write, Calls
  <1>2. /\ Types /\ Good(objects, Table) /\ Killing /\ NoLostData /\ objects \in Objects
        /\ fds \in [Task -> [Fd -> Entry]] /\ status \in [Task -> {"Free", "Ready", "Blocked", "Dead"}]
    BY DEF VfsInv, Good, Types
  <1>3. <<t, fd>> \in Cell /\ Table[<<t, fd>>] = e BY <1>1, TableFacts DEF Live
  <1>4. o \in ObjectId /\ x # NoObject
    <2> HIDE DEF e
    <2> QED BY <1>1, <1>2, <1>3, ObjectBehind
  <1>5. x \in AnyObject BY <1>2, <1>4 DEF Objects
  <1>6. \A u \in Task : Live(u) => \A f \in Fd : fds[u][f] \in Entry BY <1>2
  <1>7. CASE /\ e.access = "File" /\ x.kind = "Writable" /\ objects' = [objects EXCEPT ![o].dirty = TRUE]
             /\ unsaved' = unsaved \cup {o} /\ UNCHANGED status
    <2>0. FileWritten(objects, o, objects') BY <1>7 DEF FileWritten
    <2> HIDE DEF o, e
    <2>1. /\ Touches(objects, o, y, objects') /\ y.dirty = TRUE /\ y.len = x.len
          /\ y.waiting_readers = x.waiting_readers /\ y.waiting_writers = x.waiting_writers
      BY Zenon, <1>2, <1>4, <2>0, FileWriteFields
    <2>2. Good(objects', Table) BY <1>2, <1>4, <2>1, TouchGood
    <2>3. Table' = Table BY <1>1, <1>7 DEF Table, Live, idle
    <2>4. ASSUME NEW s \in Entry, NEW u \in Task, Safe(objects, s, u) PROVE Safe(objects', s, u)
      <3>1. s.object \in ObjectId BY <2>4 DEF Safe, Entry, NoFd, LocalFd
      <3>2. CASE s.object = o BY <2>1, <2>4, <3>2 DEF Safe, Touches
      <3>3. CASE s.object # o
        <4>1. objects'[s.object] = objects[s.object] BY <2>1, <3>1, <3>3 DEF Touches
        <4> QED BY <2>4, <4>1 DEF Safe
      <3> QED BY <3>2, <3>3
    <2>5. NoLostData'
      <3>1. ASSUME NEW p \in unsaved' PROVE p \in icommits' \/ (objects'[p].kind = "Writable" /\ objects'[p].dirty)
        <4>1. CASE p = o BY <1>7, <2>1, <4>1 DEF Touches
        <4>2. CASE p # o
          <5>1. p \in unsaved /\ p \in ObjectId BY <1>2, <1>7, <4>2 DEF Types
          <5>2. objects'[p] = objects[p] BY <2>1, <4>2, <5>1 DEF Touches
          <5> QED BY <1>1, <1>2, <5>1, <5>2 DEF NoLostData, idle
        <4> QED BY <4>1, <4>2
      <3> QED BY <3>1 DEF NoLostData
    <2>6. unsaved' \in SUBSET ObjectId BY <1>2, <1>4, <1>7 DEF Types
    <2>7. Good(objects', Table') BY <2>2, <2>3
    <2>8. /\ fds' \in [Task -> [Fd -> Entry]] /\ fds' = fds
          /\ status' \in [Task -> {"Free", "Ready", "Blocked", "Dead"}] /\ status' = status
      BY <1>1, <1>2, <1>7
    <2>9. \A u \in Task, f \in Fd : Safe(objects, fds[u][f], u) => Safe(objects', fds[u][f], u)
      BY <1>2, <2>4
    <2>10. \A u \in Task : status'[u] = "Ready" => (Live(u) /\ fds'[u] = fds[u]) \/ at[u] = User
      BY <2>8 DEF Live
    <2>11. UNCHANGED <<at, idle>> BY <1>1
    <2> QED BY <2>5, <2>6, <2>7, <2>8, <2>9, <2>10, <2>11, CallStep
  <1>8. CASE e.access = "PipeWrite" /\ x.readers > 0 /\ PipeWrite(o, n) /\ UNCHANGED unsaved
    <2>1. x.len \in Nat /\ room \in Nat /\ n \in Nat /\ x.len + n <= PIPE_SIZE /\ (x.len = PIPE_SIZE => n = 0)
      <3>1. x.len \in 0 .. PIPE_SIZE BY <1>5 DEF AnyObject
      <3>2. \A l \in 0 .. PIPE_SIZE : PIPE_SIZE - l \in Nat /\ l + (PIPE_SIZE - l) = PIPE_SIZE BY VfsAssumption
      <3>3. room \in Nat /\ x.len + room = PIPE_SIZE /\ x.len \in Nat /\ bytes \in Nat BY <3>1, <3>2, VfsAssumption
      <3> HIDE DEF room, x
      <3>4. n \in Nat /\ n <= room BY <3>3
      <3> HIDE DEF n
      <3> QED BY <3>3, <3>4, VfsAssumption
    <2>2. /\ PipeWritten(objects, o, n, objects')
          /\ status' = IF n > 0 THEN Unblocked(x.waiting_readers) ELSE status
      BY Zenon, <1>8 DEF PipeWrite, PipeWritten
    <2> HIDE DEF o, e, n, room
    <2>3. /\ Touches(objects, o, y, objects')
          /\ y.len = x.len + n /\ y.waiting_readers = (IF n > 0 THEN {} ELSE x.waiting_readers)
          /\ y.waiting_writers = x.waiting_writers /\ y.dirty = x.dirty
      <3>1. PipeGrew(objects, o, n, objects') BY Zenon, <1>2, <1>4, <2>1, <2>2, PipeWriteFields
      <3> QED BY Zenon, <3>1 DEF PipeGrew
    <2>4. Good(objects', Table) BY <1>2, <1>4, <2>3, TouchGood
    <2> DEFINE S == IF n > 0 THEN x.waiting_readers ELSE {}
    <2>5. /\ status' \in [Task -> {"Free", "Ready", "Blocked", "Dead"}]
          /\ \A u \in Task : Woken(status'[u], S, u)
      <3>1. CASE n > 0 BY <1>2, <2>2, <3>1, Wakes
      <3>2. CASE ~(n > 0) BY <1>2, <2>2, <3>2 DEF Woken
      <3> QED BY Zenon, <3>1, <3>2
    <2>6. \A u \in Task : Live(u)' <=> Live(u) BY <1>2, <2>5 DEF Live, Woken
    <2>7. Table' = Table
      <3>1. \A k \in Cell : k[1] \in Task BY DEF Cell
      <3> QED BY <1>1, <2>6, <3>1 DEF Table, idle
    <2>8. ASSUME NEW u \in Task, NEW s \in Entry, status'[u] = "Blocked", Safe(objects, s, u) PROVE Safe(objects', s, u)
      <3>1. s.object \in ObjectId BY <2>8 DEF Safe, Entry, NoFd, LocalFd
      <3>2. CASE s.object = o
        <4>1. u \notin S BY <2>5, <2>8 DEF Woken
        <4>2. n = 0
          <5>1. CASE s.access = "PipeRead"
            <6>1. u \in x.waiting_readers BY <2>8, <3>2, <5>1 DEF Safe
            <6> QED BY <2>1, <4>1, <6>1
          <5>2. CASE s.access # "PipeRead"
            <6>1. x.len = PIPE_SIZE BY <2>8, <3>2, <5>2 DEF Safe
            <6> QED BY <2>1, <6>1
          <5> QED BY <5>1, <5>2
        <4>3. y.len = x.len /\ y.waiting_readers = x.waiting_readers BY <2>1, <2>3, <4>2
        <4> QED BY <2>3, <2>8, <3>2, <4>3 DEF Safe, Touches
      <3>3. CASE s.object # o
        <4>1. objects'[s.object] = objects[s.object] BY <2>3, <3>1, <3>3 DEF Touches
        <4> QED BY <2>8, <4>1 DEF Safe
      <3> QED BY <3>2, <3>3
    <2>9. NoLostData'
      <3>1. ASSUME NEW p \in unsaved' PROVE p \in icommits' \/ (objects'[p].kind = "Writable" /\ objects'[p].dirty)
        <4>1. p \in unsaved /\ p \in ObjectId BY <1>2, <1>8 DEF Types
        <4>2. objects'[p].kind = objects[p].kind /\ objects'[p].dirty = objects[p].dirty BY <2>3, <4>1 DEF Touches
        <4> QED BY <1>1, <1>2, <4>1, <4>2 DEF NoLostData, idle
      <3> QED BY <3>1 DEF NoLostData
    <2>10. unsaved' \in SUBSET ObjectId BY <1>2, <1>8 DEF Types
    <2>11. Good(objects', Table') BY <2>4, <2>7
    <2>12. /\ fds' \in [Task -> [Fd -> Entry]] /\ fds' = fds BY <1>1, <1>2
    <2>13. \A u \in Task : status'[u] = "Ready" => (Live(u) /\ fds'[u] = fds[u]) \/ at[u] = User
      BY <2>6, <2>12 DEF Live
    <2>14. \A u \in Task : status'[u] = "Free" => status[u] = "Free" BY <2>5 DEF Woken
    <2>15. itask # NoTask => status'[itask] = status[itask] BY <1>2, <2>5 DEF Killing, Types, Woken
    <2>16. ASSUME NEW u \in Task, status'[u] = "Blocked"
           PROVE  /\ status[u] = "Blocked" /\ fds'[u] = fds[u]
                  /\ \A f \in Fd : Safe(objects, fds[u][f], u) => Safe(objects', fds[u][f], u)
      BY <1>2, <2>5, <2>8, <2>12, <2>16 DEF Woken
    <2>17. UNCHANGED <<at, idle>> BY <1>1
    <2> QED BY Zenon, <2>5, <2>9, <2>10, <2>11, <2>12, <2>13, <2>14, <2>15, <2>16, <2>17, CallStep
  <1> QED BY Zenon, <1>7, <1>8 DEF vfs_write

\* A step in which t moves to another place, or stays at one.
LEMMA MoveStep ==
    ASSUME VfsInv, NEW t \in Task, UNCHANGED <<fds, unsaved, idle>>, at' \in [Task -> Place],
           status' \in [Task -> {"Free", "Ready", "Blocked", "Dead"}],
           Good(objects', Table), \A o \in ObjectId : Dirty(objects, o) => Dirty(objects', o),
           \A u \in Task : Live(u)' <=> Live(u),
           \A u \in Task : (status'[u] = "Dead") <=> (status[u] = "Dead"),
           TaskOK(t)',
           \A u \in Task : u # t => at'[u] = at[u],
           \A u \in Task : u # t /\ status'[u] = "Blocked" =>
             /\ status[u] = "Blocked"
             /\ \A fd \in Fd : Safe(objects, fds[u][fd], u) => Safe(objects', fds[u][fd], u)
    PROVE  VfsInv'
  <1> USE DEF idle
  <1>1. Types /\ Killing /\ NoLostData BY Zenon DEF VfsInv
  <1>2. Types' BY <1>1 DEF Types
  <1>3. Killing' BY <1>1 DEF Killing, Types
  <1>4. ASSUME NEW u \in Task, u # t PROVE TaskOK(u)'
    <2>1. TaskOK(u) BY Zenon DEF VfsInv
    <2>2. status'[u] = "Free" => status[u] = "Free" BY <1>1, <1>2 DEF Types, Live
    <2>3. status'[u] = "Ready" => Live(u) /\ fds'[u] = fds[u] BY DEF Live
    <2> QED BY Zenon, <1>1, <1>4, <2>1, <2>2, <2>3, TaskStays
  <1>5. NoLostData' BY Zenon, <1>1 DEF NoLostData, Dirty, Types
  <1>6. Table' = Table
    <2>1. \A k \in Cell : k[1] \in Task BY Zenon DEF Cell
    <2> QED BY Zenon, <2>1 DEF Table
  <1>7. Good(objects', Table') BY Zenon, <1>6
  <1> QED BY <1>2, <1>3, <1>4, <1>5, <1>7 DEF VfsInv

\* A read takes n bytes and sends the writers off: the fields.
PipeTaken(obj, o, n, new) == new = [obj EXCEPT ![o].len = @ - n, ![o].waiting_writers = {}]

\* What a successful pass of the pipe reader does to the pipe.
LEMMA PipeTakenFields ==
    ASSUME NEW obj \in Objects, NEW o \in ObjectId, NEW n \in Nat, n <= obj[o].len,
           NEW new, PipeTaken(obj, o, n, new)
    PROVE  LET x == obj[o]
               y == new[o]
           IN  Touches(obj, o, y, new) /\ y.dirty = x.dirty
  <1> DEFINE x == obj[o]
             y == [x EXCEPT !.len = x.len - n, !.waiting_writers = {}]
             l == x.len - n
             x1 == [x EXCEPT !.len = l]
             x2 == [x1 EXCEPT !.waiting_writers = {}]
  <1>1. x \in AnyObject BY DEF Objects
  <1>2. new = [obj EXCEPT ![o] = y] BY Zenon, <1>1 DEF Objects, AnyObject, PipeTaken
  <1>3. y = x2 BY <1>1 DEF AnyObject
  <1>4. l \in 0 .. PIPE_SIZE
    <2>1. x.len \in 0 .. PIPE_SIZE BY <1>1 DEF AnyObject
    <2> QED BY <2>1, VfsAssumption
  <1>5. /\ y.dirty = x.dirty
        /\ y.refs = x.refs /\ y.readers = x.readers /\ y.writers = x.writers /\ y.kind = x.kind
    BY <1>1 DEF AnyObject
  <1>6. y \in AnyObject
    <2> HIDE DEF l, x, y
    <2>1. x1 \in AnyObject BY <1>1, <1>4 DEF AnyObject
    <2> HIDE DEF x1
    <2>2. x2 \in AnyObject BY <1>4, <2>1 DEF AnyObject
    <2> QED BY <1>3, <2>2
  <1> HIDE DEF y, x2
  <1>7. new \in Objects /\ new[o] = y /\ \A p \in ObjectId : p # o => new[p] = obj[p]
    BY <1>2, <1>6 DEF Objects
  <1>8. Touches(obj, o, y, new) BY <1>5, <1>7 DEF Touches
  <1>9. Touches(obj, o, new[o], new) /\ new[o].dirty = x.dirty BY <1>5, <1>7, <1>8
  <1> QED BY <1>9

\* A reader registers: the fields.
ReaderAdded(obj, o, t, new) == new = [obj EXCEPT ![o].waiting_readers = @ \cup {t}]

\* The pipe behind it.
ReaderIn(obj, o, t, new) ==
    LET x == obj[o]
        y == new[o]
    IN  /\ Touches(obj, o, y, new) /\ y.dirty = x.dirty /\ y.len = x.len
        /\ y.waiting_readers = x.waiting_readers \cup {t} /\ y.waiting_writers = x.waiting_writers

\* What an empty pass of the pipe reader does to the pipe.
LEMMA ReaderAddedFields ==
    ASSUME NEW obj \in Objects, NEW o \in ObjectId, NEW t \in Task, NEW new, ReaderAdded(obj, o, t, new)
    PROVE  ReaderIn(obj, o, t, new)
  <1> DEFINE x == obj[o]
             y == [x EXCEPT !.waiting_readers = x.waiting_readers \cup {t}]
             r == x.waiting_readers \cup {t}
  <1>1. x \in AnyObject BY DEF Objects
  <1>2. new = [obj EXCEPT ![o] = y] BY <1>1 DEF Objects, AnyObject, ReaderAdded
  <1>4. r \in SUBSET Task
    <2>1. x.waiting_readers \in SUBSET Task BY <1>1 DEF AnyObject
    <2> QED BY <2>1
  <1>5. /\ y.dirty = x.dirty /\ y.len = x.len /\ y.waiting_readers = r /\ y.waiting_writers = x.waiting_writers
        /\ y.refs = x.refs /\ y.readers = x.readers /\ y.writers = x.writers /\ y.kind = x.kind
    BY <1>1 DEF AnyObject
  <1>6. y \in AnyObject
    <2>1. y = [x EXCEPT !.waiting_readers = r] OBVIOUS
    <2> HIDE DEF r, x, y
    <2> QED BY <1>1, <1>4, <2>1 DEF AnyObject
  <1> HIDE DEF y
  <1>7. new \in Objects /\ new[o] = y /\ \A p \in ObjectId : p # o => new[p] = obj[p]
    BY <1>2, <1>6 DEF Objects
  <1>8. Touches(obj, o, y, new) BY <1>5, <1>7 DEF Touches
  <1>9. /\ Touches(obj, o, new[o], new) /\ new[o].dirty = x.dirty /\ new[o].len = x.len
        /\ new[o].waiting_readers = x.waiting_readers \cup {t} /\ new[o].waiting_writers = x.waiting_writers
    BY <1>5, <1>7, <1>8
  <1> QED BY Zenon, <1>9 DEF ReaderIn

\* Touching an object keeps dirty data if it keeps the flag.
LEMMA TouchDirty ==
    ASSUME NEW obj, NEW o \in ObjectId, NEW y, NEW new, Touches(obj, o, y, new), y.dirty = obj[o].dirty
    PROVE  \A p \in ObjectId : Dirty(obj, p) => Dirty(new, p)
  BY DEF Touches, Dirty

\* One pass of vfs_read_blocking().
LEMMA ReadPassKeeps ==
    ASSUME Basics, VfsInv, NEW t \in Task, NEW fd \in Fd, NEW want \in 1 .. PIPE_SIZE, status[t] = "Ready",
           fds[t][fd].access = "PipeRead", PipeReadPass(t, fd, want), UNCHANGED <<fds, unsaved, idle>>
    PROVE  VfsInv'
  <1> DEFINE e == fds[t][fd]
             o == e.object
             x == objects[o]
             n == IF want > x.len THEN x.len ELSE want
             y == objects'[o]
  <1>1. /\ Types /\ Good(objects, Table) /\ objects \in Objects
        /\ fds \in [Task -> [Fd -> Entry]] /\ status \in [Task -> {"Free", "Ready", "Blocked", "Dead"}]
        /\ at \in [Task -> Place]
    BY DEF VfsInv, Good, Types
  <1>2. <<t, fd>> \in Cell /\ Table[<<t, fd>>] = e /\ e # NoFd BY TableFacts DEF Live, NoFd
  <1>3. o \in ObjectId /\ x # NoObject
    <2> HIDE DEF e
    <2> QED BY <1>1, <1>2, ObjectBehind
  <1>4. x \in AnyObject /\ x.len \in Nat
    <2>1. x \in AnyObject BY <1>1, <1>3 DEF Objects
    <2> HIDE DEF x
    <2>2. x.len \in 0 .. PIPE_SIZE BY <2>1 DEF AnyObject
    <2> QED BY <2>1, <2>2, VfsAssumption
  <1>5. User \in Place /\ <<"read", fd>> \in Place BY DEF Place
  <1>6. CASE /\ x.len > 0 /\ objects' = [objects EXCEPT ![o].len = @ - n, ![o].waiting_writers = {}]
             /\ status' = Unblocked(x.waiting_writers) /\ at' = [at EXCEPT ![t] = User]
    <2>1. PipeTaken(objects, o, n, objects') BY <1>6 DEF PipeTaken
    <2>2. n \in Nat /\ n <= x.len BY <1>4
    <2> HIDE DEF o, e, n
    <2>3. Touches(objects, o, y, objects') /\ y.dirty = x.dirty BY Zenon, <1>1, <1>3, <2>1, <2>2, PipeTakenFields
    <2>4. Good(objects', Table) BY <1>1, <1>3, <2>3, TouchGood
    <2>5. \A p \in ObjectId : Dirty(objects, p) => Dirty(objects', p) BY <1>3, <2>3, TouchDirty
    <2>6. /\ status' \in [Task -> {"Free", "Ready", "Blocked", "Dead"}]
          /\ \A u \in Task : Woken(status'[u], x.waiting_writers, u)
      BY <1>1, <1>6, Wakes
    <2>7. \A u \in Task : Live(u)' <=> Live(u) BY <1>1, <2>6 DEF Live, Woken
    <2>8. /\ at' \in [Task -> Place] /\ at'[t] = User /\ \A u \in Task : u # t => at'[u] = at[u]
      BY <1>1, <1>5, <1>6
    <2>9. TaskOK(t)'
      <3>1. status'[t] # "Blocked" BY <2>6 DEF Woken
      <3>2. at'[t][1] # "read" /\ at'[t][1] # "poll" BY <1>5, <2>8, Places
      <3> QED BY <2>8, <3>1, <3>2 DEF TaskOK
    <2>10. ASSUME NEW u \in Task, status'[u] = "Blocked", NEW s \in Entry, Safe(objects, s, u)
           PROVE  Safe(objects', s, u)
      <3>1. s.object \in ObjectId BY <2>10 DEF Safe, Entry, NoFd, LocalFd
      <3>2. u \notin x.waiting_writers BY <2>6, <2>10 DEF Woken
      <3>3. s.object # o BY <1>4, <1>6, <2>10, <3>2 DEF Safe
      <3>4. objects'[s.object] = objects[s.object] BY <2>3, <3>1, <3>3 DEF Touches
      <3> QED BY <2>10, <3>4 DEF Safe
    <2>11. ASSUME NEW u \in Task, u # t, status'[u] = "Blocked"
           PROVE  /\ status[u] = "Blocked"
                  /\ \A f \in Fd : Safe(objects, fds[u][f], u) => Safe(objects', fds[u][f], u)
      BY <1>1, <2>6, <2>10, <2>11 DEF Woken
    <2>12. \A u \in Task : (status'[u] = "Dead") <=> (status[u] = "Dead") BY <2>6 DEF Woken
    <2> QED BY Zenon, <2>4, <2>5, <2>6, <2>7, <2>8, <2>9, <2>11, <2>12, MoveStep
  <1>7. CASE /\ x.len = 0 /\ x.writers = 0 /\ at' = [at EXCEPT ![t] = User] /\ UNCHANGED <<objects, status>>
    <2>1. /\ at' \in [Task -> Place] /\ at'[t] = User /\ \A u \in Task : u # t => at'[u] = at[u]
      BY <1>1, <1>5, <1>7
    <2>2. TaskOK(t)'
      <3>1. at'[t][1] # "read" /\ at'[t][1] # "poll" BY <1>5, <2>1, Places
      <3> QED BY Zenon, <1>7, <2>1, <3>1 DEF TaskOK
    <2>3. \A u \in Task : Live(u)' <=> Live(u) BY <1>7 DEF Live
    <2>4. /\ Good(objects', Table) /\ objects' = objects /\ status' = status
          /\ status' \in [Task -> {"Free", "Ready", "Blocked", "Dead"}]
      BY <1>1, <1>7
    <2> QED BY Zenon, <2>1, <2>2, <2>3, <2>4, MoveStep
  <1>8. CASE /\ x.len = 0 /\ x.writers > 0 /\ objects' = [objects EXCEPT ![o].waiting_readers = @ \cup {t}]
             /\ status' = [status EXCEPT ![t] = "Blocked"] /\ at' = [at EXCEPT ![t] = <<"read", fd>>]
    <2>1. ReaderAdded(objects, o, t, objects') BY <1>8 DEF ReaderAdded
    <2> HIDE DEF o, e
    <2>2. /\ Touches(objects, o, y, objects') /\ y.dirty = x.dirty /\ y.len = x.len
          /\ y.waiting_readers = x.waiting_readers \cup {t} /\ y.waiting_writers = x.waiting_writers
      <3>1. ReaderIn(objects, o, t, objects') BY Zenon, <1>1, <1>3, <2>1, ReaderAddedFields
      <3> QED BY Zenon, <3>1 DEF ReaderIn
    <2>3. Good(objects', Table) BY <1>1, <1>3, <2>2, TouchGood
    <2>4. \A p \in ObjectId : Dirty(objects, p) => Dirty(objects', p) BY <1>3, <2>2, TouchDirty
    <2>5. /\ status' \in [Task -> {"Free", "Ready", "Blocked", "Dead"}] /\ status'[t] = "Blocked"
          /\ \A u \in Task : u # t => status'[u] = status[u]
      BY <1>1, <1>8
    <2>6. \A u \in Task : Live(u)' <=> Live(u) BY <2>5 DEF Live
    <2>7. /\ at' \in [Task -> Place] /\ at'[t] = <<"read", fd>> /\ \A u \in Task : u # t => at'[u] = at[u]
      BY <1>1, <1>5, <1>8
    <2>8. ASSUME NEW u \in Task, NEW s \in Entry, Safe(objects, s, u) PROVE Safe(objects', s, u)
      <3>1. s.object \in ObjectId BY <2>8 DEF Safe, Entry, NoFd, LocalFd
      <3>2. CASE s.object = o BY <2>2, <2>8, <3>2 DEF Safe, Touches
      <3>3. CASE s.object # o
        <4>1. objects'[s.object] = objects[s.object] BY <2>2, <3>1, <3>3 DEF Touches
        <4> QED BY Zenon, <2>8, <4>1 DEF Safe
      <3> QED BY <3>2, <3>3
    <2>9. TaskOK(t)'
      <3>1. Safe(objects', e, t) BY Zenon, <1>8, <2>2 DEF Safe, Touches, o, e
      <3>2. at'[t][1] = "read" /\ at'[t][2] = fd BY <2>7
      <3>3. Waited(t)' = {fd} BY <3>2 DEF Waited
      <3> QED BY <2>5, <3>1, <3>2, <3>3 DEF TaskOK, e
    <2>10. \A u \in Task : u # t /\ status'[u] = "Blocked" =>
             /\ status[u] = "Blocked"
             /\ \A f \in Fd : Safe(objects, fds[u][f], u) => Safe(objects', fds[u][f], u)
      BY <1>1, <2>5, <2>8
    <2>11. \A u \in Task : (status'[u] = "Dead") <=> (status[u] = "Dead") BY <2>5
    <2> QED BY Zenon, <2>3, <2>4, <2>5, <2>6, <2>7, <2>9, <2>10, <2>11, MoveStep
  <1> QED BY Zenon, <1>6, <1>7, <1>8 DEF PipeReadPass

\* new differs from obj only in what the objects know of t as a waiter.
Alike(obj, new, t) ==
    /\ new \in Objects
    /\ \A o \in ObjectId :
         LET x == obj[o]
             y == new[o]
         IN  /\ y.refs = x.refs /\ y.readers = x.readers /\ y.writers = x.writers /\ y.kind = x.kind
             /\ y.len = x.len /\ y.dirty = x.dirty /\ (x = NoObject => y = NoObject)
             /\ \A u \in Task : u # t => /\ u \in x.waiting_readers => u \in y.waiting_readers
                                         /\ u \in x.waiting_writers => u \in y.waiting_writers

\* Registering or unregistering t disturbs no counter, no data and no other task
\* (register_poll_waiters, unregister_poll_waiters).
LEMMA AlikeKeeps ==
    ASSUME NEW obj, NEW g, Good(obj, g), NEW t, NEW new, Alike(obj, new, t)
    PROVE  /\ Good(new, g)
           /\ \A o \in ObjectId : Dirty(obj, o) => Dirty(new, o)
           /\ \A s \in Entry, u \in Task : u # t /\ Safe(obj, s, u) => Safe(new, s, u)
  <1>1. \A o \in ObjectId : /\ new[o].refs = obj[o].refs /\ new[o].readers = obj[o].readers
                            /\ new[o].writers = obj[o].writers /\ new[o].kind = obj[o].kind
                            /\ (obj[o] = NoObject => new[o] = NoObject)
    BY DEF Alike
  <1>2. new \in Objects BY DEF Alike
  <1>3. Good(new, g) BY <1>1, <1>2, SameCounts
  <1>4. \A o \in ObjectId : Dirty(obj, o) => Dirty(new, o) BY DEF Alike, Dirty
  <1>5. ASSUME NEW s \in Entry, NEW u \in Task, u # t, Safe(obj, s, u) PROVE Safe(new, s, u)
    <2>1. s.object \in ObjectId BY <1>5 DEF Safe, Entry, NoFd, LocalFd
    <2> QED BY <1>5, <2>1 DEF Safe, Alike
  <1> QED BY <1>3, <1>4, <1>5

\* Two such changes for one task are one.
LEMMA AlikeTwice ==
    ASSUME NEW a, NEW b, NEW c, NEW t, Alike(a, b, t), Alike(b, c, t)
    PROVE  Alike(a, c, t)
  BY DEF Alike

\* y is x with other waiters.
WaitersAre(x, r, w, y) == y = [x EXCEPT !.waiting_readers = r, !.waiting_writers = w]

\* The fields of an object after a change of its waiters.
LEMMA WaitersFields ==
    ASSUME NEW x \in AnyObject, NEW r \in SUBSET Task, NEW w \in SUBSET Task,
           NEW y, WaitersAre(x, r, w, y)
    PROVE  /\ y \in AnyObject /\ y.waiting_readers = r /\ y.waiting_writers = w
           /\ y.refs = x.refs /\ y.readers = x.readers /\ y.writers = x.writers /\ y.kind = x.kind
           /\ y.len = x.len /\ y.dirty = x.dirty
  <1> DEFINE x1 == [x EXCEPT !.waiting_readers = r]
             x2 == [x1 EXCEPT !.waiting_writers = w]
  <1>1. y = x2 BY DEF AnyObject, WaitersAre
  <1>2. x1 \in AnyObject BY DEF AnyObject
  <1>3. x2 \in AnyObject
    <2> HIDE DEF x1
    <2> QED BY <1>2 DEF AnyObject
  <1>4. /\ y.waiting_readers = r /\ y.waiting_writers = w
        /\ y.refs = x.refs /\ y.readers = x.readers /\ y.writers = x.writers /\ y.kind = x.kind
        /\ y.len = x.len /\ y.dirty = x.dirty
    BY DEF AnyObject, WaitersAre
  <1> HIDE DEF x2
  <1> QED BY <1>1, <1>3, <1>4

\* register_poll_waiters().
LEMMA RegisterAlike ==
    ASSUME NEW obj \in Objects, NEW t \in Task, NEW F \in SUBSET Fd, NEW E
    PROVE  /\ Alike(obj, Registered(obj, t, F, E), t)
           /\ \A fd \in F : fds[t][fd].object \in ObjectId /\ obj[fds[t][fd].object] # NoObject =>
                /\ Registers(t, fd, E, "PipeRead", "READ") =>
                      t \in Registered(obj, t, F, E)[fds[t][fd].object].waiting_readers
                /\ Registers(t, fd, E, "PipeWrite", "WRITE") =>
                      t \in Registered(obj, t, F, E)[fds[t][fd].object].waiting_writers
  <1> DEFINE R == {fds[t][fd].object : fd \in {f \in F : Registers(t, f, E, "PipeRead", "READ")}}
             W == {fds[t][fd].object : fd \in {f \in F : Registers(t, f, E, "PipeWrite", "WRITE")}}
             r(o) == IF o \in R THEN obj[o].waiting_readers \cup {t} ELSE obj[o].waiting_readers
             w(o) == IF o \in W THEN obj[o].waiting_writers \cup {t} ELSE obj[o].waiting_writers
             y(o) == [obj[o] EXCEPT !.waiting_readers = r(o), !.waiting_writers = w(o)]
             new == Registered(obj, t, F, E)
  <1>1. \A o \in ObjectId : obj[o] \in AnyObject BY DEF Objects
  <1>2. new = [o \in ObjectId |-> IF obj[o] = NoObject THEN NoObject ELSE y(o)]
    BY <1>1 DEF Registered, AnyObject
  <1>3. \A fd \in F : /\ Registers(t, fd, E, "PipeRead", "READ") => fds[t][fd].object \in R
                      /\ Registers(t, fd, E, "PipeWrite", "WRITE") => fds[t][fd].object \in W
    OBVIOUS
  <1> HIDE DEF R, W, new
  <1>4. ASSUME NEW o \in ObjectId
        PROVE  /\ new[o] \in AnyObject
               /\ new[o].refs = obj[o].refs /\ new[o].readers = obj[o].readers
               /\ new[o].writers = obj[o].writers /\ new[o].kind = obj[o].kind
               /\ new[o].len = obj[o].len /\ new[o].dirty = obj[o].dirty
               /\ obj[o] = NoObject => new[o] = NoObject
               /\ obj[o].waiting_readers \subseteq new[o].waiting_readers
               /\ obj[o].waiting_writers \subseteq new[o].waiting_writers
               /\ obj[o] # NoObject /\ o \in R => t \in new[o].waiting_readers
               /\ obj[o] # NoObject /\ o \in W => t \in new[o].waiting_writers
    <2>1. CASE obj[o] = NoObject
      <3>1. new[o] = obj[o] BY Zenon, <1>2, <2>1
      <3> QED BY Zenon, <1>1, <2>1, <3>1
    <2>2. CASE obj[o] # NoObject
      <3>1. new[o] = y(o) BY Zenon, <1>2, <2>2
      <3>2. r(o) \in SUBSET Task /\ w(o) \in SUBSET Task
        <4>1. obj[o].waiting_readers \in SUBSET Task /\ obj[o].waiting_writers \in SUBSET Task BY <1>1 DEF AnyObject
        <4> QED BY <4>1
      <3>3. /\ y(o) \in AnyObject /\ y(o).waiting_readers = r(o) /\ y(o).waiting_writers = w(o)
            /\ y(o).refs = obj[o].refs /\ y(o).readers = obj[o].readers /\ y(o).writers = obj[o].writers
            /\ y(o).kind = obj[o].kind /\ y(o).len = obj[o].len /\ y(o).dirty = obj[o].dirty
        <4> DEFINE x == obj[o]
                   a == r(o)
                   b == w(o)
                   z == y(o)
        <4>1. WaitersAre(x, a, b, z) BY DEF WaitersAre
        <4>2. x \in AnyObject /\ a \in SUBSET Task /\ b \in SUBSET Task BY <1>1, <3>2
        <4> HIDE DEF x, a, b, z
        <4>3. /\ z \in AnyObject /\ z.waiting_readers = a /\ z.waiting_writers = b
              /\ z.refs = x.refs /\ z.readers = x.readers /\ z.writers = x.writers /\ z.kind = x.kind
              /\ z.len = x.len /\ z.dirty = x.dirty
          BY <4>1, <4>2, WaitersFields
        <4> QED BY <4>3 DEF x, a, b, z
      <3>4. /\ obj[o].waiting_readers \subseteq r(o) /\ obj[o].waiting_writers \subseteq w(o)
            /\ o \in R => t \in r(o)
            /\ o \in W => t \in w(o)
        OBVIOUS
      <3> HIDE DEF r, w, y
      <3> QED BY <2>2, <3>1, <3>3, <3>4
    <2> QED BY <2>1, <2>2
  <1>5. new \in Objects
    <2>1. new = [o \in ObjectId |-> new[o]] BY Zenon, <1>2
    <2> HIDE DEF y
    <2> QED BY <1>4, <2>1 DEF Objects
  <1>6. Alike(obj, new, t) BY <1>4, <1>5 DEF Alike
  <1>7. ASSUME NEW fd \in F, fds[t][fd].object \in ObjectId, obj[fds[t][fd].object] # NoObject
        PROVE  /\ Registers(t, fd, E, "PipeRead", "READ") => t \in new[fds[t][fd].object].waiting_readers
               /\ Registers(t, fd, E, "PipeWrite", "WRITE") => t \in new[fds[t][fd].object].waiting_writers
    BY Zenon, <1>3, <1>4, <1>7
  <1> QED BY Zenon, <1>6, <1>7 DEF new

\* unregister_poll_waiters().
LEMMA UnregisterAlike ==
    ASSUME Basics, VfsInv, NEW t \in Task, Live(t), NEW F \in SUBSET Fd
    PROVE  Alike(objects, Unregistered(t, F), t)
  <1> DEFINE T == {fds[t][fd].object : fd \in {f \in F : fds[t][f] # NoFd}}
             r(o) == objects[o].waiting_readers \ {t}
             w(o) == objects[o].waiting_writers \ {t}
             y(o) == [objects[o] EXCEPT !.waiting_readers = r(o), !.waiting_writers = w(o)]
             new == Unregistered(t, F)
  <1>1. Good(objects, Table) /\ objects \in Objects BY DEF VfsInv, Good
  <1>2. \A o \in ObjectId : objects[o] \in AnyObject BY <1>1 DEF Objects
  <1>3. new = [o \in ObjectId |-> IF o \in T THEN y(o) ELSE objects[o]] BY <1>2 DEF Unregistered, AnyObject
  <1>4. \A o \in T : objects[o] # NoObject
    <2>1. ASSUME NEW fd \in F, fds[t][fd] # NoFd PROVE objects[fds[t][fd].object] # NoObject
      <3>1. <<t, fd>> \in Cell /\ Table[<<t, fd>>] = fds[t][fd] BY TableFacts
      <3> QED BY <1>1, <2>1, <3>1, ObjectBehind
    <2> QED BY <2>1
  <1> HIDE DEF T, new
  <1>5. ASSUME NEW o \in ObjectId
        PROVE  /\ new[o] \in AnyObject
               /\ new[o].refs = objects[o].refs /\ new[o].readers = objects[o].readers
               /\ new[o].writers = objects[o].writers /\ new[o].kind = objects[o].kind
               /\ new[o].len = objects[o].len /\ new[o].dirty = objects[o].dirty
               /\ objects[o] = NoObject => new[o] = NoObject
               /\ objects[o].waiting_readers \ {t} \subseteq new[o].waiting_readers
               /\ objects[o].waiting_writers \ {t} \subseteq new[o].waiting_writers
    <2>1. CASE o \notin T
      <3>1. new[o] = objects[o] BY Zenon, <1>3, <2>1
      <3> QED BY <1>2, <2>1, <3>1
    <2>2. CASE o \in T
      <3>1. new[o] = y(o) BY Zenon, <1>3, <2>2
      <3>2. r(o) \in SUBSET Task /\ w(o) \in SUBSET Task
        <4>1. objects[o].waiting_readers \in SUBSET Task /\ objects[o].waiting_writers \in SUBSET Task BY <1>2 DEF AnyObject
        <4> QED BY <4>1
      <3>3. /\ y(o) \in AnyObject /\ y(o).waiting_readers = r(o) /\ y(o).waiting_writers = w(o)
            /\ y(o).refs = objects[o].refs /\ y(o).readers = objects[o].readers /\ y(o).writers = objects[o].writers
            /\ y(o).kind = objects[o].kind /\ y(o).len = objects[o].len /\ y(o).dirty = objects[o].dirty
        <4> DEFINE x == objects[o]
                   a == r(o)
                   b == w(o)
                   z == y(o)
        <4>1. WaitersAre(x, a, b, z) BY DEF WaitersAre
        <4>2. x \in AnyObject /\ a \in SUBSET Task /\ b \in SUBSET Task BY <1>2, <3>2
        <4> HIDE DEF x, a, b, z
        <4>3. /\ z \in AnyObject /\ z.waiting_readers = a /\ z.waiting_writers = b
              /\ z.refs = x.refs /\ z.readers = x.readers /\ z.writers = x.writers /\ z.kind = x.kind
              /\ z.len = x.len /\ z.dirty = x.dirty
          BY <4>1, <4>2, WaitersFields
        <4> QED BY <4>3 DEF x, a, b, z
      <3>4. objects[o] # NoObject BY <1>4, <2>2
      <3>5. r(o) = objects[o].waiting_readers \ {t} /\ w(o) = objects[o].waiting_writers \ {t} OBVIOUS
      <3> HIDE DEF r, w, y
      <3> QED BY <3>1, <3>3, <3>4, <3>5
    <2> QED BY <2>1, <2>2
  <1>6. new \in Objects
    <2>1. new = [o \in ObjectId |-> new[o]] BY Zenon, <1>3
    <2> HIDE DEF y
    <2> QED BY <1>5, <2>1 DEF Objects
  <1>7. Alike(objects, new, t) BY <1>5, <1>6 DEF Alike
  <1> QED BY <1>7 DEF new

\* A poll that finds nothing and registers with all the pipes has a reason to wait.
LEMMA NotReady ==
    ASSUME Basics, VfsInv, NEW t \in Task, Live(t), NEW F \in SUBSET Fd, ~PollReady(t, F, Events),
           NEW mid, Alike(objects, mid, t), NEW new, new = Registered(mid, t, F, Events)
    PROVE  /\ Alike(objects, new, t)
           /\ \A fd \in F : Safe(new, fds[t][fd], t)
  <1>1. Good(objects, Table) /\ objects \in Objects /\ mid \in Objects BY Zenon DEF VfsInv, Good, Alike
  <1>2. /\ Alike(mid, new, t)
        /\ \A fd \in F : fds[t][fd].object \in ObjectId /\ mid[fds[t][fd].object] # NoObject =>
             /\ Registers(t, fd, Events, "PipeRead", "READ") => t \in new[fds[t][fd].object].waiting_readers
             /\ Registers(t, fd, Events, "PipeWrite", "WRITE") => t \in new[fds[t][fd].object].waiting_writers
    BY Zenon, <1>1, RegisterAlike
  <1>3. Alike(objects, new, t) BY Zenon, <1>2, AlikeTwice
  <1>4. ASSUME NEW fd \in F PROVE Safe(new, fds[t][fd], t)
    <2> DEFINE e == fds[t][fd]
               o == e.object
               x == objects[o]
    <2>1. vfs_poll_fd(t, fd, Events) = {} BY <1>4 DEF PollReady
    <2>2. e # NoFd BY <2>1 DEF vfs_poll_fd, NoFd
    <2>3. <<t, fd>> \in Cell /\ Table[<<t, fd>>] = e BY TableFacts
    <2>4. e \in LocalFd /\ o \in ObjectId /\ x # NoObject
      <3> HIDE DEF e
      <3> QED BY Zenon, <1>1, <2>2, <2>3, ObjectBehind
    <2>5. x.len \in 0 .. PIPE_SIZE /\ x.readers \in Nat /\ x.writers \in Nat
      <3>1. x \in AnyObject BY <1>1, <2>4 DEF Objects
      <3> QED BY Zenon, <3>1 DEF AnyObject
    <2>6. e.access \in {"File", "PipeRead", "PipeWrite"} BY <2>4 DEF LocalFd
    <2>7. e.access # "File" BY <2>1, <2>2 DEF vfs_poll_fd, Events
    <2>8. mid[o] # NoObject
      <3>1. mid[o].refs = x.refs BY Zenon, <2>4 DEF Alike
      <3>2. x.refs # 0 BY Zenon, <1>1, <2>4 DEF Good
      <3> QED BY <3>1, <3>2 DEF NoObject
    <2>9. new[o].len = x.len /\ new[o].readers = x.readers /\ new[o].writers = x.writers
      BY Zenon, <1>3, <2>4 DEF Alike
    <2>10. CASE e.access = "PipeRead"
      <3>1. ~(x.len > 0 \/ x.writers = 0) BY <2>1, <2>2, <2>10 DEF vfs_poll_fd, Events
      <3>2. x.len = 0 /\ x.writers > 0
        <4> HIDE DEF x
        <4> QED BY <2>5, <3>1, VfsAssumption
      <3>3. Registers(t, fd, Events, "PipeRead", "READ") BY <2>10 DEF Registers, Events
      <3>4. t \in new[o].waiting_readers BY Zenon, <1>2, <2>4, <2>8, <3>3
      <3> QED BY Zenon, <2>9, <2>10, <3>2, <3>4 DEF Safe
    <2>11. CASE e.access = "PipeWrite"
      <3>1. ~(x.readers = 0) /\ ~(x.len < PIPE_SIZE) BY <2>1, <2>2, <2>11 DEF vfs_poll_fd, Events
      <3>2. x.len = PIPE_SIZE /\ x.readers > 0
        <4> HIDE DEF x
        <4> QED BY <2>5, <3>1, VfsAssumption
      <3>3. Registers(t, fd, Events, "PipeWrite", "WRITE") BY <2>11 DEF Registers, Events
      <3>4. t \in new[o].waiting_writers BY Zenon, <1>2, <2>4, <2>8, <3>3
      <3> QED BY Zenon, <2>9, <2>11, <3>2, <3>4 DEF Safe
    <2> QED BY Zenon, <2>6, <2>7, <2>10, <2>11
  <1> QED BY <1>3, <1>4

\* A step of t's poll, given what t itself needs.
LEMMA PollStep ==
    ASSUME VfsInv, NEW t \in Task, Live(t), UNCHANGED <<fds, unsaved, idle>>, Alike(objects, objects', t),
           NEW s \in {"Ready", "Blocked"}, status' = [status EXCEPT ![t] = s],
           NEW p \in Place, at' = [at EXCEPT ![t] = p], TaskOK(t)'
    PROVE  VfsInv'
  <1>1. /\ Types /\ Good(objects, Table) /\ fds \in [Task -> [Fd -> Entry]] /\ at \in [Task -> Place]
        /\ status \in [Task -> {"Free", "Ready", "Blocked", "Dead"}]
    BY DEF VfsInv, Types
  <1>2. /\ Good(objects', Table)
        /\ \A o \in ObjectId : Dirty(objects, o) => Dirty(objects', o)
        /\ \A e \in Entry, u \in Task : u # t /\ Safe(objects, e, u) => Safe(objects', e, u)
    BY <1>1, AlikeKeeps
  <1>3. /\ status' \in [Task -> {"Free", "Ready", "Blocked", "Dead"}] /\ status'[t] = s
        /\ \A u \in Task : u # t => status'[u] = status[u]
    BY <1>1
  <1>4. at' \in [Task -> Place] /\ \A u \in Task : u # t => at'[u] = at[u] BY <1>1
  <1>5. \A u \in Task : Live(u)' <=> Live(u) BY <1>3 DEF Live
  <1>6. \A u \in Task : (status'[u] = "Dead") <=> (status[u] = "Dead") BY <1>3 DEF Live
  <1>7. \A u \in Task : u # t /\ status'[u] = "Blocked" =>
             /\ status[u] = "Blocked"
             /\ \A fd \in Fd : Safe(objects, fds[u][fd], u) => Safe(objects', fds[u][fd], u)
    BY <1>1, <1>2, <1>3
  <1> QED BY <1>2, <1>3, <1>4, <1>5, <1>6, <1>7, MoveStep

\* sys_poll() blocks.
LEMMA PollKeeps ==
    ASSUME Basics, VfsInv, NEW t \in Task, NEW F \in SUBSET Fd, NEW E \in PollEvents, NEW w \in {"forever", "armed"},
           sys_poll(t, F, E, w)
    PROVE  VfsInv'
  <1> DEFINE p == <<"poll", F, E, w>>
             new == Registered(objects, t, F, E)
  <1>1. /\ status[t] = "Ready" /\ ~PollReady(t, F, E) /\ objects' = new
        /\ status' = [status EXCEPT ![t] = "Blocked"] /\ at' = [at EXCEPT ![t] = p]
        /\ UNCHANGED <<fds, unsaved, idle>> /\ Live(t)
    BY DEF sys_poll, Calls, Live
  <1>2. E \in SUBSET Events /\ ("pollhup" \notin Ops => E = Events) BY DEF PollEvents
  <1>3. p \in Place BY <1>2 DEF Place
  <1>4. objects \in Objects /\ Types BY DEF VfsInv, Good
  <1>5. Alike(objects, new, t) BY Zenon, <1>4, RegisterAlike
  <1>6. Alike(objects, objects, t) BY <1>4 DEF Alike
  <1>7. "pollhup" \notin Ops => \A fd \in F : Safe(new, fds[t][fd], t)
    <2> HIDE DEF new
    <2>1. SUFFICES ASSUME "pollhup" \notin Ops PROVE \A fd \in F : Safe(new, fds[t][fd], t) OBVIOUS
    <2>2. E = Events BY <1>2, <2>1
    <2>3. ~PollReady(t, F, Events) /\ new = Registered(objects, t, F, Events) BY <1>1, <2>2 DEF new
    <2> QED BY <1>1, <1>6, <2>3, NotReady
  <1>8. at'[t] = p /\ p[1] = "poll" /\ p[2] = F /\ p[3] = E BY Zenon, <1>1, <1>4 DEF Types
  <1>9. TaskOK(t)'
    <2>1. Waited(t)' = IF "pollhup" \notin Ops THEN F ELSE {} BY <1>8 DEF Waited
    <2>2. status'[t] = "Blocked" BY <1>1, <1>4 DEF Types
    <2> HIDE DEF new, p
    <2> QED BY Zenon, <1>1, <1>2, <1>7, <1>8, <2>1, <2>2 DEF TaskOK
  <1> HIDE DEF new, p
  <1> QED BY Zenon, <1>1, <1>3, <1>5, <1>9, PollStep

\* A poll that a signal interrupts.
LEMMA InterruptKeeps ==
    ASSUME Basics, VfsInv, NEW t \in Task, NEW F \in SUBSET Fd, NEW E, PollInterrupted(t, F, E)
    PROVE  VfsInv'
  <1>1. /\ status[t] = "Ready" /\ at[t] = User /\ Live(t) /\ objects' = Unregistered(t, F)
        /\ UNCHANGED <<fds, status, at, unsaved, idle>>
    BY Zenon DEF PollInterrupted, Calls, Live
  <1>2. Alike(objects, objects', t) BY Zenon, <1>1, UnregisterAlike
  <1>3. Types /\ TaskOK(t) BY DEF VfsInv
  <1>4. status' = [status EXCEPT ![t] = "Ready"] /\ at' = [at EXCEPT ![t] = User] BY <1>1, <1>3 DEF Types
  <1>5. User \in Place BY DEF Place
  <1>6. TaskOK(t)'
    <2>1. at'[t] = User /\ status'[t] = "Ready" BY Zenon, <1>1
    <2>2. at'[t][1] # "read" /\ at'[t][1] # "poll" BY <1>5, <2>1, Places
    <2> QED BY Zenon, <2>1, <2>2 DEF TaskOK
  <1> QED BY Zenon, <1>1, <1>2, <1>4, <1>5, <1>6, PollStep

\* A poll is woken.
LEMMA PollWokenKeeps ==
    ASSUME Basics, VfsInv, NEW t \in Task, PollWoken(t)
    PROVE  VfsInv'
  <1> DEFINE F == at[t][2]
             E == at[t][3]
             mid == Unregistered(t, F)
  <1>1. Types /\ TaskOK(t) /\ at[t] \in Place /\ at \in [Task -> Place] BY DEF VfsInv, Types
  <1>2. /\ status[t] = "Ready" /\ at[t][1] = "poll" /\ Live(t) /\ UNCHANGED <<fds, unsaved, idle>>
    BY DEF PollWoken, Live
  <1>3. F \in SUBSET Fd /\ ("pollhup" \notin Ops => E = Events) BY Zenon, <1>1, <1>2, Places DEF TaskOK
  <1>4. Alike(objects, mid, t) BY Zenon, <1>2, <1>3, UnregisterAlike
  <1>5. CASE objects' = mid /\ at' = [at EXCEPT ![t] = User] /\ UNCHANGED status
    <2>1. status' = [status EXCEPT ![t] = "Ready"] BY <1>1, <1>2, <1>5 DEF Types
    <2>2. User \in Place BY DEF Place
    <2>3. TaskOK(t)'
      <3>1. at'[t] = User /\ status'[t] = "Ready" BY <1>1, <1>2, <1>5
      <3>2. at'[t][1] # "read" /\ at'[t][1] # "poll" BY <2>2, <3>1, Places
      <3> QED BY <3>1, <3>2 DEF TaskOK
    <2> HIDE DEF mid
    <2> QED BY Zenon, <1>2, <1>4, <1>5, <2>1, <2>2, <2>3, PollStep
  <1>6. CASE /\ ~PollReady(t, F, E) /\ objects' = Registered(mid, t, F, E)
             /\ status' = [status EXCEPT ![t] = "Blocked"] /\ UNCHANGED at
    <2> HIDE DEF mid, F, E
    <2>1. mid \in Objects BY <1>4 DEF Alike
    <2>2. Alike(mid, objects', t) BY Zenon, <1>3, <1>6, <2>1, RegisterAlike
    <2>3. Alike(objects, objects', t) BY <1>4, <2>2, AlikeTwice
    <2>4. "pollhup" \notin Ops => \A fd \in F : Safe(objects', fds[t][fd], t)
      <3>1. SUFFICES ASSUME "pollhup" \notin Ops PROVE \A fd \in F : Safe(objects', fds[t][fd], t) OBVIOUS
      <3>2. ~PollReady(t, F, Events) /\ objects' = Registered(mid, t, F, Events) BY <1>3, <1>6, <3>1
      <3> QED BY Zenon, <1>2, <1>3, <1>4, <3>2, NotReady
    <2>5. TaskOK(t)'
      <3>1. status'[t] = "Blocked" /\ at'[t] = at[t] BY <1>1, <1>6 DEF Types
      <3>2. Waited(t)' = IF "pollhup" \notin Ops THEN F ELSE {} BY <1>2, <3>1 DEF Waited, F
      <3>3. at'[t][1] = "poll" /\ ("pollhup" \notin Ops => at'[t][3] = Events) BY <1>2, <1>3, <3>1 DEF E
      <3> QED BY <1>2, <2>4, <3>1, <3>2, <3>3 DEF TaskOK
    <2>6. at' = [at EXCEPT ![t] = at[t]] BY <1>1, <1>6
    <2> QED BY Zenon, <1>1, <1>2, <1>6, <2>3, <2>5, <2>6, PollStep
  <1> QED BY <1>5, <1>6 DEF PollWoken

\* The deadline of a poll.
LEMMA TimeoutKeeps ==
    ASSUME VfsInv, NEW t \in Task, PollTimeout(t)
    PROVE  VfsInv'
  <1> DEFINE p == [at[t] EXCEPT ![4] = "expired"]
  <1>1. Types /\ TaskOK(t) /\ at[t] \in Place /\ at \in [Task -> Place] /\ objects \in Objects
    BY DEF VfsInv, Types, Good
  <1>2. /\ Live(t) /\ at[t][1] = "poll" /\ status' = [status EXCEPT ![t] = "Ready"]
        /\ at' = [at EXCEPT ![t][4] = "expired"] /\ UNCHANGED <<objects, fds, unsaved, idle>>
    BY DEF PollTimeout, Live
  <1>3. at[t] \in {"poll"} \X (SUBSET Fd) \X (SUBSET Events) \X {"forever", "armed", "expired"}
    BY <1>1, <1>2 DEF Place, User
  <1>4. at' = [at EXCEPT ![t] = p] BY <1>1, <1>2
  <1>5. p = <<at[t][1], at[t][2], at[t][3], "expired">> BY <1>3
  <1>6. p \in Place BY <1>3, <1>5 DEF Place
  <1>7. p[1] = "poll" /\ p[3] = at[t][3] BY <1>2, <1>5
  <1>8. at'[t] = p /\ status'[t] = "Ready" BY <1>1, <1>2, <1>4 DEF Types
  <1> HIDE DEF p
  <1>9. TaskOK(t)' BY Zenon, <1>1, <1>2, <1>7, <1>8 DEF TaskOK
  <1>10. Alike(objects, objects', t) BY <1>1, <1>2 DEF Alike
  <1> QED BY Zenon, <1>2, <1>4, <1>6, <1>9, <1>10, PollStep

\* A wake-up for another reason.
LEMMA SpuriousKeeps ==
    ASSUME VfsInv, NEW t \in Task, SpuriousWake(t)
    PROVE  VfsInv'
  <1>1. Types /\ TaskOK(t) /\ at[t] \in Place /\ at \in [Task -> Place] /\ objects \in Objects
    BY DEF VfsInv, Types, Good
  <1>2. /\ Live(t) /\ status' = [status EXCEPT ![t] = "Ready"] /\ UNCHANGED <<objects, fds, at, unsaved, idle>>
    BY DEF SpuriousWake, Live
  <1>3. at' = [at EXCEPT ![t] = at[t]] BY <1>1, <1>2
  <1>4. status'[t] = "Ready" BY <1>1, <1>2 DEF Types
  <1>5. TaskOK(t)' BY Zenon, <1>1, <1>2, <1>4 DEF TaskOK
  <1>6. Alike(objects, objects', t) BY Zenon, <1>1, <1>2 DEF Alike
  <1> QED BY Zenon, <1>1, <1>2, <1>3, <1>5, <1>6, PollStep

\* Task 0 marks a task dead.
LEMMA KillKeeps ==
    ASSUME VfsInv, NEW t \in Task, IKill(t)
    PROVE  VfsInv'
  <1>1. /\ Live(t) /\ itask = NoTask /\ itask' = t /\ status' = [status EXCEPT ![t] = "Dead"]
        /\ icommits = {} /\ iwakes = {}
        /\ UNCHANGED <<objects, fds, at, unsaved, iwakes, icommits>>
    BY DEF IKill, Live
  <1>2. Types /\ Good(objects, Table) /\ NoLostData BY DEF VfsInv
  <1>3. /\ status' \in [Task -> {"Free", "Ready", "Blocked", "Dead"}] /\ status'[t] = "Dead"
        /\ \A u \in Task : u # t => status'[u] = status[u]
    BY <1>1, <1>2 DEF Types
  <1>4. Types' BY <1>1, <1>2, <1>3 DEF Types
  <1>5. Killing' BY <1>1, <1>3 DEF Killing
  <1>6. Table' = Table
    <2>1. ASSUME NEW k \in Cell PROVE (k[1] = itask' \/ Live(k[1])') <=> (k[1] = itask \/ Live(k[1]))
      <3>1. k[1] \in Task BY DEF Cell
      <3>2. k[1] # itask BY <1>1, <3>1, NoTaskIsNone
      <3>3. CASE k[1] = t BY <1>1, <3>3
      <3>4. CASE k[1] # t BY <1>1, <1>3, <3>1, <3>2, <3>4 DEF Live
      <3> QED BY <3>3, <3>4
    <2> QED BY <1>1, <2>1 DEF Table
  <1>7. Good(objects', Table') BY <1>1, <1>2, <1>6
  <1>8. NoLostData' BY <1>1, <1>2 DEF NoLostData
  <1>9. ASSUME NEW u \in Task PROVE TaskOK(u)'
    <2>1. TaskOK(u) BY DEF VfsInv
    <2>2. status'[u] = "Ready" => Live(u) /\ fds'[u] = fds[u] BY <1>1, <1>3 DEF Live
    <2>3. status'[u] = "Free" => status[u] = "Free" BY <1>3
    <2>4. status'[u] = "Blocked" => status[u] = "Blocked" BY <1>3
    <2> QED BY Zenon, <1>1, <1>2, <2>1, <2>2, <2>3, <2>4, TaskStays
  <1> QED BY <1>4, <1>5, <1>7, <1>8, <1>9 DEF VfsInv

\* Task 0 takes the descriptors of the dead task.
LEMMA IReleaseKeeps ==
    ASSUME Basics, VfsInv, IRelease
    PROVE  VfsInv'
  <1> DEFINE t == itask
             table == fds[t]
             r == ReleaseTable(Event(objects), table)
  <1>1. /\ t # NoTask /\ objects' = r.obj /\ iwakes' = r.wakes /\ icommits' = r.commits
        /\ fds' = [fds EXCEPT ![t] = NoFds] /\ itask' = NoTask /\ UNCHANGED <<status, at, unsaved>>
    BY DEF IRelease, NoFds
  <1>2. Types /\ Good(objects, Table) /\ Killing /\ NoLostData BY DEF VfsInv
  <1>3. t \in Task /\ status[t] = "Dead" /\ iwakes = {} /\ icommits = {} BY <1>1, <1>2 DEF Killing, Types
  <1>4. table \in [Fd -> Entry] /\ \A fd \in Fd : table[fd] = Table[<<t, fd>>]
    BY <1>2, <1>3, TableFacts DEF Types
  <1>5. /\ fds' \in [Task -> [Fd -> Entry]] /\ \A u \in Task : u # t => fds'[u] = fds[u]
    BY <1>1, <1>2 DEF Types, NoFds, Entry
  <1>6. /\ Table' \in Cells
        /\ \A k \in Cell : Table'[k] = IF k[1] = t THEN NoFd ELSE Table[k]
    <2>1. \A k \in Cell : k[1] \in Task /\ k[2] \in Fd BY DEF Cell
    <2>2. \A u \in Task : u # itask' BY <1>1, NoTaskIsNone
    <2>3. \A u \in Task : Live(u)' <=> Live(u) BY <1>1 DEF Live
    <2>4. ASSUME NEW k \in Cell PROVE Table'[k] = IF k[1] = t THEN NoFd ELSE Table[k]
      <3>1. CASE k[1] = t
        <4>1. ~Live(k[1])' BY <1>1, <1>3, <3>1 DEF Live
        <4> QED BY <2>1, <2>2, <3>1, <4>1 DEF Table
      <3>2. CASE k[1] # t
        <4>1. fds'[k[1]] = fds[k[1]] BY <1>5, <2>1, <3>2
        <4> QED BY <2>1, <2>2, <2>3, <3>2, <4>1 DEF Table
      <3> QED BY <3>1, <3>2
    <2>5. NoFd \in Entry BY DEF Entry
    <2>6. Table' \in Cells BY <1>5, <2>1, <2>5 DEF Table, Cells
    <2> QED BY <2>4, <2>6
  <1> HIDE DEF r, table, t
  <1>7. /\ r \in Release /\ Good(r.obj, Table')
        /\ \A k \in Cell, u \in Task : k[1] # t /\ Safe(objects, Table[k], u)
                                        => u \in r.wakes \/ Safe(r.obj, Table[k], u)
        /\ \A o \in ObjectId : Dirty(objects, o) => o \in r.commits \/ Dirty(r.obj, o)
    <2>1. Emptied(Table, t, table, Table') BY Zenon, <1>2, <1>3, <1>4, <1>6 DEF Emptied
    <2>2. Cleared(objects, Table, t, table, Table', r) BY Zenon, <1>2, <1>3, <1>4, <1>6, <2>1, ReleaseAll DEF r
    <2> QED BY Zenon, <2>2 DEF Cleared
  <1>8. Types'
    <2>1. r.wakes \in SUBSET Task /\ r.commits \in SUBSET ObjectId BY <1>7 DEF Release
    <2> QED BY Zenon, <1>1, <1>2, <1>5, <2>1 DEF Types
  <1>9. Killing' BY <1>1 DEF Killing, NoTask
  <1>10. NoLostData' BY Zenon, <1>1, <1>2, <1>3, <1>7 DEF NoLostData, Dirty, Types
  <1>11. ASSUME NEW u \in Task PROVE TaskOK(u)'
    <2>1. TaskOK(u) BY DEF VfsInv
    <2>2. status'[u] = status[u] /\ at'[u] = at[u] BY <1>1
    <2>3. u # t => fds'[u] = fds[u] BY <1>5
    <2>4. status'[u] \in {"Ready", "Blocked"} => u # t BY <1>3, <2>2
    <2>5. status'[u] = "Ready" => Live(u) /\ fds'[u] = fds[u] BY <2>2, <2>3, <2>4 DEF Live
    <2>6. ASSUME status'[u] = "Blocked", u \notin iwakes', NEW f \in Fd, Safe(objects, fds[u][f], u)
          PROVE  Safe(objects', fds[u][f], u)
      <3> DEFINE k == <<u, f>>
      <3>1. k \in Cell /\ Table[k] = fds[u][f] /\ k[1] # t
        <4>1. Live(u) BY <2>2, <2>6 DEF Live
        <4>2. <<u, f>> \in Cell /\ (Live(u) => Table[<<u, f>>] = fds[u][f]) BY Zenon, TableFacts
        <4>3. u # t BY <2>4, <2>6
        <4>4. <<u, f>>[1] = u OBVIOUS
        <4> QED BY Zenon, <4>1, <4>2, <4>3, <4>4
      <3> HIDE DEF k
      <3>2. Safe(objects, Table[k], u) BY <2>6, <3>1
      <3>3. Safe(r.obj, Table[k], u) BY Zenon, <1>1, <1>7, <2>6, <3>1, <3>2
      <3> QED BY <1>1, <3>1, <3>3
    <2>7. u \notin iwakes BY <1>3
    <2> QED BY Zenon, <1>2, <2>1, <2>2, <2>3, <2>4, <2>5, <2>6, <2>7, TaskStays
  <1>12. Good(objects', Table') BY Zenon, <1>1, <1>7
  <1> QED BY <1>8, <1>9, <1>10, <1>11, <1>12 DEF VfsInv

\* Task 0 writes the files.
LEMMA ICommitKeeps ==
    ASSUME VfsInv, ICommit
    PROVE  VfsInv'
  <1>1. /\ icommits # {} /\ unsaved' = unsaved \ icommits /\ icommits' = {}
        /\ UNCHANGED <<objects, fds, status, at, itask, iwakes>>
    BY DEF ICommit
  <1>2. Types /\ Good(objects, Table) /\ Killing /\ NoLostData BY DEF VfsInv
  <1>3. Types' BY <1>1, <1>2 DEF Types
  <1>4. Killing' BY <1>1, <1>2 DEF Killing
  <1>5. Table' = Table BY <1>1 DEF Table, Live
  <1>6. Good(objects', Table') BY <1>1, <1>2, <1>5
  <1>7. NoLostData' BY <1>1, <1>2 DEF NoLostData
  <1>8. ASSUME NEW u \in Task PROVE TaskOK(u)'
    <2>1. TaskOK(u) BY DEF VfsInv
    <2>2. status'[u] = "Ready" => Live(u) /\ fds'[u] = fds[u] BY <1>1 DEF Live
    <2> QED BY Zenon, <1>1, <1>2, <2>1, <2>2, TaskStays
  <1> QED BY <1>3, <1>4, <1>6, <1>7, <1>8 DEF VfsInv

\* Task 0 wakes the tasks that the release has found.
LEMMA IWakeKeeps ==
    ASSUME VfsInv, IWake
    PROVE  VfsInv'
  <1>1. /\ iwakes # {} /\ status' = Unblocked(iwakes) /\ iwakes' = {}
        /\ UNCHANGED <<objects, fds, at, unsaved, itask, icommits>>
    BY DEF IWake
  <1>2. Types /\ Good(objects, Table) /\ Killing /\ NoLostData BY DEF VfsInv
  <1>3. /\ status' \in [Task -> {"Free", "Ready", "Blocked", "Dead"}]
        /\ \A u \in Task : Woken(status'[u], iwakes, u)
    BY <1>1, <1>2, Wakes
  <1>4. \A u \in Task : Live(u)' <=> Live(u) BY <1>2, <1>3 DEF Live, Woken, Types
  <1>5. Types' BY <1>1, <1>2, <1>3 DEF Types
  <1>6. Killing' BY <1>1, <1>2 DEF Killing
  <1>7. Table' = Table
    <2>1. \A k \in Cell : k[1] \in Task BY DEF Cell
    <2> QED BY <1>1, <1>4, <2>1 DEF Table
  <1>8. Good(objects', Table') BY <1>1, <1>2, <1>7
  <1>9. NoLostData' BY <1>1, <1>2 DEF NoLostData
  <1>10. ASSUME NEW u \in Task PROVE TaskOK(u)'
    <2>1. TaskOK(u) BY DEF VfsInv
    <2>2. status'[u] = "Ready" => Live(u) /\ fds'[u] = fds[u] BY <1>1, <1>4 DEF Live
    <2>3. status'[u] = "Free" => status[u] = "Free" BY <1>3 DEF Woken
    <2>4. status'[u] = "Blocked" => status[u] = "Blocked" /\ u \notin iwakes BY <1>3 DEF Woken
    <2> QED BY Zenon, <1>1, <1>2, <2>1, <2>2, <2>3, <2>4, TaskStays
  <1> QED BY <1>5, <1>6, <1>8, <1>9, <1>10 DEF VfsInv
-----------------------------------------------------------------------------
(* The theorems.                                                           *)

\* The invariant holds at boot (VfsState::new).
LEMMA InitOK ==
    ASSUME Basics, Init
    PROVE  VfsInv
  <1>1. Types BY VfsAssumption DEF Init, Types, Entry, Place
  <1>2. NoFd \in Entry /\ NoObject \in AnyObject BY VfsAssumption DEF Entry, NoObject, AnyObject
  <1>3. \A k \in Cell : k[1] \in Task /\ k[2] \in Fd BY DEF Cell
  <1>4. Table \in Cells /\ \A k \in Cell : Table[k] = NoFd BY <1>2, <1>3 DEF Init, Table, Cells
  <1>5. objects \in Objects /\ \A o \in ObjectId : objects[o] = NoObject BY <1>2 DEF Init, Objects
  <1>6. \A o \in ObjectId : \A A : Cardinality(Refers(Table, o, A)) = 0
    <2>1. ASSUME NEW o \in ObjectId, NEW A PROVE Refers(Table, o, A) = {}
      BY <1>4 DEF Refers, NoFd, ObjectId
    <2> QED BY <2>1, PlacesCount
  <1>7. NoObject.refs = 0 /\ NoObject.readers = 0 /\ NoObject.writers = 0 BY DEF NoObject
  <1>8. Counts(objects, Table) BY <1>5, <1>6, <1>7 DEF Counts
  <1>9. Good(objects, Table) BY <1>4, <1>5, <1>7, <1>8 DEF Good
  <1>10. Killing /\ NoLostData BY DEF Init, Killing, NoLostData
  <1>11. ASSUME NEW t \in Task PROVE TaskOK(t)
    <2>1. at[t] = User /\ status[t] # "Blocked" BY DEF Init
    <2>2. at[t][1] # "read" /\ at[t][1] # "poll" BY <1>1, <2>1, Places DEF Types
    <2> QED BY Zenon, <2>1, <2>2 DEF TaskOK
  <1> QED BY <1>1, <1>9, <1>10, <1>11 DEF VfsInv

\* Every call and every step of task 0 keeps the invariant.
LEMMA NextOK ==
    ASSUME Basics, "dupmap" \notin Ops, VfsInv, [Next]_vars
    PROVE  VfsInv'
  <1>1. ASSUME NEW t \in Task, vfs_open(t) PROVE VfsInv' BY <1>1, OpenKeeps DEF vfs_open, Calls
  <1>2. ASSUME NEW t \in Task, vfs_open_write(t) PROVE VfsInv' BY <1>2, OpenKeeps DEF vfs_open_write, Calls
  <1>3. ASSUME NEW t \in Task, NEW fd \in Fd, NEW n \in 1 .. PIPE_SIZE, vfs_read_blocking(t, fd, n) PROVE VfsInv'
    BY <1>3, ReadPassKeeps DEF vfs_read_blocking, Calls
  <1>4. ASSUME NEW t \in Task, NEW n \in 1 .. PIPE_SIZE, ReadWoken(t, n) PROVE VfsInv'
    <2>1. /\ status[t] = "Ready" /\ at[t][1] = "read" /\ PipeReadPass(t, at[t][2], n)
          /\ UNCHANGED <<fds, unsaved, idle>>
      BY <1>4 DEF ReadWoken
    <2>2. TaskOK(t) /\ at[t] \in Place BY DEF VfsInv, Types
    <2>3. at[t][2] \in Fd /\ fds[t][at[t][2]].access = "PipeRead" BY Zenon, <2>1, <2>2, Places DEF TaskOK, Live
    <2> QED BY <2>1, <2>3, ReadPassKeeps
  <1>5. ASSUME NEW t \in Task, UserNext(t) PROVE VfsInv'
    BY <1>1, <1>2, <1>3, <1>4, <1>5, PipeKeeps, ExitKeeps, PollWokenKeeps, DupKeeps, CloseKeeps, WriteKeeps,
       InterruptKeeps, PollKeeps, SpawnKeeps, ThreadKeeps
       DEF UserNext
  <1>6. CASE UNCHANGED vars
    BY Zenon, <1>6 DEF VfsInv, Types, Killing, TaskOK, Waited, NoLostData, Table, Live, vars
  <1> QED BY <1>5, <1>6, TimeoutKeeps, SpuriousKeeps, KillKeeps, IReleaseKeeps, ICommitKeeps, IWakeKeeps DEF Next

\* The invariant says what the properties say.
LEMMA InvExact == VfsInv => RefsExact
  <1> SUFFICES ASSUME VfsInv PROVE RefsExact OBVIOUS
  <1>1. \A k \in Cell : k[1] \in Task /\ k[2] \in Fd /\ k = <<k[1], k[2]>> BY DEF Cell
  <1>2. ASSUME NEW o \in ObjectId, NEW A PROVE Holders(o, A) = Refers(Table, o, A)
    <2>1. o # 0 BY DEF ObjectId
    <2>2. ASSUME NEW h \in Holders(o, A) PROVE h \in Refers(Table, o, A)
      <3>1. /\ h[1] \in Task /\ h[2] \in Fd /\ h \in Cell /\ (h[1] = itask \/ Live(h[1]))
            /\ fds[h[1]][h[2]].object = o /\ fds[h[1]][h[2]].access \in A
        BY <2>2 DEF Holders, Cell, Live
      <3>2. Table[h] = fds[h[1]][h[2]] BY <3>1 DEF Table
      <3> QED BY <3>1, <3>2 DEF Refers
    <2>3. ASSUME NEW h \in Refers(Table, o, A) PROVE h \in Holders(o, A)
      <3>1. h \in Cell /\ Table[h].object = o /\ Table[h].access \in A BY <2>3 DEF Refers
      <3>2. h[1] = itask \/ Live(h[1]) BY <2>1, <3>1 DEF Table, NoFd
      <3>3. Table[h] = fds[h[1]][h[2]] BY <3>1, <3>2 DEF Table
      <3> QED BY <1>1, <3>1, <3>2, <3>3 DEF Holders, Live
    <2> QED BY <2>2, <2>3
  <1>3. Counts(objects, Table) BY Zenon DEF VfsInv, Good
  <1> QED BY Zenon, <1>2, <1>3 DEF RefsExact, Counts, Access

\* A task that waits for a reason and is known to its pipes is not forgotten
\* (vfs_poll_fd, vfs_read_blocking).
LEMMA InvWoken == "pollhup" \notin Ops /\ VfsInv => SleepersAreWoken
  <1> SUFFICES ASSUME "pollhup" \notin Ops, VfsInv, NEW t \in Task, t \notin iwakes, status[t] = "Blocked"
               PROVE  /\ at[t][1] = "read" =>
                             LET x == objects[fds[t][at[t][2]].object]
                             IN  x.len = 0 /\ x.writers > 0 /\ t \in x.waiting_readers
                      /\ at[t][1] = "poll" => ~PollReady(t, at[t][2], at[t][3])
    BY Zenon DEF SleepersAreWoken
  <1>1. TaskOK(t) BY DEF VfsInv
  <1>2. \A fd \in Waited(t) : Safe(objects, fds[t][fd], t) BY <1>1 DEF TaskOK
  <1>3. CASE at[t][1] = "read"
    <2>1. fds[t][at[t][2]].access = "PipeRead" BY <1>1, <1>3 DEF TaskOK, Live
    <2>2. Safe(objects, fds[t][at[t][2]], t) BY <1>2, <1>3 DEF Waited
    <2> QED BY Zenon, <1>3, <2>1, <2>2 DEF Safe
  <1>4. CASE at[t][1] = "poll"
    <2>1. \A fd \in at[t][2] : Safe(objects, fds[t][fd], t) BY <1>2, <1>4 DEF Waited
    <2>2. at[t] \in Place BY DEF VfsInv, Types
    <2>3. at[t][2] \in SUBSET Fd BY <1>4, <2>2, Places
    <2>4. ASSUME NEW fd \in at[t][2] PROVE vfs_poll_fd(t, fd, at[t][3]) = {}
      <3> DEFINE e == fds[t][fd]
                 x == objects[e.object]
      <3>1. Safe(objects, e, t) BY <2>1
      <3>2. e # NoFd BY <3>1 DEF Safe, NoFd
      <3>3. CASE e.access = "PipeRead" /\ x.len = 0 /\ x.writers > 0
        BY <3>2, <3>3 DEF vfs_poll_fd
      <3>4. CASE e.access = "PipeWrite" /\ x.len = PIPE_SIZE /\ x.readers > 0
        BY <3>2, <3>4, VfsAssumption DEF vfs_poll_fd
      <3> QED BY Zenon, <3>1, <3>3, <3>4 DEF Safe
    <2> QED BY <1>4, <2>4 DEF PollReady
  <1> QED BY Zenon, <1>3, <1>4

\* The invariant has the types.
LEMMA InvTypes == VfsInv => TypeOK
  <1> SUFFICES ASSUME VfsInv PROVE TypeOK OBVIOUS
  <1>1. objects \in Objects /\ \A o \in ObjectId : objects[o].kind = "none" => objects[o] = NoObject
    BY Zenon DEF VfsInv, Good
  <1>2. ASSUME NEW o \in ObjectId PROVE objects[o] \in SharedObject \cup {NoObject}
    <2>1. objects[o] \in AnyObject BY <1>1 DEF Objects
    <2>2. CASE objects[o].kind = "none" BY <1>1, <2>2
    <2>3. CASE objects[o].kind # "none" BY <2>1, <2>3 DEF AnyObject, SharedObject
    <2> QED BY <2>2, <2>3
  <1>3. objects \in [ObjectId -> SharedObject \cup {NoObject}] BY <1>1, <1>2 DEF Objects
  <1> QED BY Zenon, <1>3 DEF VfsInv, Types, TypeOK, Entry, Place

-----------------------------------------------------------------------------
(* Numbers and finite sets.                                                  *)

LOCAL INSTANCE Induction

\* Induction for the loops over tables and lists.
LEMMA InductingOK == Inducting
  <1>1. ASSUME NEW n \in Nat, NEW S, NEW F, NEW x \in S, F \in [1 .. n -> [S -> S]]
        PROVE  \E f : Unrolls(f, n, S, x, F)
    <2>1. PICK f : Iterates(f, n, S, x, F) BY <1>1, Iteration
    <2> QED BY <2>1 DEF Iterates, Unrolls
  <1>2. ASSUME NEW n \in Nat, NEW S, 0 \in S, \A k \in 0 .. (n - 1) : k \in S => k + 1 \in S
        PROVE  0 .. n \subseteq S
    BY <1>2, SetInduction
  <1>3. ASSUME NEW T \in SUBSET Nat, T # {} PROVE \E x \in T : \A y \in T : x <= y
    BY <1>3, Least
  <1> QED BY <1>1, <1>2, <1>3 DEF Inducting

\* How many there are in a set, as module FiniteSets defines it.  The library
\* about finite sets comes with an instance of that module.
Size(S) == Cardinality(S)
SizeOf(S) ==
    LET CS[T \in SUBSET S] == IF T = {} THEN 0 ELSE 1 + CS[T \ {CHOOSE x : x \in T}]
    IN  CS[S]

\* Sizes are counted one by one.
LEMMA SizeIs == \A S : Size(S) = SizeOf(S)
  BY Zenon DEF Cardinality, Size, SizeOf

LOCAL INSTANCE FiniteSetTheorems

\* The library counts them in the same way.
LEMMA SizeIsCardinality == \A S : Size(S) = Cardinality(S)
  <1>1. \A S : Cardinality(S) = SizeOf(S) BY Zenon DEF Cardinality, SizeOf
  <1> QED BY Zenon, <1>1, SizeIs

\* There are finitely many places.
LEMMA RefersFinite ==
    ASSUME NEW g, NEW o, NEW A
    PROVE  IsFiniteSet(Refers(g, o, A)) /\ Cardinality(Refers(g, o, A)) \in Nat
  <1>1. IsFiniteSet(Task) /\ IsFiniteSet(Fd) BY VfsAssumption, FS_Interval DEF Task, Fd
  <1>2. IsFiniteSet(Cell) BY <1>1, FS_Product DEF Cell
  <1>3. Refers(g, o, A) \in SUBSET Cell BY DEF Refers
  <1> QED BY <1>2, <1>3, FS_Subset, FS_CardinalityType

\* The places can be counted.
LEMMA CountingOK == Counting
  <1>1. ASSUME NEW g, NEW o, NEW A
        PROVE  Size(Refers(g, o, A)) \in Nat /\ (Size(Refers(g, o, A)) = 0 <=> Refers(g, o, A) = {})
    <2> DEFINE R == Refers(g, o, A)
    <2>1. IsFiniteSet(R) /\ Cardinality(R) \in Nat BY Zenon, RefersFinite
    <2> HIDE DEF R
    <2>2. Cardinality(R) = 0 <=> R = {} BY Zenon, <2>1, FS_EmptySet
    <2>3. Size(R) = Cardinality(R) BY Zenon, SizeIsCardinality
    <2> QED BY Zenon, <2>1, <2>2, <2>3 DEF R
  <1>2. ASSUME NEW S, Size(S) >= 2 PROVE S # {} /\ \A x : S # {x}
    <2>1. Size({}) = 0 BY Zenon, FS_EmptySet, SizeIsCardinality
    <2>2. \A x : Size({x}) = 1 BY Zenon, FS_Singleton, SizeIsCardinality
    <2> QED BY <1>2, <2>1, <2>2
  <1>3. ASSUME NEW g, NEW o, NEW A, NEW h, h \notin Refers(g, o, A)
        PROVE  Size(Refers(g, o, A) \cup {h}) = Size(Refers(g, o, A)) + 1
    <2> DEFINE R == Refers(g, o, A)
    <2>1. IsFiniteSet(R) BY Zenon, RefersFinite
    <2>2. h \notin R BY Zenon, <1>3
    <2> HIDE DEF R
    <2>3. Cardinality(R \cup {h}) = Cardinality(R) + 1 BY Zenon, <2>1, <2>2, FS_AddElement
    <2>4. Size(R \cup {h}) = Cardinality(R \cup {h}) /\ Size(R) = Cardinality(R) BY Zenon, SizeIsCardinality
    <2> QED BY Zenon, <2>3, <2>4 DEF R
  <1>4. CountIsNat BY Zenon, <1>1 DEF CountIsNat, Size
  <1>5. CountAddsOne BY Zenon, <1>3 DEF CountAddsOne, Size
  <1>6. TwoAreMany BY Zenon, <1>2 DEF TwoAreMany, Size
  <1> QED BY Zenon, <1>4, <1>5, <1>6 DEF Counting
-----------------------------------------------------------------------------
(* The theorems.                                                           *)

\* Types of the descriptor tables, the objects and the places where tasks wait
\* (VfsState), as long as no list of a spawn names a slot twice.
THEOREM VfsTypes ==
    ASSUME "dupmap" \notin Ops
    PROVE  Spec => []TypeOK
  <1>1. Init => VfsInv BY CountingOK, InductingOK, InitOK DEF Basics
  <1>2. VfsInv /\ [Next]_vars => VfsInv' BY CountingOK, InductingOK, NextOK DEF Basics
  <1>3. VfsInv => TypeOK BY InvTypes
  <1> QED BY <1>1, <1>2, <1>3, PTL DEF Spec

\* Reference counting is exact (retain_fd, release_fd, drop_task, inherit_fds
\* with its rollback, inherit_all_fds): in every reachable state an object has
\* as many references, readers and writers as there are descriptors of it, for
\* any number of tasks, descriptors and objects.  The assumption excludes the
\* spawn whose list maps two descriptors to one slot, which loses a reference.
THEOREM CountsAreExact ==
    ASSUME "dupmap" \notin Ops
    PROVE  Spec => []RefsExact
  <1>1. Init => VfsInv BY CountingOK, InductingOK, InitOK DEF Basics
  <1>2. VfsInv /\ [Next]_vars => VfsInv' BY CountingOK, InductingOK, NextOK DEF Basics
  <1>3. VfsInv => RefsExact BY InvExact
  <1> QED BY <1>1, <1>2, <1>3, PTL DEF Spec

\* Nobody oversleeps in vfs_read_blocking() or sys_poll(): a task that sleeps
\* has a pipe that is not ready and that knows it, or task 0 is about to wake
\* it.  The second assumption excludes a poll for one direction only, which the
\* end of the other side does not wake.
THEOREM NobodyOversleeps ==
    ASSUME "dupmap" \notin Ops, "pollhup" \notin Ops
    PROVE  Spec => []SleepersAreWoken
  <1>1. Init => VfsInv BY CountingOK, InductingOK, InitOK DEF Basics
  <1>2. VfsInv /\ [Next]_vars => VfsInv' BY CountingOK, InductingOK, NextOK DEF Basics
  <1>3. VfsInv => SleepersAreWoken BY InvWoken
  <1> QED BY <1>1, <1>2, <1>3, PTL DEF Spec

\* Buffered data is committed by the last close or the end of the last task
\* that has the file, on every path (release_fd, drop_task, commit_files).
THEOREM DataIsKept ==
    ASSUME "dupmap" \notin Ops
    PROVE  Spec => []NoLostData
  <1>1. Init => VfsInv BY CountingOK, InductingOK, InitOK DEF Basics
  <1>2. VfsInv /\ [Next]_vars => VfsInv' BY CountingOK, InductingOK, NextOK DEF Basics
  <1>3. VfsInv => NoLostData BY DEF VfsInv
  <1> QED BY <1>1, <1>2, <1>3, PTL DEF Spec
=============================================================================
