------------------------------ MODULE VfsCalls ------------------------------
(***************************************************************************)
(* The inductive invariant of module Vfs (descriptors, shared objects,     *)
(* pipes and poll), the loops over descriptor tables, and the calls that   *)
(* open, duplicate and close, for any number of tasks, descriptors and     *)
(* objects and any size of a pipe.                                         *)
(***************************************************************************)
EXTENDS Vfs, TLAPS

\* A place for a descriptor, and what is in the places.
Cell == Task \X Fd
Entry == LocalFd \cup {NoFd}
Cells == [Cell -> Entry]

\* Objects as they are between the steps of a call.
AnyObject ==
    [kind : {"none", "File", "Writable", "Pipe"}, refs : Nat, readers : Nat, writers : Nat,
     len : 0 .. PIPE_SIZE, dirty : BOOLEAN,
     waiting_readers : SUBSET Task, waiting_writers : SUBSET Task]
Objects == [ObjectId -> AnyObject]

Access == {"File", "PipeRead", "PipeWrite"}

\* The places of g with a descriptor of o for one of the accesses A.
Refers(g, o, A) == {h \in Cell : g[h].object = o /\ g[h].access \in A}

\* The counters of the objects are those of the places.
Counts(obj, g) ==
    \A o \in ObjectId :
        /\ obj[o].refs = Cardinality(Refers(g, o, Access))
        /\ obj[o].readers = Cardinality(Refers(g, o, {"PipeRead"}))
        /\ obj[o].writers = Cardinality(Refers(g, o, {"PipeWrite"}))

\* Moreover, an object without references is dropped.
Good(obj, g) ==
    /\ obj \in Objects /\ g \in Cells
    /\ Counts(obj, g)
    /\ \A o \in ObjectId : obj[o].kind = "none" => obj[o] = NoObject
    /\ \A o \in ObjectId : obj[o].refs = 0 <=> obj[o] = NoObject

\* g2 is g with e in the place h.
Puts(g, h, e, g2) == g2[h] = e /\ \A k \in Cell : k # h => g2[k] = g[k]

\* f starts with x and goes on as the functions F say.
Unrolls(f, n, S, x, F) ==
    /\ f \in [0 .. n -> S] /\ f[0] = x
    /\ \A i \in 1 .. n : f[i] = F[i][f[i - 1]]

(* What the proofs use of the theory of numbers and finite sets.  They have it *)
(* as a hypothesis; module VfsProofs proves it before the theorems.            *)

\* There are finitely many places, and one place more counts one more.
CountIsNat ==
    \A g, o, A : /\ Cardinality(Refers(g, o, A)) \in Nat
                 /\ Cardinality(Refers(g, o, A)) = 0 <=> Refers(g, o, A) = {}
CountAddsOne ==
    \A g, o, A, h : h \notin Refers(g, o, A) =>
        Cardinality(Refers(g, o, A) \cup {h}) = Cardinality(Refers(g, o, A)) + 1
TwoAreMany == \A S : Cardinality(S) >= 2 => S # {} /\ \A x : S # {x}

Counting == CountIsNat /\ CountAddsOne /\ TwoAreMany

\* A set of numbers has a least one; induction; a sequence of results is
\* determined by its first and by what each step makes of the one before.
Inducting ==
    /\ \A T \in SUBSET Nat : T # {} => \E x \in T : \A y \in T : x <= y
    /\ \A n \in Nat : \A S :
         0 \in S /\ (\A k \in 0 .. (n - 1) : k \in S => k + 1 \in S) => 0 .. n \subseteq S
    /\ \A n \in Nat : \A S, F : \A x \in S :
         F \in [1 .. n -> [S -> S]] => \E f : Unrolls(f, n, S, x, F)

Basics == Counting /\ Inducting

\* The places of an object are counted by a number.
LEMMA PlacesCount ==
    ASSUME Basics, NEW g, NEW o, NEW A
    PROVE  /\ Cardinality(Refers(g, o, A)) \in Nat
           /\ Cardinality(Refers(g, o, A)) = 0 <=> Refers(g, o, A) = {}
  BY DEF Basics, Counting, CountIsNat

\* One place more.
LEMMA AddCell ==
    ASSUME Basics, NEW g \in Cells, NEW h \in Cell, g[h] = NoFd, NEW e \in LocalFd,
           NEW f \in Cells, Puts(g, h, e, f), NEW o \in ObjectId, NEW A
    PROVE  Cardinality(Refers(f, o, A)) =
             Cardinality(Refers(g, o, A)) + (IF e.object = o /\ e.access \in A THEN 1 ELSE 0)
  <1> DEFINE R == Refers(g, o, A)
             S == Refers(f, o, A)
  <1>1. h \notin R
    <2>1. NoFd.object \notin ObjectId BY DEF NoFd, ObjectId
    <2> QED BY Zenon, <2>1 DEF Refers
  <1>2. CASE e.object = o /\ e.access \in A
    <2>1. S = R \cup {h} BY <1>1, <1>2 DEF Refers, Puts
    <2>2. Cardinality(R \cup {h}) = Cardinality(R) + 1 BY Zenon, <1>1 DEF Basics, Counting, CountAddsOne
    <2> HIDE DEF R, S
    <2> QED BY <1>2, <2>1, <2>2 DEF R, S
  <1>3. CASE ~(e.object = o /\ e.access \in A)
    <2>1. S = R BY <1>1, <1>3 DEF Refers, Puts
    <2>2. Cardinality(R) \in Nat BY PlacesCount
    <2> HIDE DEF R, S
    <2> QED BY <1>3, <2>1, <2>2 DEF R, S
  <1> QED BY <1>2, <1>3

\* One place less.
LEMMA DropCell ==
    ASSUME Basics, NEW g \in Cells, NEW h \in Cell, NEW e \in LocalFd, g[h] = e,
           NEW f \in Cells, Puts(g, h, NoFd, f), NEW o \in ObjectId, NEW A
    PROVE  Cardinality(Refers(g, o, A)) =
             Cardinality(Refers(f, o, A)) + (IF e.object = o /\ e.access \in A THEN 1 ELSE 0)
  <1>1. f[h] = NoFd /\ Puts(f, h, e, g) BY DEF Puts
  <1> QED BY <1>1, AddCell

\* A descriptor is counted.
LEMMA Counted ==
    ASSUME Basics, NEW g \in Cells, NEW h \in Cell, NEW A, g[h].access \in A
    PROVE  Cardinality(Refers(g, g[h].object, A)) > 0
  <1> DEFINE R == Refers(g, g[h].object, A)
  <1>1. h \in R BY DEF Refers
  <1> HIDE DEF R
  <1>2. Cardinality(R) \in Nat /\ Cardinality(R) # 0 BY <1>1, PlacesCount DEF R
  <1> QED BY <1>2 DEF R

\* Induction up to n.
LEMMA UpTo ==
    ASSUME Basics, NEW n \in Nat, NEW S, 0 \in S, \A k \in 0 .. (n - 1) : k \in S => k + 1 \in S
    PROVE  0 .. n \subseteq S
  BY DEF Basics, Inducting

\* retain_fd() counts one descriptor more of its object.
LEMMA RetainFields ==
    ASSUME NEW obj \in Objects, NEW e \in LocalFd
    PROVE  LET r == retain_fd(obj, e)
               x == obj[e.object]
               y == r[e.object]
           IN  /\ r \in Objects
               /\ \A o \in ObjectId : o # e.object => r[o] = obj[o]
               /\ y.refs = x.refs + 1
               /\ y.readers = IF e.access = "PipeRead" THEN x.readers + 1 ELSE x.readers
               /\ y.writers = IF e.access = "PipeWrite" THEN x.writers + 1 ELSE x.writers
               /\ y.kind = x.kind /\ y.len = x.len /\ y.dirty = x.dirty
               /\ y.waiting_readers = x.waiting_readers /\ y.waiting_writers = x.waiting_writers
  <1> DEFINE r == retain_fd(obj, e)
             x == obj[e.object]
             n == IF e.access = "PipeRead" THEN x.readers + 1 ELSE x.readers
             m == IF e.access = "PipeWrite" THEN x.writers + 1 ELSE x.writers
             y == [x EXCEPT !.refs = @ + 1,
                            !.readers = IF e.access = "PipeRead" THEN @ + 1 ELSE @,
                            !.writers = IF e.access = "PipeWrite" THEN @ + 1 ELSE @]
             x1 == [x EXCEPT !.refs = x.refs + 1]
             x2 == [x1 EXCEPT !.readers = n]
             x3 == [x2 EXCEPT !.writers = m]
  <1>1. e.object \in ObjectId BY DEF LocalFd
  <1>2. x \in AnyObject BY <1>1 DEF Objects
  <1>3. y = x3 BY <1>2 DEF AnyObject
  <1>31. x3 \in AnyObject
    <2>1. x.refs + 1 \in Nat /\ n \in Nat /\ m \in Nat BY <1>2 DEF AnyObject
    <2> HIDE DEF n, m, x
    <2>2. x1 \in AnyObject BY <1>2, <2>1 DEF AnyObject
    <2> HIDE DEF x1
    <2>3. x2 \in AnyObject BY <2>1, <2>2 DEF AnyObject
    <2> HIDE DEF x2
    <2> QED BY <2>1, <2>3 DEF AnyObject
  <1>4. r = [obj EXCEPT ![e.object] = y] BY Zenon, <1>1, <1>2 DEF retain_fd, Objects, AnyObject
  <1>5. /\ y.refs = x.refs + 1
        /\ y.readers = IF e.access = "PipeRead" THEN x.readers + 1 ELSE x.readers
        /\ y.writers = IF e.access = "PipeWrite" THEN x.writers + 1 ELSE x.writers
        /\ y.kind = x.kind /\ y.len = x.len /\ y.dirty = x.dirty
        /\ y.waiting_readers = x.waiting_readers /\ y.waiting_writers = x.waiting_writers
    BY <1>2 DEF AnyObject
  <1> HIDE DEF y, x3
  <1>6. r \in Objects /\ r[e.object] = y /\ \A o \in ObjectId : o # e.object => r[o] = obj[o]
    BY <1>1, <1>3, <1>31, <1>4 DEF Objects
  <1> QED BY <1>5, <1>6

\* ... and so keeps the counters exact.
LEMMA Retain ==
    ASSUME Basics, NEW obj \in Objects, NEW g \in Cells, Counts(obj, g),
           NEW h \in Cell, g[h] = NoFd, NEW e \in LocalFd, NEW f \in Cells, Puts(g, h, e, f)
    PROVE  Counts(retain_fd(obj, e), f)
  <1> DEFINE r == retain_fd(obj, e)
  <1>1. e.object \in ObjectId /\ e.access \in Access BY DEF LocalFd, Access
  <1> SUFFICES ASSUME NEW o \in ObjectId
               PROVE  /\ r[o].refs = Cardinality(Refers(f, o, Access))
                      /\ r[o].readers = Cardinality(Refers(f, o, {"PipeRead"}))
                      /\ r[o].writers = Cardinality(Refers(f, o, {"PipeWrite"}))
    BY DEF Counts
  <1>2. /\ r[o].refs = obj[o].refs + (IF e.object = o THEN 1 ELSE 0)
        /\ r[o].readers = obj[o].readers + (IF e.object = o /\ e.access = "PipeRead" THEN 1 ELSE 0)
        /\ r[o].writers = obj[o].writers + (IF e.object = o /\ e.access = "PipeWrite" THEN 1 ELSE 0)
    <2>1. obj[o].refs \in Nat /\ obj[o].readers \in Nat /\ obj[o].writers \in Nat BY DEF Objects, AnyObject
    <2> HIDE DEF r
    <2>2. /\ \A p \in ObjectId : p # e.object => r[p] = obj[p]
          /\ r[e.object].refs = obj[e.object].refs + 1
          /\ r[e.object].readers = IF e.access = "PipeRead" THEN obj[e.object].readers + 1 ELSE obj[e.object].readers
          /\ r[e.object].writers = IF e.access = "PipeWrite" THEN obj[e.object].writers + 1 ELSE obj[e.object].writers
      BY RetainFields DEF r
    <2>3. CASE o = e.object BY <2>1, <2>2, <2>3
    <2>4. CASE o # e.object BY <2>1, <2>2, <2>4
    <2> QED BY <2>3, <2>4
  <1> HIDE DEF r
  <1>3. \A A : Cardinality(Refers(f, o, A)) =
                 Cardinality(Refers(g, o, A)) + (IF e.object = o /\ e.access \in A THEN 1 ELSE 0)
    BY AddCell
  <1>4. /\ obj[o].refs = Cardinality(Refers(g, o, Access))
        /\ obj[o].readers = Cardinality(Refers(g, o, {"PipeRead"}))
        /\ obj[o].writers = Cardinality(Refers(g, o, {"PipeWrite"}))
    BY DEF Counts
  <1>5. r[o].refs = Cardinality(Refers(f, o, Access)) BY <1>1, <1>2, <1>3, <1>4
  <1>6. r[o].readers = Cardinality(Refers(f, o, {"PipeRead"})) BY <1>2, <1>3, <1>4
  <1>7. r[o].writers = Cardinality(Refers(f, o, {"PipeWrite"})) BY <1>2, <1>3, <1>4
  <1> QED BY <1>5, <1>6, <1>7

\* retain_fd() of an object that exists.
LEMMA GoodRetain ==
    ASSUME Basics, NEW obj, NEW g, Good(obj, g), NEW h \in Cell, g[h] = NoFd, NEW e \in LocalFd,
           obj[e.object] # NoObject, NEW f \in Cells, Puts(g, h, e, f)
    PROVE  Good(retain_fd(obj, e), f)
  <1> DEFINE r == retain_fd(obj, e)
  <1>0. obj \in Objects /\ g \in Cells /\ e.object \in ObjectId BY DEF Good, LocalFd
  <1>1. Counts(r, f) BY <1>0, Retain DEF Good
  <1> HIDE DEF r
  <1>2. /\ r \in Objects /\ \A p \in ObjectId : p # e.object => r[p] = obj[p]
        /\ r[e.object].refs = obj[e.object].refs + 1 /\ r[e.object].kind = obj[e.object].kind
    BY <1>0, RetainFields DEF r
  <1>3. r[e.object].refs # 0 BY <1>0, <1>2 DEF Objects, AnyObject
  <1>4. obj[e.object].kind # "none" BY <1>0 DEF Good
  <1>5. r[e.object] # NoObject BY <1>2, <1>4 DEF NoObject
  <1> QED BY <1>0, <1>1, <1>2, <1>3, <1>4, <1>5 DEF Good, r
-----------------------------------------------------------------------------
(* release_fd() and the loops that call it.                                  *)

Release == [obj : Objects, wakes : SUBSET Task, commits : SUBSET ObjectId]

LessReaders(x, e) == IF e.access = "PipeRead" THEN Decrement(x.readers) ELSE x.readers
LessWriters(x, e) == IF e.access = "PipeWrite" THEN Decrement(x.writers) ELSE x.writers
LastReader(x, e) == e.access = "PipeRead" /\ Decrement(x.readers) = 0
LastWriter(x, e) == e.access = "PipeWrite" /\ Decrement(x.writers) = 0

\* What release_fd() does to the object and whom it wakes.
LEMMA ReleaseFields ==
    ASSUME NEW ev \in Release, NEW e \in LocalFd, ev.obj[e.object] # NoObject
    PROVE  LET r == release_fd(ev, e)
               x == ev.obj[e.object]
               y == r.obj[e.object]
           IN  /\ r \in Release
               /\ \A o \in ObjectId : o # e.object => r.obj[o] = ev.obj[o]
               /\ Decrement(x.refs) = 0 => y = NoObject
               /\ Decrement(x.refs) # 0 =>
                    /\ y.refs = Decrement(x.refs) /\ y.readers = LessReaders(x, e) /\ y.writers = LessWriters(x, e)
                    /\ y.kind = x.kind /\ y.len = x.len /\ y.dirty = x.dirty
                    /\ y.waiting_readers = IF LastReader(x, e) \/ LastWriter(x, e) THEN {} ELSE x.waiting_readers
                    /\ y.waiting_writers = IF LastReader(x, e) THEN {} ELSE x.waiting_writers
               /\ r.wakes = ev.wakes \cup (IF LastReader(x, e) THEN x.waiting_writers ELSE {})
                                     \cup (IF LastWriter(x, e) THEN x.waiting_readers ELSE {})
               /\ r.commits = IF Decrement(x.refs) = 0 /\ x.kind = "Writable" /\ x.dirty
                              THEN ev.commits \cup {e.object} ELSE ev.commits
  <1> DEFINE r == release_fd(ev, e)
             x == ev.obj[e.object]
             n == LessReaders(x, e)
             m == LessWriters(x, e)
             R == IF LastReader(x, e) \/ LastWriter(x, e) THEN {} ELSE x.waiting_readers
             W == IF LastReader(x, e) THEN {} ELSE x.waiting_writers
             dec == [x EXCEPT !.refs = Decrement(@),
                              !.readers = IF e.access = "PipeRead" THEN Decrement(@) ELSE @,
                              !.writers = IF e.access = "PipeWrite" THEN Decrement(@) ELSE @]
             x1 == [x EXCEPT !.refs = Decrement(x.refs)]
             x2 == [x1 EXCEPT !.readers = n]
             x3 == [x2 EXCEPT !.writers = m]
             x4 == [x3 EXCEPT !.waiting_readers = R]
             x5 == [x4 EXCEPT !.waiting_writers = W]
             y == IF Decrement(x.refs) = 0 THEN NoObject ELSE x5
             wakes == ev.wakes \cup (IF LastReader(x, e) THEN x.waiting_writers ELSE {})
                                \cup (IF LastWriter(x, e) THEN x.waiting_readers ELSE {})
             commits == IF Decrement(x.refs) = 0 /\ x.kind = "Writable" /\ x.dirty
                        THEN ev.commits \cup {e.object} ELSE ev.commits
  <1>1. e.object \in ObjectId /\ ev.obj \in Objects /\ ev.wakes \subseteq Task /\ ev.commits \subseteq ObjectId
    BY DEF LocalFd, Release
  <1>2. x \in AnyObject BY <1>1 DEF Objects
  <1>3. dec = x3 BY <1>2 DEF AnyObject, LessReaders, LessWriters
  <1>4. /\ Decrement(x.refs) \in Nat /\ n \in Nat /\ m \in Nat /\ R \subseteq Task /\ W \subseteq Task
        /\ x.waiting_readers \subseteq Task /\ x.waiting_writers \subseteq Task
    BY <1>2 DEF AnyObject, LessReaders, LessWriters, Decrement
  <1>5. /\ x5 \in AnyObject
        /\ x5.refs = Decrement(x.refs) /\ x5.readers = n /\ x5.writers = m
        /\ x5.kind = x.kind /\ x5.len = x.len /\ x5.dirty = x.dirty
        /\ x5.waiting_readers = R /\ x5.waiting_writers = W
    <2> HIDE DEF n, m, x, R, W
    <2>1. x1 \in AnyObject BY <1>2, <1>4 DEF AnyObject
    <2>2. x2 \in AnyObject BY Zenon, <1>4, <2>1 DEF AnyObject
    <2>3. x3 \in AnyObject BY Zenon, <1>4, <2>2 DEF AnyObject
    <2>4. x4 \in AnyObject BY Zenon, <1>4, <2>3 DEF AnyObject
    <2>5. x5 \in AnyObject BY Zenon, <1>4, <2>4 DEF AnyObject
    <2> QED BY <1>2, <2>5 DEF AnyObject
  <1>6. r = [obj |-> [ev.obj EXCEPT ![e.object] = y], wakes |-> wakes, commits |-> commits]
    <2> DEFINE lr == e.access = "PipeRead" /\ dec.readers = 0
               lw == e.access = "PipeWrite" /\ dec.writers = 0
               new == [dec EXCEPT !.waiting_readers = IF lr \/ lw THEN {} ELSE @,
                                  !.waiting_writers = IF lr THEN {} ELSE @]
    <2>1. dec.refs = Decrement(x.refs) /\ dec.readers = n /\ dec.writers = m
      BY <1>2 DEF AnyObject, LessReaders, LessWriters
    <2>2. (lr <=> LastReader(x, e)) /\ (lw <=> LastWriter(x, e))
      BY <2>1 DEF LastReader, LastWriter, LessReaders, LessWriters
    <2>3. r = [obj |-> [ev.obj EXCEPT ![e.object] = IF dec.refs = 0 THEN NoObject ELSE new],
               wakes |-> ev.wakes \cup (IF lr THEN x.waiting_writers ELSE {})
                                  \cup (IF lw THEN x.waiting_readers ELSE {}),
               commits |-> IF dec.refs = 0 /\ x.kind = "Writable" /\ x.dirty
                           THEN ev.commits \cup {e.object} ELSE ev.commits]
      BY DEF release_fd
    <2>4. new = x5
      <3> HIDE DEF lr, lw
      <3> QED BY Zenon, <1>2, <2>2 DEF AnyObject, LessReaders, LessWriters
    <2> HIDE DEF lr, lw, new, dec, x5, x
    <2> QED BY Zenon, <2>1, <2>2, <2>3, <2>4
  <1> HIDE DEF r, y, wakes, commits, x5, n, m, R, W
  <1>7. y \in AnyObject
    <2>1. NoObject \in AnyObject BY VfsAssumption DEF NoObject, AnyObject
    <2> QED BY <1>5, <2>1 DEF y
  <1>8. wakes \subseteq Task /\ commits \subseteq ObjectId
    BY <1>1, <1>4 DEF wakes, commits
  <1>9. r \in Release /\ r.obj[e.object] = y /\ \A o \in ObjectId : o # e.object => r.obj[o] = ev.obj[o]
    BY <1>1, <1>6, <1>7, <1>8 DEF Release, Objects
  <1>10. r.wakes = wakes /\ r.commits = commits BY <1>6
  <1> QED BY <1>5, <1>9, <1>10 DEF r, y, wakes, commits, n, m, R, W

\* The pipe behind the descriptor e of u has nothing for u and will wake it.
Safe(obj, e, u) ==
    \/ /\ e.access = "PipeRead" /\ obj[e.object].len = 0 /\ obj[e.object].writers > 0
       /\ u \in obj[e.object].waiting_readers
    \/ /\ e.access = "PipeWrite" /\ obj[e.object].len = PIPE_SIZE /\ obj[e.object].readers > 0
       /\ u \in obj[e.object].waiting_writers

\* The object o has data that is not on disk.
Dirty(obj, o) == obj[o].kind = "Writable" /\ obj[o].dirty

\* The counters of the object that release_fd() is at, before and after.
LEMMA ReleaseCounts ==
    ASSUME Basics, NEW obj, NEW g, Good(obj, g), NEW h \in Cell, NEW e \in LocalFd, g[h] = e,
           NEW f \in Cells, Puts(g, h, NoFd, f)
    PROVE  LET x == obj[e.object]
           IN  /\ e.object \in ObjectId /\ x # NoObject
               /\ Decrement(x.refs) = Cardinality(Refers(f, e.object, Access))
               /\ LessReaders(x, e) = Cardinality(Refers(f, e.object, {"PipeRead"}))
               /\ LessWriters(x, e) = Cardinality(Refers(f, e.object, {"PipeWrite"}))
               /\ \A o \in ObjectId : \A A : o # e.object => Cardinality(Refers(g, o, A)) = Cardinality(Refers(f, o, A))
  <1> DEFINE x == obj[e.object]
  <1>1. e.object \in ObjectId /\ e.access \in Access /\ g \in Cells BY DEF LocalFd, Access, Good
  <1>2. \A o \in ObjectId : \A A : Cardinality(Refers(g, o, A)) =
                 Cardinality(Refers(f, o, A)) + (IF e.object = o /\ e.access \in A THEN 1 ELSE 0)
    BY <1>1, DropCell
  <1>3. \A o, A : Cardinality(Refers(f, o, A)) \in Nat BY PlacesCount
  <1>4. /\ x.refs = Cardinality(Refers(g, e.object, Access))
        /\ x.readers = Cardinality(Refers(g, e.object, {"PipeRead"}))
        /\ x.writers = Cardinality(Refers(g, e.object, {"PipeWrite"}))
    BY <1>1 DEF Good, Counts
  <1>5. /\ x.refs = Cardinality(Refers(f, e.object, Access)) + 1
        /\ x.readers = Cardinality(Refers(f, e.object, {"PipeRead"})) + (IF e.access = "PipeRead" THEN 1 ELSE 0)
        /\ x.writers = Cardinality(Refers(f, e.object, {"PipeWrite"})) + (IF e.access = "PipeWrite" THEN 1 ELSE 0)
    BY <1>1, <1>2, <1>4
  <1>6. x # NoObject BY <1>1, <1>3, <1>5 DEF Good
  <1>7. Decrement(x.refs) = Cardinality(Refers(f, e.object, Access)) BY <1>3, <1>5 DEF Decrement
  <1>8. LessReaders(x, e) = Cardinality(Refers(f, e.object, {"PipeRead"})) BY <1>3, <1>5 DEF Decrement, LessReaders
  <1>9. LessWriters(x, e) = Cardinality(Refers(f, e.object, {"PipeWrite"})) BY <1>3, <1>5 DEF Decrement, LessWriters
  <1>10. \A o \in ObjectId : \A A : o # e.object => Cardinality(Refers(g, o, A)) = Cardinality(Refers(f, o, A))
    BY <1>2, <1>3
  <1> QED BY <1>1, <1>6, <1>7, <1>8, <1>9, <1>10

\* release_fd() keeps the counters exact and drops an object with its last descriptor.
LEMMA GoodRelease ==
    ASSUME Basics, NEW ev \in Release, NEW g, Good(ev.obj, g), NEW h \in Cell, NEW e \in LocalFd, g[h] = e,
           NEW f \in Cells, Puts(g, h, NoFd, f)
    PROVE  release_fd(ev, e) \in Release /\ Good(release_fd(ev, e).obj, f)
  <1> DEFINE r == release_fd(ev, e)
             x == ev.obj[e.object]
             y == r.obj[e.object]
             a == Cardinality(Refers(f, e.object, Access))
             b == Cardinality(Refers(f, e.object, {"PipeRead"}))
             c == Cardinality(Refers(f, e.object, {"PipeWrite"}))
  <1>1. /\ e.object \in ObjectId /\ x # NoObject
        /\ Decrement(x.refs) = a /\ LessReaders(x, e) = b /\ LessWriters(x, e) = c
        /\ \A o \in ObjectId : \A A : o # e.object => Cardinality(Refers(g, o, A)) = Cardinality(Refers(f, o, A))
    BY ReleaseCounts
  <1>2. /\ r \in Release /\ \A o \in ObjectId : o # e.object => r.obj[o] = ev.obj[o]
        /\ a = 0 => y = NoObject
        /\ a # 0 => y.refs = a /\ y.readers = b /\ y.writers = c /\ y.kind = x.kind
    <2>1. /\ r \in Release /\ \A o \in ObjectId : o # e.object => r.obj[o] = ev.obj[o]
          /\ Decrement(x.refs) = 0 => y = NoObject
          /\ Decrement(x.refs) # 0 =>
                /\ y.refs = Decrement(x.refs) /\ y.readers = LessReaders(x, e) /\ y.writers = LessWriters(x, e)
                /\ y.kind = x.kind
      BY Zenon, <1>1, ReleaseFields
    <2> HIDE DEF a, b, c, r, y, x
    <2> QED BY <1>1, <2>1
  <1>3. a = 0 => b = 0 /\ c = 0
    <2> SUFFICES ASSUME a = 0 PROVE b = 0 /\ c = 0 OBVIOUS
    <2>1. Refers(f, e.object, Access) = {} BY PlacesCount
    <2>2. Refers(f, e.object, {"PipeRead"}) = {} /\ Refers(f, e.object, {"PipeWrite"}) = {}
      BY <2>1 DEF Refers, Access
    <2> QED BY <2>2, PlacesCount
  <1>4. y.refs = a /\ y.readers = b /\ y.writers = c BY <1>2, <1>3 DEF NoObject
  <1> HIDE DEF r, x, y, a, b, c
  <1>5. Counts(r.obj, f)
    <2> SUFFICES ASSUME NEW o \in ObjectId
                 PROVE  /\ r.obj[o].refs = Cardinality(Refers(f, o, Access))
                        /\ r.obj[o].readers = Cardinality(Refers(f, o, {"PipeRead"}))
                        /\ r.obj[o].writers = Cardinality(Refers(f, o, {"PipeWrite"}))
      BY DEF Counts
    <2>1. CASE o = e.object BY <1>4, <2>1 DEF y, a, b, c
    <2>2. CASE o # e.object
      <3>1. r.obj[o] = ev.obj[o] BY <1>2, <2>2
      <3>2. \A A : Cardinality(Refers(g, o, A)) = Cardinality(Refers(f, o, A)) BY <1>1, <2>2
      <3> QED BY <3>1, <3>2 DEF Good, Counts
    <2> QED BY <2>1, <2>2
  <1>6. /\ y.kind = "none" => y = NoObject
        /\ y.refs = 0 <=> y = NoObject
    BY <1>1, <1>2, <1>4 DEF Good, NoObject, x
  <1> QED BY <1>2, <1>5, <1>6 DEF Good, Release, r, y

\* Whoever sleeps at another descriptor is woken by release_fd(), or still safe.
LEMMA ReleaseSafe ==
    ASSUME Basics, NEW ev \in Release, NEW g, Good(ev.obj, g), NEW h \in Cell, NEW e \in LocalFd, g[h] = e,
           NEW f \in Cells, Puts(g, h, NoFd, f),
           NEW k \in Cell, k # h, NEW u \in Task, Safe(ev.obj, g[k], u)
    PROVE  u \in release_fd(ev, e).wakes \/ Safe(release_fd(ev, e).obj, g[k], u)
  <1> DEFINE r == release_fd(ev, e)
             x == ev.obj[e.object]
             y == r.obj[e.object]
             s == g[k]
  <1>1. /\ e.object \in ObjectId /\ x # NoObject
        /\ Decrement(x.refs) = Cardinality(Refers(f, e.object, Access))
        /\ LessReaders(x, e) = Cardinality(Refers(f, e.object, {"PipeRead"}))
        /\ LessWriters(x, e) = Cardinality(Refers(f, e.object, {"PipeWrite"}))
    BY ReleaseCounts
  <1>2. /\ \A o \in ObjectId : o # e.object => r.obj[o] = ev.obj[o]
        /\ Decrement(x.refs) # 0 =>
              /\ y.readers = LessReaders(x, e) /\ y.writers = LessWriters(x, e) /\ y.len = x.len
              /\ y.waiting_readers = IF LastReader(x, e) \/ LastWriter(x, e) THEN {} ELSE x.waiting_readers
              /\ y.waiting_writers = IF LastReader(x, e) THEN {} ELSE x.waiting_writers
        /\ r.wakes = ev.wakes \cup (IF LastReader(x, e) THEN x.waiting_writers ELSE {})
                               \cup (IF LastWriter(x, e) THEN x.waiting_readers ELSE {})
    BY Zenon, <1>1, ReleaseFields
  <1>3. s = f[k] /\ s \in LocalFd /\ s.access \in Access /\ s.object \in ObjectId
    BY DEF Puts, Good, Cells, Entry, Safe, NoFd, LocalFd, Access
  <1>4. CASE s.object # e.object
    <2>1. r.obj[s.object] = ev.obj[s.object] BY <1>2, <1>3, <1>4
    <2> QED BY <2>1 DEF Safe
  <1>5. CASE s.object = e.object
    <2>1. Decrement(x.refs) # 0 BY <1>1, <1>3, <1>5, Counted, PlacesCount
    <2>2. CASE s.access = "PipeRead"
      <3>1. LessReaders(x, e) > 0 BY <1>1, <1>3, <1>5, <2>2, Counted
      <3>2. ~LastReader(x, e) BY <3>1 DEF LastReader, LessReaders
      <3>3. x.len = 0 /\ x.writers > 0 /\ u \in x.waiting_readers BY <1>5, <2>2 DEF Safe
      <3>4. CASE LastWriter(x, e) BY <1>2, <3>3, <3>4
      <3>5. CASE ~LastWriter(x, e)
        <4>1. LessWriters(x, e) \in Nat BY <1>1, PlacesCount
        <4>2. LessWriters(x, e) > 0
          <5>1. CASE e.access = "PipeWrite" BY <3>5, <4>1, <5>1 DEF LastWriter, LessWriters
          <5>2. CASE e.access # "PipeWrite" BY <3>3, <5>2 DEF LessWriters
          <5> QED BY <5>1, <5>2
        <4> HIDE DEF r, x, y, s
        <4>3. y.len = 0 /\ y.writers > 0 /\ u \in y.waiting_readers BY <1>2, <2>1, <3>2, <3>3, <3>5, <4>2
        <4> QED BY <1>5, <2>2, <4>3 DEF Safe, y, s, r
      <3> QED BY <3>4, <3>5
    <2>3. CASE s.access = "PipeWrite"
      <3>1. LessWriters(x, e) > 0 BY <1>1, <1>3, <1>5, <2>3, Counted
      <3>2. ~LastWriter(x, e) BY <3>1 DEF LastWriter, LessWriters
      <3>3. x.len = PIPE_SIZE /\ x.readers > 0 /\ u \in x.waiting_writers BY <1>5, <2>3 DEF Safe
      <3>4. CASE LastReader(x, e) BY <1>2, <3>3, <3>4
      <3>5. CASE ~LastReader(x, e)
        <4>1. LessReaders(x, e) \in Nat BY <1>1, PlacesCount
        <4>2. LessReaders(x, e) > 0
          <5>1. CASE e.access = "PipeRead" BY <3>5, <4>1, <5>1 DEF LastReader, LessReaders
          <5>2. CASE e.access # "PipeRead" BY <3>3, <5>2 DEF LessReaders
          <5> QED BY <5>1, <5>2
        <4> HIDE DEF r, x, y, s
        <4>3. y.len = PIPE_SIZE /\ y.readers > 0 /\ u \in y.waiting_writers BY <1>2, <2>1, <3>2, <3>3, <3>5, <4>2
        <4> QED BY <1>5, <2>3, <4>3 DEF Safe, y, s, r
      <3> QED BY <3>4, <3>5
    <2> QED BY <2>2, <2>3 DEF Safe
  <1> QED BY <1>4, <1>5

\* Data goes to the disk with the last descriptor, or stays; as long as there is
\* another descriptor of the same kind nobody is woken and nothing committed.
LEMMA ReleaseKeeps ==
    ASSUME Basics, NEW ev \in Release, NEW g, Good(ev.obj, g), NEW h \in Cell, NEW e \in LocalFd, g[h] = e,
           NEW f \in Cells, Puts(g, h, NoFd, f)
    PROVE  LET r == release_fd(ev, e)
           IN  /\ \A o \in ObjectId : Dirty(ev.obj, o) => o \in r.commits \/ Dirty(r.obj, o)
               /\ ev.wakes \subseteq r.wakes /\ ev.commits \subseteq r.commits
               /\ (\E k \in Cell : f[k] = e) => r.wakes = ev.wakes /\ r.commits = ev.commits
  <1> DEFINE r == release_fd(ev, e)
             x == ev.obj[e.object]
             y == r.obj[e.object]
  <1>1. /\ e.object \in ObjectId /\ x # NoObject
        /\ Decrement(x.refs) = Cardinality(Refers(f, e.object, Access))
        /\ LessReaders(x, e) = Cardinality(Refers(f, e.object, {"PipeRead"}))
        /\ LessWriters(x, e) = Cardinality(Refers(f, e.object, {"PipeWrite"}))
    BY ReleaseCounts
  <1>2. /\ \A o \in ObjectId : o # e.object => r.obj[o] = ev.obj[o]
        /\ Decrement(x.refs) # 0 => y.kind = x.kind /\ y.dirty = x.dirty
        /\ r.wakes = ev.wakes \cup (IF LastReader(x, e) THEN x.waiting_writers ELSE {})
                               \cup (IF LastWriter(x, e) THEN x.waiting_readers ELSE {})
        /\ r.commits = IF Decrement(x.refs) = 0 /\ x.kind = "Writable" /\ x.dirty
                       THEN ev.commits \cup {e.object} ELSE ev.commits
    BY Zenon, <1>1, ReleaseFields
  <1>3. ASSUME NEW k \in Cell, f[k] = e PROVE r.wakes = ev.wakes /\ r.commits = ev.commits
    <2>1. e.access \in Access BY DEF LocalFd, Access
    <2>2. Decrement(x.refs) # 0 BY <1>1, <1>3, <2>1, Counted, PlacesCount
    <2>3. ~LastReader(x, e)
      <3> SUFFICES ASSUME e.access = "PipeRead", Decrement(x.readers) = 0 PROVE FALSE BY DEF LastReader
      <3>1. LessReaders(x, e) > 0 BY <1>1, <1>3, Counted
      <3> QED BY <3>1 DEF LessReaders
    <2>4. ~LastWriter(x, e)
      <3> SUFFICES ASSUME e.access = "PipeWrite", Decrement(x.writers) = 0 PROVE FALSE BY DEF LastWriter
      <3>1. LessWriters(x, e) > 0 BY <1>1, <1>3, Counted
      <3> QED BY <3>1 DEF LessWriters
    <2> QED BY <1>2, <2>2, <2>3, <2>4
  <1> HIDE DEF r, x
  <1>4. ASSUME NEW o \in ObjectId, Dirty(ev.obj, o) PROVE o \in r.commits \/ Dirty(r.obj, o)
    BY <1>2, <1>4 DEF Dirty, x
  <1>5. ev.wakes \subseteq r.wakes /\ ev.commits \subseteq r.commits BY <1>2
  <1> QED BY <1>3, <1>4, <1>5 DEF r

\* release_fd() yields objects, wake-ups and commits.
LEMMA ReleaseType ==
    ASSUME NEW ev \in Release, NEW e \in LocalFd
    PROVE  release_fd(ev, e) \in Release
  <1>1. CASE ev.obj[e.object] = NoObject BY <1>1 DEF release_fd
  <1>2. CASE ev.obj[e.object] # NoObject BY Zenon, <1>2, ReleaseFields
  <1> QED BY <1>1, <1>2

\* One round of the loop of drop_task().
ReleaseRound(table, i, r) == IF table[i - 1] = NoFd THEN r ELSE release_fd(r, table[i - 1])

\* f are the results of its rounds.
Rounds(f, ev, table) ==
    /\ f[0] = ev /\ \A i \in 1 .. MAX_FDS : f[i] = ReleaseRound(table, i, f[i - 1])
    /\ \A i \in 0 .. MAX_FDS : f[i] \in Release
    /\ ReleaseTable(ev, table) = f[MAX_FDS]

\* The loop has the results that its rounds say.
LEMMA ReleaseUnrolled ==
    ASSUME Basics, NEW ev \in Release, NEW table \in [Fd -> Entry]
    PROVE  \E f : Rounds(f, ev, table)
  <1> DEFINE N == MAX_FDS
             F == [i \in 1 .. N |-> [r \in Release |-> ReleaseRound(table, i, r)]]
             Is(f) == f = [n \in 0 .. N |-> IF n = 0 THEN ev
                                            ELSE IF table[n - 1] = NoFd THEN f[n - 1]
                                            ELSE release_fd(f[n - 1], table[n - 1])]
             after == CHOOSE f : Is(f)
  <1>1. N \in Nat BY VfsAssumption
  <1>2. \A i \in 1 .. N : \A r \in Release : ReleaseRound(table, i, r) \in Release
    <2>1. \A i \in 1 .. N : table[i - 1] \in LocalFd \cup {NoFd} BY <1>1 DEF Fd, Entry
    <2> QED BY <2>1, ReleaseType DEF ReleaseRound
  <1>3. ReleaseTable(ev, table) = after[N] BY DEF ReleaseTable
  <1> HIDE DEF after, N
  <1>4. F \in [1 .. N -> [Release -> Release]] BY <1>2
  <1> HIDE DEF F
  <1>5. PICK f : Unrolls(f, N, Release, ev, F) BY <1>1, <1>4 DEF Basics, Inducting
  <1>6. ASSUME NEW i \in 1 .. N PROVE f[i] = ReleaseRound(table, i, f[i - 1])
    <2>1. i - 1 \in 0 .. N BY <1>1
    <2>2. f[i - 1] \in Release BY <1>5, <2>1 DEF Unrolls
    <2>3. F[i][f[i - 1]] = ReleaseRound(table, i, f[i - 1]) BY <2>2 DEF F
    <2> QED BY <1>5, <2>3 DEF Unrolls
  <1>7. Is(f)
    <2> DEFINE g == [n \in 0 .. N |-> IF n = 0 THEN ev
                                      ELSE IF table[n - 1] = NoFd THEN f[n - 1]
                                      ELSE release_fd(f[n - 1], table[n - 1])]
    <2>1. ASSUME NEW i \in 0 .. N PROVE f[i] = g[i]
      <3>1. CASE i = 0 BY <1>5, <3>1 DEF Unrolls
      <3>2. CASE i \in 1 .. N BY <1>6, <3>2 DEF ReleaseRound
      <3> QED BY <1>1, <3>1, <3>2
    <2> HIDE DEF g
    <2>2. f = [i \in 0 .. N |-> f[i]] BY <1>5 DEF Unrolls
    <2>3. g = [i \in 0 .. N |-> g[i]] BY DEF g
    <2>4. f = g BY <2>1, <2>2, <2>3
    <2> QED BY Zenon, <2>4 DEF g
  <1>8. Is(after) BY Zenon, <1>7 DEF after
  <1>9. after[0] = ev BY <1>1, <1>8
  <1>10. ASSUME NEW i \in 1 .. N PROVE after[i] = ReleaseRound(table, i, after[i - 1])
    <2>1. i \in 0 .. N /\ i # 0 BY <1>1
    <2> QED BY Zenon, <1>8, <2>1 DEF ReleaseRound
  <1>11. \A i \in 0 .. N : after[i] \in Release
    <2> DEFINE T == {i \in 0 .. N : after[i] \in Release}
    <2>1. 0 \in T BY <1>1, <1>9
    <2>2. ASSUME NEW i \in 0 .. (N - 1), i \in T PROVE i + 1 \in T
      <3>1. i + 1 \in 1 .. N /\ (i + 1) - 1 = i BY <1>1
      <3> QED BY <1>2, <1>10, <2>2, <3>1
    <2> HIDE DEF T
    <2>3. 0 .. N \subseteq T BY <1>1, <2>1, <2>2, UpTo
    <2> QED BY <2>3 DEF T
  <1>12. Rounds(after, ev, table) BY <1>3, <1>9, <1>10, <1>11 DEF Rounds, N
  <1> QED BY <1>12

\* The loop of drop_task() ends with objects, tasks to wake and files to commit.
LEMMA ReleaseTableType ==
    ASSUME Basics, NEW ev \in Release, NEW table \in [Fd -> Entry]
    PROVE  ReleaseTable(ev, table) \in Release
  <1>1. PICK f : Rounds(f, ev, table) BY ReleaseUnrolled
  <1>2. MAX_FDS \in 0 .. MAX_FDS BY VfsAssumption
  <1> QED BY <1>1, <1>2 DEF Rounds

\* The places of c hold the table, the others what they hold in g.
With(g, c, table) == [h \in Cell |-> IF h[1] = c THEN table[h[2]] ELSE g[h]]
NoFds == [fd \in Fd |-> NoFd]

\* What the first n rounds have made of obj: the places of c below n are empty.
Released(obj, g, c, n, r) ==
    /\ r \in Release
    /\ Good(r.obj, [h \in Cell |-> IF h[1] = c /\ h[2] < n THEN NoFd ELSE g[h]])
    /\ \A k \in Cell, u \in Task : k[1] # c /\ Safe(obj, g[k], u) => u \in r.wakes \/ Safe(r.obj, g[k], u)
    /\ \A o \in ObjectId : Dirty(obj, o) => o \in r.commits \/ Dirty(r.obj, o)
    /\ (\A fd \in Fd : g[<<c, fd>>] # NoFd => \E k \in Cell : k[1] # c /\ g[k] = g[<<c, fd>>])
         => r.wakes = {} /\ r.commits = {}

\* One round more.
LEMMA ReleaseOne ==
    ASSUME Basics, NEW obj, NEW g, NEW c \in Task, NEW n \in Fd, NEW table, \A fd \in Fd : table[fd] = g[<<c, fd>>],
           NEW r, Released(obj, g, c, n, r), g \in Cells
    PROVE  Released(obj, g, c, n + 1, ReleaseRound(table, n + 1, r))
  <1> DEFINE gn == [h \in Cell |-> IF h[1] = c /\ h[2] < n THEN NoFd ELSE g[h]]
             gm == [h \in Cell |-> IF h[1] = c /\ h[2] < n + 1 THEN NoFd ELSE g[h]]
             h == <<c, n>>
             e == g[h]
             s == ReleaseRound(table, n + 1, r)
  <1>1. n \in Nat /\ (n + 1) - 1 = n /\ h \in Cell /\ h[1] = c /\ h[2] = n /\ e \in Entry
    BY VfsAssumption DEF Fd, Cell, Cells
  <1>2. \A k \in Cell : k[1] \in Task /\ k[2] \in Nat /\ (k[1] = c /\ k[2] = n => k = h)
    BY VfsAssumption DEF Cell, Fd
  <1>3. s = IF e = NoFd THEN r ELSE release_fd(r, e) BY <1>1 DEF ReleaseRound
  <1>4. gn \in Cells /\ gm \in Cells /\ gn[h] = e /\ gm[h] = NoFd
    BY <1>1 DEF Cells, Entry
  <1>5. \A k \in Cell : k # h => gm[k] = gn[k]
    BY <1>1, <1>2
  <1>6. Puts(gn, h, NoFd, gm) BY <1>4, <1>5 DEF Puts
  <1>7. r \in Release /\ Good(r.obj, gn) BY DEF Released
  <1>8. \A k \in Cell : k[1] # c => k # h /\ gn[k] = g[k] /\ gm[k] = g[k] BY <1>1
  <1>9. CASE e = NoFd
    <2>1. gm = gn
      <3>1. \A k \in Cell : gm[k] = gn[k] BY <1>4, <1>5, <1>9
      <3> HIDE DEF e, h
      <3> QED BY <1>2, <3>1
    <2>2. s = r BY <1>3, <1>9
    <2>3. /\ \A k \in Cell, u \in Task : k[1] # c /\ Safe(obj, g[k], u) => u \in r.wakes \/ Safe(r.obj, g[k], u)
          /\ \A o \in ObjectId : Dirty(obj, o) => o \in r.commits \/ Dirty(r.obj, o)
          /\ (\A fd \in Fd : g[<<c, fd>>] # NoFd => \E k \in Cell : k[1] # c /\ g[k] = g[<<c, fd>>])
               => r.wakes = {} /\ r.commits = {}
      BY DEF Released
    <2>4. r \in Release /\ Good(r.obj, gm) BY <1>7, <2>1
    <2>5. Released(obj, g, c, n + 1, r) BY <2>3, <2>4 DEF Released
    <2> QED BY <2>2, <2>5
  <1>10. CASE e # NoFd
    <2>1. e \in LocalFd /\ s = release_fd(r, e) BY <1>1, <1>3, <1>10 DEF Entry
    <2> HIDE DEF gn, gm, e, h, s
    <2>2. s \in Release /\ Good(s.obj, gm) BY <1>1, <1>4, <1>6, <1>7, <2>1, GoodRelease
    <2>3. /\ \A o \in ObjectId : Dirty(r.obj, o) => o \in s.commits \/ Dirty(s.obj, o)
          /\ r.wakes \subseteq s.wakes /\ r.commits \subseteq s.commits
          /\ (\E k \in Cell : gm[k] = e) => s.wakes = r.wakes /\ s.commits = r.commits
      BY <1>1, <1>4, <1>6, <1>7, <2>1, ReleaseKeeps
    <2>4. ASSUME NEW k \in Cell, NEW u \in Task, k[1] # c, Safe(obj, g[k], u)
          PROVE  u \in s.wakes \/ Safe(s.obj, g[k], u)
      <3>1. u \in r.wakes \/ Safe(r.obj, g[k], u) BY <2>4 DEF Released
      <3>2. CASE u \in r.wakes BY <2>3, <3>2
      <3>3. CASE Safe(r.obj, g[k], u)
        <4>1. k # h /\ gn[k] = g[k] BY <1>8, <2>4
        <4>2. Safe(r.obj, gn[k], u) BY <3>3, <4>1
        <4>3. u \in s.wakes \/ Safe(s.obj, gn[k], u)
          BY <1>1, <1>4, <1>6, <1>7, <2>1, <4>1, <4>2, ReleaseSafe
        <4> QED BY <4>1, <4>3
      <3> QED BY <3>1, <3>2, <3>3
    <2>5. ASSUME NEW o \in ObjectId, Dirty(obj, o) PROVE o \in s.commits \/ Dirty(s.obj, o)
      <3>1. o \in r.commits \/ Dirty(r.obj, o) BY <2>5 DEF Released
      <3> QED BY <2>3, <3>1
    <2>6. ASSUME \A fd \in Fd : g[<<c, fd>>] # NoFd => \E k \in Cell : k[1] # c /\ g[k] = g[<<c, fd>>]
          PROVE  s.wakes = {} /\ s.commits = {}
      <3>1. r.wakes = {} /\ r.commits = {} BY <2>6 DEF Released
      <3>2. PICK k \in Cell : k[1] # c /\ g[k] = e BY <1>10, <2>6 DEF e, h
      <3>3. gm[k] = e BY <1>8, <3>2
      <3> QED BY <2>3, <3>1, <3>3
    <2>7. Good(s.obj, [k \in Cell |-> IF k[1] = c /\ k[2] < n + 1 THEN NoFd ELSE g[k]]) BY <2>2 DEF gm
    <2>8. Released(obj, g, c, n + 1, s) BY <2>2, <2>4, <2>5, <2>6, <2>7 DEF Released
    <2> QED BY <2>8 DEF s
  <1> QED BY <1>9, <1>10

\* The descriptors of c are those of the table, and f is g without them.
Emptied(g, c, table, f) ==
    /\ f \in Cells /\ \A fd \in Fd : table[fd] = g[<<c, fd>>]
    /\ \A k \in Cell : f[k] = IF k[1] = c THEN NoFd ELSE g[k]

\* What the release r of all of them leaves: counts that are right, nobody who
\* sleeps for nothing, no data lost, and no wake-up or save when every object
\* has another descriptor.
Cleared(obj, g, c, table, f, r) ==
    /\ r \in Release /\ Good(r.obj, f)
    /\ \A k \in Cell, u \in Task : k[1] # c /\ Safe(obj, g[k], u) => u \in r.wakes \/ Safe(r.obj, g[k], u)
    /\ \A o \in ObjectId : Dirty(obj, o) => o \in r.commits \/ Dirty(r.obj, o)
    /\ (\A fd \in Fd : table[fd] # NoFd => \E k \in Cell : k[1] # c /\ g[k] = table[fd])
         => r.wakes = {} /\ r.commits = {}

\* drop_task() over the table of c.
LEMMA ReleaseAll ==
    ASSUME Basics, NEW obj, NEW g, Good(obj, g), NEW c \in Task, NEW table \in [Fd -> Entry],
           NEW f, Emptied(g, c, table, f)
    PROVE  Cleared(obj, g, c, table, f, ReleaseTable(Event(obj), table))
  <1> DEFINE r == ReleaseTable(Event(obj), table)
             at0 == [h \in Cell |-> IF h[1] = c /\ h[2] < 0 THEN NoFd ELSE g[h]]
             atN == [h \in Cell |-> IF h[1] = c /\ h[2] < MAX_FDS THEN NoFd ELSE g[h]]
  <1>1. Event(obj) \in Release /\ Event(obj).obj = obj /\ Event(obj).wakes = {} /\ Event(obj).commits = {}
    BY DEF Event, Release, Good
  <1>2. PICK a : Rounds(a, Event(obj), table) BY <1>1, ReleaseUnrolled
  <1>3. \A k \in Cell : k[1] \in Task /\ k[2] \in Nat /\ ~(k[2] < 0) /\ k[2] < MAX_FDS
    BY VfsAssumption DEF Cell, Fd
  <1>4. g \in Cells BY DEF Good
  <1>0. f \in Cells /\ (\A fd \in Fd : table[fd] = g[<<c, fd>>])
        /\ \A k \in Cell : f[k] = IF k[1] = c THEN NoFd ELSE g[k]
    BY DEF Emptied
  <1>5. at0 = g BY <1>3, <1>4 DEF Cells
  <1>6. atN = f
    <2>1. \A k \in Cell : atN[k] = f[k] BY <1>0, <1>3
    <2> QED BY <1>0, <2>1 DEF Cells
  <1> DEFINE K == {n \in 0 .. MAX_FDS : Released(obj, g, c, n, a[n])}
  <1>7. 0 \in K
    <2>1. a[0] = Event(obj) BY <1>2 DEF Rounds
    <2>2. Good(obj, at0) BY <1>5
    <2>3. Released(obj, g, c, 0, a[0])
      <3> HIDE DEF at0
      <3>1. Good(a[0].obj, [h \in Cell |-> IF h[1] = c /\ h[2] < 0 THEN NoFd ELSE g[h]])
        BY <1>1, <2>1, <2>2 DEF at0
      <3> QED BY <1>1, <2>1, <3>1 DEF Released
    <2> QED BY <2>3, VfsAssumption
  <1>8. ASSUME NEW n \in 0 .. MAX_FDS - 1, n \in K PROVE n + 1 \in K
    <2>1. n \in Fd /\ n + 1 \in 1 .. MAX_FDS /\ (n + 1) - 1 = n BY VfsAssumption DEF Fd
    <2>2. a[n + 1] = ReleaseRound(table, n + 1, a[n]) BY <1>2, <2>1 DEF Rounds
    <2>3. Released(obj, g, c, n, a[n]) BY <1>8
    <2>4. Released(obj, g, c, n + 1, a[n + 1]) BY <1>0, <1>4, <2>1, <2>2, <2>3, ReleaseOne
    <2> QED BY <2>1, <2>4
  <1>9. MAX_FDS \in K
    <2> HIDE DEF K
    <2>1. MAX_FDS \in Nat /\ MAX_FDS \in 0 .. MAX_FDS BY VfsAssumption
    <2>2. 0 .. MAX_FDS \subseteq K BY <1>7, <1>8, <2>1, UpTo
    <2> QED BY <2>1, <2>2
  <1>10. r = a[MAX_FDS] BY <1>2 DEF Rounds
  <1>11. Released(obj, g, c, MAX_FDS, r) BY <1>9, <1>10
  <1>12. Good(r.obj, atN) BY <1>11 DEF Released
  <1> HIDE DEF r
  <1>13. Released(obj, g, c, MAX_FDS, r) /\ Good(r.obj, f) BY <1>6, <1>11, <1>12
  <1>14. /\ r \in Release
         /\ \A k \in Cell, u \in Task : k[1] # c /\ Safe(obj, g[k], u) => u \in r.wakes \/ Safe(r.obj, g[k], u)
         /\ \A o \in ObjectId : Dirty(obj, o) => o \in r.commits \/ Dirty(r.obj, o)
         /\ (\A fd \in Fd : table[fd] # NoFd => \E k \in Cell : k[1] # c /\ g[k] = table[fd])
              => r.wakes = {} /\ r.commits = {}
    BY <1>0, <1>11 DEF Released
  <1>15. Cleared(obj, g, c, table, f, r) BY Zenon, <1>13, <1>14 DEF Cleared
  <1> QED BY Zenon, <1>15 DEF r

\* A descriptor in a place has an object.
LEMMA ObjectBehind ==
    ASSUME Basics, NEW obj, NEW g, Good(obj, g), NEW h \in Cell, g[h] # NoFd
    PROVE  g[h] \in LocalFd /\ g[h].object \in ObjectId /\ obj[g[h].object] # NoObject
  <1> DEFINE e == g[h]
  <1>1. e \in LocalFd /\ e.object \in ObjectId /\ e.access \in Access
    BY DEF Good, Cells, Entry, LocalFd, Access
  <1>2. Cardinality(Refers(g, e.object, Access)) > 0 BY <1>1, Counted DEF Good
  <1>3. obj[e.object].refs = Cardinality(Refers(g, e.object, Access)) BY <1>1 DEF Good, Counts
  <1>4. obj[e.object].refs # 0 BY <1>2, <1>3, PlacesCount
  <1> QED BY <1>1, <1>4 DEF NoObject

\* retain_fd() changes nothing that a sleeper waits for and no data.
LEMMA RetainCalm ==
    ASSUME NEW obj \in Objects, NEW e \in LocalFd
    PROVE  /\ \A s \in Entry, u \in Task : Safe(obj, s, u) => Safe(retain_fd(obj, e), s, u)
           /\ \A o \in ObjectId : Dirty(obj, o) => Dirty(retain_fd(obj, e), o)
  <1> DEFINE r == retain_fd(obj, e)
             x == obj[e.object]
             y == r[e.object]
  <1>1. /\ e.object \in ObjectId /\ x \in AnyObject
        /\ r \in Objects /\ \A o \in ObjectId : o # e.object => r[o] = obj[o]
        /\ y.readers = IF e.access = "PipeRead" THEN x.readers + 1 ELSE x.readers
        /\ y.writers = IF e.access = "PipeWrite" THEN x.writers + 1 ELSE x.writers
        /\ y.kind = x.kind /\ y.len = x.len /\ y.dirty = x.dirty
        /\ y.waiting_readers = x.waiting_readers /\ y.waiting_writers = x.waiting_writers
    BY RetainFields DEF Objects, LocalFd
  <1>2. x.readers \in Nat /\ x.writers \in Nat BY <1>1 DEF AnyObject
  <1>3. /\ x.readers > 0 => y.readers > 0
        /\ x.writers > 0 => y.writers > 0
    BY <1>1, <1>2
  <1> HIDE DEF r
  <1>4. ASSUME NEW s \in Entry, NEW u \in Task, Safe(obj, s, u) PROVE Safe(r, s, u)
    <2>1. s.object \in ObjectId BY <1>4 DEF Safe, Entry, NoFd, LocalFd
    <2>2. CASE s.object # e.object
      <3>1. r[s.object] = obj[s.object] BY <1>1, <2>1, <2>2
      <3> QED BY <1>4, <3>1 DEF Safe
    <2>3. CASE s.object = e.object BY <1>1, <1>3, <1>4, <2>3 DEF Safe
    <2> QED BY <2>2, <2>3
  <1>5. ASSUME NEW o \in ObjectId, Dirty(obj, o) PROVE Dirty(r, o) BY Zenon, <1>1, <1>5 DEF Dirty
  <1> QED BY <1>4, <1>5 DEF r

\* What a spawn has made of obj so far: its table refers to descriptors that
\* exist elsewhere, in slots of S only; a failure has given everything back.
Inherited(obj, g, c, S, acc) ==
    /\ acc \in [ok : BOOLEAN, obj : Objects, table : [Fd -> Entry]]
    /\ acc.ok => /\ Good(acc.obj, With(g, c, acc.table))
                 /\ \A fd \in Fd : acc.table[fd] # NoFd =>
                       fd \in S /\ \E k \in Cell : k[1] # c /\ g[k] = acc.table[fd]
    /\ ~acc.ok => Good(acc.obj, g)
    /\ \A k \in Cell, u \in Task : k[1] # c /\ Safe(obj, g[k], u) => Safe(acc.obj, g[k], u)
    /\ \A o \in ObjectId : Dirty(obj, o) => Dirty(acc.obj, o)

\* One mapping of inherit_fds() gives the child one more descriptor and its object
\* one more reference, or fails and changes nothing.
LEMMA InheritOne ==
    ASSUME Basics, NEW obj, NEW g \in Cells, NEW c \in Task, NEW S, NEW acc, Inherited(obj, g, c, S, acc),
           \A fd \in Fd : g[<<c, fd>>] = NoFd,
           NEW parent \in Task, parent # c, \A fd \in Fd : fds[parent][fd] = g[<<parent, fd>>],
           NEW m \in Fd \X Fd, m[2] \notin S
    PROVE  Inherited(obj, g, c, S \cup {m[2]}, Inherit(acc, m, parent))
  <1> DEFINE a == m[1]
             b == m[2]
             entry == fds[parent][a]
             h == <<c, b>>
             w == With(g, c, acc.table)
             roll == ReleaseTable(Event(acc.obj), acc.table)
             new == [acc.table EXCEPT ![b] = entry]
             got == retain_fd(acc.obj, entry)
             res == Inherit(acc, m, parent)
  <1>1. /\ a \in Fd /\ b \in Fd /\ h \in Cell /\ <<parent, a>> \in Cell /\ entry \in Entry
        /\ entry = g[<<parent, a>>] /\ h[1] = c /\ h[2] = b
    BY DEF Cell, Cells
  <1>2. acc.ok \in BOOLEAN /\ acc.obj \in Objects /\ acc.table \in [Fd -> Entry] BY DEF Inherited
  <1>3. /\ \A k \in Cell, u \in Task : k[1] # c /\ Safe(obj, g[k], u) => Safe(acc.obj, g[k], u)
        /\ \A o \in ObjectId : Dirty(obj, o) => Dirty(acc.obj, o)
    BY DEF Inherited
  <1>4. \A k \in Cell : k[1] \in Task /\ k[2] \in Fd /\ k = <<k[1], k[2]>> BY DEF Cell
  <1>5. CASE ~acc.ok
    <2>1. res = acc BY <1>5 DEF Inherit
    <2>2. Inherited(obj, g, c, S \cup {b}, acc) BY <1>5 DEF Inherited
    <2> QED BY <2>1, <2>2
  <1>6. ASSUME acc.ok
        PROVE  /\ Good(acc.obj, w) /\ acc.table[b] = NoFd
               /\ \A fd \in Fd : acc.table[fd] # NoFd =>
                     fd \in S /\ \E k \in Cell : k[1] # c /\ g[k] = acc.table[fd]
    BY <1>1, <1>6 DEF Inherited
  <1>7. CASE acc.ok /\ entry = NoFd
    <2>1. res = [ok |-> FALSE, obj |-> roll.obj, table |-> acc.table] BY <1>7 DEF Inherit
    <2>2. Good(acc.obj, w) BY <1>6, <1>7
    <2>3. \A fd \in Fd : acc.table[fd] = w[<<c, fd>>] BY DEF With, Cell
    <2>4. \A k \in Cell : g[k] = IF k[1] = c THEN NoFd ELSE w[k] BY <1>4 DEF With
    <2>5. \A k \in Cell : k[1] # c => w[k] = g[k] BY <2>4
    <2>6. ASSUME NEW fd \in Fd, acc.table[fd] # NoFd PROVE \E k \in Cell : k[1] # c /\ w[k] = acc.table[fd]
      BY <1>6, <1>7, <2>5, <2>6
    <2> HIDE DEF w, roll, res
    <2>14. Emptied(w, c, acc.table, g) BY <2>3, <2>4 DEF Emptied, Good
    <2>15. Cleared(acc.obj, w, c, acc.table, g, roll) BY Zenon, <1>2, <2>2, <2>14, ReleaseAll DEF roll
    <2>7. /\ roll \in Release /\ Good(roll.obj, g)
          /\ \A k \in Cell, u \in Task : k[1] # c /\ Safe(acc.obj, w[k], u)
                                          => u \in roll.wakes \/ Safe(roll.obj, w[k], u)
          /\ \A o \in ObjectId : Dirty(acc.obj, o) => o \in roll.commits \/ Dirty(roll.obj, o)
          /\ (\A fd \in Fd : acc.table[fd] # NoFd => \E k \in Cell : k[1] # c /\ w[k] = acc.table[fd])
               => roll.wakes = {} /\ roll.commits = {}
      BY Zenon, <2>15 DEF Cleared
    <2>8. roll.wakes = {} /\ roll.commits = {} BY Zenon, <2>6, <2>7
    <2>9. roll.obj \in Objects BY <2>7 DEF Release
    <2>10. /\ res.ok = FALSE /\ res.obj = roll.obj
           /\ res \in [ok : BOOLEAN, obj : Objects, table : [Fd -> Entry]]
      BY <1>2, <2>1, <2>9
    <2>11. \A k \in Cell, u \in Task : k[1] # c /\ Safe(obj, g[k], u) => Safe(roll.obj, g[k], u)
      BY <1>3, <2>5, <2>7, <2>8
    <2>12. \A o \in ObjectId : Dirty(obj, o) => Dirty(roll.obj, o) BY <1>3, <2>7, <2>8
    <2>13. Inherited(obj, g, c, S \cup {b}, res) BY <2>7, <2>10, <2>11, <2>12 DEF Inherited
    <2> QED BY <2>13 DEF res
  <1>8. CASE acc.ok /\ entry # NoFd
    <2>1. acc.table[b] = NoFd BY <1>6, <1>8
    <2>2. res = [ok |-> TRUE, obj |-> got, table |-> new] BY <1>8, <2>1 DEF Inherit
    <2>3. new \in [Fd -> Entry] /\ new[b] = entry /\ \A fd \in Fd : fd # b => new[fd] = acc.table[fd]
      BY <1>1, <1>2
    <2>4. w \in Cells /\ With(g, c, new) \in Cells BY <1>2, <1>4, <2>3 DEF Cells, With
    <2>5. w[h] = NoFd /\ w[<<parent, a>>] = entry BY <1>1, <2>1 DEF With
    <2>6. Puts(w, h, entry, With(g, c, new))
      <3>1. With(g, c, new)[h] = entry BY <1>1, <2>3 DEF With
      <3>2. ASSUME NEW k \in Cell, k # h PROVE With(g, c, new)[k] = w[k]
        <4>1. k[1] = c => k[2] # b BY <1>4, <3>2
        <4> QED BY <1>4, <2>3, <4>1 DEF With
      <3> QED BY <3>1, <3>2 DEF Puts
    <2>7. Good(acc.obj, w) BY <1>6, <1>8
    <2> HIDE DEF w, new, res, h, entry
    <2>8. entry \in LocalFd /\ acc.obj[entry.object] # NoObject BY <1>1, <1>8, <2>5, <2>7, ObjectBehind
    <2>9. Good(got, With(g, c, new)) BY <1>1, <2>4, <2>5, <2>6, <2>7, <2>8, GoodRetain
    <2>10. /\ \A s \in Entry, u \in Task : Safe(acc.obj, s, u) => Safe(got, s, u)
           /\ \A o \in ObjectId : Dirty(acc.obj, o) => Dirty(got, o)
      BY <1>2, <2>8, RetainCalm
    <2> HIDE DEF got
    <2>11. got \in Objects BY <2>9 DEF Good
    <2>12. /\ res.ok = TRUE /\ res.obj = got /\ res.table = new
           /\ res \in [ok : BOOLEAN, obj : Objects, table : [Fd -> Entry]]
      BY <2>2, <2>3, <2>11
    <2>13. ASSUME NEW fd \in Fd, new[fd] # NoFd
           PROVE  fd \in S \cup {b} /\ \E k \in Cell : k[1] # c /\ g[k] = new[fd]
      <3>1. CASE fd = b
        <4>1. g[<<parent, a>>] = new[fd] /\ <<parent, a>> \in Cell /\ <<parent, a>>[1] # c BY <1>1, <2>3, <3>1
        <4> QED BY <3>1, <4>1
      <3>2. CASE fd # b
        <4>1. acc.table[fd] = new[fd] BY <2>3, <3>2
        <4> QED BY <1>6, <1>8, <2>13, <4>1
      <3> QED BY <3>1, <3>2
    <2>14. \A k \in Cell, u \in Task : k[1] # c /\ Safe(obj, g[k], u) => Safe(got, g[k], u)
      <3>1. \A k \in Cell : g[k] \in Entry BY DEF Cells
      <3> QED BY <1>3, <2>10, <3>1
    <2>15. \A o \in ObjectId : Dirty(obj, o) => Dirty(got, o) BY <1>3, <2>10
    <2>16. Inherited(obj, g, c, S \cup {b}, res) BY <2>9, <2>12, <2>13, <2>14, <2>15 DEF Inherited
    <2> QED BY <2>16 DEF res
  <1> QED BY <1>2, <1>5, <1>7, <1>8

Acc == [ok : BOOLEAN, obj : Objects, table : [Fd -> Entry]]
Nothing == [ok |-> TRUE, obj |-> objects, table |-> NoFds]

\* One mapping of inherit_fds() yields objects and a table.
LEMMA InheritType ==
    ASSUME Basics, fds \in [Task -> [Fd -> Entry]], NEW parent \in Task, NEW acc \in Acc, NEW m \in Fd \X Fd
    PROVE  Inherit(acc, m, parent) \in Acc
  <1> DEFINE entry == fds[parent][m[1]]
             roll == ReleaseTable(Event(acc.obj), acc.table)
  <1>1. /\ entry \in Entry /\ m[2] \in Fd
        /\ acc.ok \in BOOLEAN /\ acc.obj \in Objects /\ acc.table \in [Fd -> Entry]
    BY DEF Acc
  <1>2. Event(acc.obj) \in Release BY <1>1 DEF Event, Release
  <1>3. roll \in Release BY <1>1, <1>2, ReleaseTableType
  <1>4. roll.obj \in Objects BY <1>3 DEF Release
  <1>5. entry # NoFd => entry \in LocalFd BY <1>1 DEF Entry
  <1> HIDE DEF entry, roll
  <1>6. \A obj \in Objects : entry # NoFd => retain_fd(obj, entry) \in Objects BY <1>5, RetainFields
  <1>7. [acc.table EXCEPT ![m[2]] = entry] \in [Fd -> Entry] BY <1>1
  <1>8. CASE ~acc.ok BY <1>8 DEF Inherit
  <1>9. CASE acc.ok /\ entry = NoFd
    <2>1. Inherit(acc, m, parent) = [ok |-> FALSE, obj |-> roll.obj, table |-> acc.table]
      BY <1>9 DEF Inherit, entry, roll
    <2> QED BY <1>1, <1>4, <2>1 DEF Acc
  <1>10. CASE acc.ok /\ entry # NoFd /\ acc.table[m[2]] # NoFd
    <2>1. Inherit(acc, m, parent) = [ok |-> FALSE, obj |-> retain_fd(roll.obj, entry), table |-> acc.table]
      BY <1>10 DEF Inherit, entry, roll
    <2> QED BY <1>1, <1>4, <1>6, <1>10, <2>1 DEF Acc
  <1>11. CASE acc.ok /\ entry # NoFd /\ acc.table[m[2]] = NoFd
    <2>1. Inherit(acc, m, parent) = [ok |-> TRUE, obj |-> retain_fd(acc.obj, entry),
                                     table |-> [acc.table EXCEPT ![m[2]] = entry]]
      BY <1>11 DEF Inherit, entry, roll
    <2> QED BY <1>1, <1>6, <1>7, <1>11, <2>1 DEF Acc
  <1> QED BY <1>1, <1>8, <1>9, <1>10, <1>11

\* f are the results of the turns of inherit_fds().
Turns(f, parent, mappings) ==
    /\ f[0] = Nothing /\ \A i \in 1 .. Len(mappings) : f[i] = Inherit(f[i - 1], mappings[i], parent)
    /\ inherit_fds(parent, mappings) = f[Len(mappings)]

\* The loop of inherit_fds() takes the mappings one after the other.
LEMMA InheritUnrolled ==
    ASSUME Basics, objects \in Objects, fds \in [Task -> [Fd -> Entry]], NEW parent \in Task,
           NEW mappings, Len(mappings) \in Nat, \A i \in 1 .. Len(mappings) : mappings[i] \in Fd \X Fd
    PROVE  \E f : Turns(f, parent, mappings)
  <1> DEFINE N == Len(mappings)
             F == [i \in 1 .. N |-> [r \in Acc |-> Inherit(r, mappings[i], parent)]]
             Is(f) == f = [n \in 0 .. N |-> IF n = 0 THEN [ok |-> TRUE, obj |-> objects, table |-> [fd \in Fd |-> NoFd]]
                                            ELSE Inherit(f[n - 1], mappings[n], parent)]
             after == CHOOSE f : Is(f)
  <1>1. N \in Nat OBVIOUS
  <1>2. \A i \in 1 .. N : \A r \in Acc : Inherit(r, mappings[i], parent) \in Acc BY InheritType
  <1>3. inherit_fds(parent, mappings) = after[N] BY DEF inherit_fds
  <1>4. Nothing \in Acc BY DEF Nothing, NoFds, Acc, Entry
  <1> HIDE DEF after, N
  <1>5. F \in [1 .. N -> [Acc -> Acc]] BY <1>2
  <1> HIDE DEF F
  <1>6. PICK f : Unrolls(f, N, Acc, Nothing, F) BY <1>1, <1>4, <1>5 DEF Basics, Inducting
  <1>7. ASSUME NEW i \in 1 .. N PROVE f[i] = Inherit(f[i - 1], mappings[i], parent)
    <2>1. i - 1 \in 0 .. N BY <1>1
    <2>2. f[i - 1] \in Acc BY <1>6, <2>1 DEF Unrolls
    <2>3. F[i][f[i - 1]] = Inherit(f[i - 1], mappings[i], parent) BY <2>2 DEF F
    <2> QED BY <1>6, <2>3 DEF Unrolls
  <1>8. Is(f)
    <2> DEFINE g == [n \in 0 .. N |-> IF n = 0 THEN Nothing ELSE Inherit(f[n - 1], mappings[n], parent)]
    <2>1. ASSUME NEW i \in 0 .. N PROVE f[i] = g[i]
      <3>1. CASE i = 0 BY <1>6, <3>1 DEF Unrolls
      <3>2. CASE i \in 1 .. N BY <1>7, <3>2
      <3> QED BY <1>1, <3>1, <3>2
    <2> HIDE DEF g
    <2>2. f = [i \in 0 .. N |-> f[i]] BY <1>6 DEF Unrolls
    <2>3. g = [i \in 0 .. N |-> g[i]] BY DEF g
    <2>4. f = g BY <2>1, <2>2, <2>3
    <2> QED BY Zenon, <2>4 DEF g, Nothing, NoFds
  <1>9. Is(after) BY Zenon, <1>8 DEF after
  <1>10. after[0] = Nothing BY <1>1, <1>9 DEF Nothing, NoFds
  <1>11. ASSUME NEW i \in 1 .. N PROVE after[i] = Inherit(after[i - 1], mappings[i], parent)
    <2>1. i \in 0 .. N /\ i # 0 BY <1>1
    <2> QED BY Zenon, <1>9, <2>1
  <1>12. Turns(after, parent, mappings) BY <1>3, <1>10, <1>11 DEF Turns, N
  <1> QED BY <1>12

\* inherit_fds() with at most one mapping to a slot.
LEMMA InheritFds ==
    ASSUME Basics, NEW g, Good(objects, g), fds \in [Task -> [Fd -> Entry]],
           NEW c \in Task, \A fd \in Fd : g[<<c, fd>>] = NoFd,
           NEW parent \in Task, parent # c, \A fd \in Fd : fds[parent][fd] = g[<<parent, fd>>],
           NEW mappings, Len(mappings) \in Nat, \A i \in 1 .. Len(mappings) : mappings[i] \in Fd \X Fd,
           \A i, j \in 1 .. Len(mappings) : i # j => mappings[i][2] # mappings[j][2]
    PROVE  Inherited(objects, g, c, Fd, inherit_fds(parent, mappings))
  <1> DEFINE N == Len(mappings)
             S(n) == {mappings[i][2] : i \in 1 .. n}
  <1>1. objects \in Objects /\ g \in Cells /\ N \in Nat BY Zenon DEF Good
  <1>2. PICK a : Turns(a, parent, mappings) BY Zenon, <1>1, InheritUnrolled
  <1> DEFINE K == {n \in 0 .. N : Inherited(objects, g, c, S(n), a[n])}
  <1>3. 0 \in K
    <2>1. a[0] = Nothing BY <1>2 DEF Turns
    <2>2. With(g, c, NoFds) = g
      <3>1. \A k \in Cell : k[1] \in Task /\ k[2] \in Fd /\ k = <<k[1], k[2]>> BY DEF Cell
      <3>2. \A k \in Cell : With(g, c, NoFds)[k] = g[k] BY <3>1 DEF With, NoFds
      <3>3. With(g, c, NoFds) = [k \in Cell |-> With(g, c, NoFds)[k]] BY DEF With
      <3>4. g = [k \in Cell |-> g[k]] BY <1>1 DEF Cells
      <3> QED BY <3>2, <3>3, <3>4
    <2>3. /\ Nothing \in [ok : BOOLEAN, obj : Objects, table : [Fd -> Entry]]
          /\ Nothing.ok = TRUE /\ Nothing.obj = objects /\ Nothing.table = NoFds
          /\ \A fd \in Fd : NoFds[fd] = NoFd
      BY <1>1 DEF Nothing, NoFds, Entry
    <2>4. Inherited(objects, g, c, S(0), Nothing)
      <3> HIDE DEF S
      <3> QED BY <2>2, <2>3 DEF Inherited
    <2> QED BY <1>1, <2>1, <2>4
  <1>4. ASSUME NEW n \in 0 .. N - 1, n \in K PROVE n + 1 \in K
    <2>1. n + 1 \in 1 .. N /\ (n + 1) - 1 = n /\ n \in Nat /\ n + 1 \in 0 .. N BY <1>1
    <2> DEFINE m == mappings[n + 1]
    <2>2. a[n + 1] = Inherit(a[n], m, parent) BY <1>2, <2>1 DEF Turns
    <2>3. Inherited(objects, g, c, S(n), a[n]) BY <1>4
    <2>4. m[2] \notin S(n)
      <3>1. \A i \in 1 .. n : i \in 1 .. N /\ i # n + 1 BY <1>1, <2>1
      <3> QED BY <2>1, <3>1
    <2>5. S(n + 1) = S(n) \cup {m[2]}
      <3>1. 1 .. (n + 1) = (1 .. n) \cup {n + 1} BY <2>1
      <3> QED BY <3>1
    <2>6. m \in Fd \X Fd BY <2>1
    <2> HIDE DEF S, m
    <2>7. Inherited(objects, g, c, S(n) \cup {m[2]}, Inherit(a[n], m, parent))
      BY <1>1, <2>3, <2>4, <2>6, InheritOne
    <2> QED BY Zenon, <2>1, <2>2, <2>5, <2>7
  <1>5. N \in K
    <2> HIDE DEF K, N
    <2>1. 0 .. N \subseteq K BY Zenon, <1>1, <1>3, <1>4, UpTo
    <2> QED BY <1>1, <2>1
  <1>6. inherit_fds(parent, mappings) = a[N] BY <1>2 DEF Turns
  <1>7. Inherited(objects, g, c, S(N), inherit_fds(parent, mappings)) BY <1>5, <1>6
  <1> HIDE DEF S
  <1> QED BY Zenon, <1>7 DEF Inherited

\* f are the results of the turns of inherit_all_fds().
CopyTurns(f, parent) ==
    /\ f[0] = objects
    /\ \A i \in 1 .. MAX_FDS :
          f[i] = IF fds[parent][i - 1] = NoFd THEN f[i - 1] ELSE retain_fd(f[i - 1], fds[parent][i - 1])
    /\ inherit_all_fds(parent) = f[MAX_FDS]

\* The loop of inherit_all_fds() takes the descriptors one after the other.
LEMMA CopyUnrolled ==
    ASSUME Basics, objects \in Objects, fds \in [Task -> [Fd -> Entry]], NEW parent \in Task
    PROVE  \E f : CopyTurns(f, parent)
  <1> DEFINE N == MAX_FDS
             One(i, r) == IF fds[parent][i - 1] = NoFd THEN r ELSE retain_fd(r, fds[parent][i - 1])
             F == [i \in 1 .. N |-> [r \in Objects |-> One(i, r)]]
             Is(f) == f = [n \in 0 .. N |-> IF n = 0 THEN objects
                                            ELSE IF fds[parent][n - 1] = NoFd THEN f[n - 1]
                                            ELSE retain_fd(f[n - 1], fds[parent][n - 1])]
             after == CHOOSE f : Is(f)
  <1>1. N \in Nat BY VfsAssumption
  <1>2. \A i \in 1 .. N : \A r \in Objects : One(i, r) \in Objects
    <2>1. \A i \in 1 .. N : fds[parent][i - 1] \in LocalFd \cup {NoFd} BY <1>1 DEF Fd, Entry
    <2> QED BY <2>1, RetainFields
  <1>3. inherit_all_fds(parent) = after[N] BY DEF inherit_all_fds
  <1> HIDE DEF after, N
  <1>5. F \in [1 .. N -> [Objects -> Objects]] BY <1>2
  <1> HIDE DEF F
  <1>6. PICK f : Unrolls(f, N, Objects, objects, F) BY <1>1, <1>5 DEF Basics, Inducting
  <1>7. ASSUME NEW i \in 1 .. N PROVE f[i] = One(i, f[i - 1])
    <2>1. i - 1 \in 0 .. N BY <1>1
    <2>2. f[i - 1] \in Objects BY <1>6, <2>1 DEF Unrolls
    <2>3. F[i][f[i - 1]] = One(i, f[i - 1]) BY <2>2 DEF F
    <2> QED BY <1>6, <2>3 DEF Unrolls
  <1>8. Is(f)
    <2> DEFINE g == [n \in 0 .. N |-> IF n = 0 THEN objects
                                      ELSE IF fds[parent][n - 1] = NoFd THEN f[n - 1]
                                      ELSE retain_fd(f[n - 1], fds[parent][n - 1])]
    <2>1. ASSUME NEW i \in 0 .. N PROVE f[i] = g[i]
      <3>1. CASE i = 0 BY <1>6, <3>1 DEF Unrolls
      <3>2. CASE i \in 1 .. N BY <1>7, <3>2
      <3> QED BY <1>1, <3>1, <3>2
    <2> HIDE DEF g
    <2>2. f = [i \in 0 .. N |-> f[i]] BY <1>6 DEF Unrolls
    <2>3. g = [i \in 0 .. N |-> g[i]] BY DEF g
    <2>4. f = g BY <2>1, <2>2, <2>3
    <2> QED BY Zenon, <2>4 DEF g
  <1>9. Is(after) BY Zenon, <1>8 DEF after
  <1>10. after[0] = objects BY <1>1, <1>9
  <1>11. ASSUME NEW i \in 1 .. N PROVE after[i] = One(i, after[i - 1])
    <2>1. i \in 0 .. N /\ i # 0 BY <1>1
    <2> QED BY Zenon, <1>9, <2>1
  <1>12. CopyTurns(after, parent) BY <1>3, <1>10, <1>11 DEF CopyTurns, N
  <1> QED BY <1>12

\* The first n descriptors have been copied to c.
Copied(obj, g, c, parent, n, r) ==
    /\ Good(r, [h \in Cell |-> IF h[1] = c /\ h[2] < n THEN g[<<parent, h[2]>>] ELSE g[h]])
    /\ \A s \in Entry, u \in Task : Safe(obj, s, u) => Safe(r, s, u)
    /\ \A o \in ObjectId : Dirty(obj, o) => Dirty(r, o)

\* One turn more.
LEMMA CopyOne ==
    ASSUME Basics, NEW obj, NEW g \in Cells, NEW c \in Task, NEW parent \in Task, parent # c,
           \A fd \in Fd : g[<<c, fd>>] = NoFd, NEW n \in Fd, NEW r, Copied(obj, g, c, parent, n, r),
           NEW e, e = g[<<parent, n>>]
    PROVE  Copied(obj, g, c, parent, n + 1, IF e = NoFd THEN r ELSE retain_fd(r, e))
  <1> DEFINE gn == [h \in Cell |-> IF h[1] = c /\ h[2] < n THEN g[<<parent, h[2]>>] ELSE g[h]]
             gm == [h \in Cell |-> IF h[1] = c /\ h[2] < n + 1 THEN g[<<parent, h[2]>>] ELSE g[h]]
             h == <<c, n>>
             p == <<parent, n>>
             s == IF e = NoFd THEN r ELSE retain_fd(r, e)
  <1>1. n \in Nat /\ h \in Cell /\ p \in Cell /\ h[1] = c /\ h[2] = n /\ p[1] = parent /\ p[2] = n
    BY VfsAssumption DEF Fd, Cell
  <1>2. \A k \in Cell : k[1] \in Task /\ k[2] \in Fd /\ k[2] \in Nat /\ k = <<k[1], k[2]>> /\ <<parent, k[2]>> \in Cell
    BY VfsAssumption DEF Cell, Fd
  <1>3. gn \in Cells /\ gm \in Cells BY <1>2 DEF Cells
  <1>4. gn[h] = NoFd /\ gm[h] = e /\ gn[p] = e BY <1>1
  <1>5. \A k \in Cell : k # h => gm[k] = gn[k]
    <2>1. ASSUME NEW k \in Cell, k # h PROVE gm[k] = gn[k]
      <3>1. k[1] = c => k[2] # n BY <1>2, <2>1
      <3>2. \A x \in Nat : x # n => (x < n + 1 <=> x < n) BY <1>1
      <3> QED BY <1>2, <3>1, <3>2
    <2> QED BY <2>1
  <1>6. Puts(gn, h, e, gm) BY <1>4, <1>5 DEF Puts
  <1>7. /\ Good(r, gn)
        /\ \A q \in Entry, u \in Task : Safe(obj, q, u) => Safe(r, q, u)
        /\ \A o \in ObjectId : Dirty(obj, o) => Dirty(r, o)
    BY DEF Copied
  <1>8. CASE e = NoFd
    <2>1. \A k \in Cell : gm[k] = gn[k] BY <1>4, <1>5, <1>8
    <2>2. gm = gn BY <2>1
    <2>3. Good(r, gm) BY Zenon, <1>7, <2>2
    <2>4. Copied(obj, g, c, parent, n + 1, r) BY Zenon, <1>7, <2>3 DEF Copied
    <2> QED BY Zenon, <1>8, <2>4
  <1>9. CASE e # NoFd
    <2> HIDE DEF gn, gm, h, p
    <2>1. e \in LocalFd /\ r[e.object] # NoObject BY <1>1, <1>4, <1>7, <1>9, ObjectBehind
    <2>2. Good(retain_fd(r, e), gm) BY Zenon, <1>1, <1>3, <1>4, <1>6, <1>7, <2>1, GoodRetain
    <2>3. r \in Objects BY Zenon, <1>7 DEF Good
    <2>4. /\ \A q \in Entry, u \in Task : Safe(r, q, u) => Safe(retain_fd(r, e), q, u)
          /\ \A o \in ObjectId : Dirty(r, o) => Dirty(retain_fd(r, e), o)
      BY Zenon, <2>1, <2>3, RetainCalm
    <2>5. /\ \A q \in Entry, u \in Task : Safe(obj, q, u) => Safe(retain_fd(r, e), q, u)
          /\ \A o \in ObjectId : Dirty(obj, o) => Dirty(retain_fd(r, e), o)
      BY Zenon, <1>7, <2>4
    <2>6. Copied(obj, g, c, parent, n + 1, retain_fd(r, e)) BY Zenon, <2>2, <2>5 DEF Copied, gm
    <2> QED BY <1>9, <2>6
  <1> QED BY <1>8, <1>9

\* The row of a task that has no descriptors, of one whose descriptors count,
\* and of one that has those of another.
EmptyRow(g, c) == \A fd \in Fd : g[<<c, fd>>] = NoFd
OwnRow(g, t) == \A fd \in Fd : fds[t][fd] = g[<<t, fd>>]
CopiedRow(g, t, c, f) == \A k \in Cell : f[k] = IF k[1] = c THEN g[<<t, k[2]>>] ELSE g[k]

\* inherit_all_fds() counts the descriptors of the thread.
LEMMA CopyFds ==
    ASSUME Basics, NEW g, Good(objects, g), fds \in [Task -> [Fd -> Entry]],
           NEW c \in Task, EmptyRow(g, c),
           NEW parent \in Task, parent # c, OwnRow(g, parent),
           NEW f \in Cells, CopiedRow(g, parent, c, f)
    PROVE  /\ Good(inherit_all_fds(parent), f)
           /\ \A s \in Entry, u \in Task : Safe(objects, s, u) => Safe(inherit_all_fds(parent), s, u)
           /\ \A o \in ObjectId : Dirty(objects, o) => Dirty(inherit_all_fds(parent), o)
  <1> USE DEF EmptyRow, OwnRow, CopiedRow
  <1> DEFINE N == MAX_FDS
             at0 == [h \in Cell |-> IF h[1] = c /\ h[2] < 0 THEN g[<<parent, h[2]>>] ELSE g[h]]
             atN == [h \in Cell |-> IF h[1] = c /\ h[2] < N THEN g[<<parent, h[2]>>] ELSE g[h]]
  <1>1. objects \in Objects /\ g \in Cells /\ N \in Nat BY VfsAssumption DEF Good
  <1>2. PICK a : CopyTurns(a, parent) BY <1>1, CopyUnrolled
  <1>3. \A k \in Cell : k[1] \in Task /\ k[2] \in Nat /\ ~(k[2] < 0) /\ k[2] < N BY VfsAssumption DEF Cell, Fd
  <1>4. at0 = g BY <1>1, <1>3 DEF Cells
  <1>5. atN = f
    <2>1. \A k \in Cell : atN[k] = f[k] BY <1>3
    <2> QED BY <2>1 DEF Cells
  <1> DEFINE K == {n \in 0 .. N : Copied(objects, g, c, parent, n, a[n])}
  <1>6. 0 \in K
    <2>1. a[0] = objects BY <1>2 DEF CopyTurns
    <2>2. Good(objects, at0) BY Zenon, <1>4
    <2>3. Copied(objects, g, c, parent, 0, objects) BY Zenon, <2>2 DEF Copied
    <2> QED BY <1>1, <2>1, <2>3
  <1>7. ASSUME NEW n \in 0 .. N - 1, n \in K PROVE n + 1 \in K
    <2>1. n \in Fd /\ n + 1 \in 1 .. N /\ (n + 1) - 1 = n /\ n + 1 \in 0 .. N BY <1>1 DEF Fd
    <2>2. a[n + 1] = IF fds[parent][n] = NoFd THEN a[n] ELSE retain_fd(a[n], fds[parent][n])
      BY <1>2, <2>1 DEF CopyTurns
    <2>3. fds[parent][n] = g[<<parent, n>>] BY <2>1
    <2>4. Copied(objects, g, c, parent, n, a[n]) BY <1>7
    <2> DEFINE e == fds[parent][n]
    <2>5. Copied(objects, g, c, parent, n + 1, IF e = NoFd THEN a[n] ELSE retain_fd(a[n], e))
      <3> HIDE DEF e
      <3> QED BY <1>1, <2>1, <2>3, <2>4, CopyOne DEF e
    <2> QED BY <2>1, <2>2, <2>5
  <1>8. N \in K
    <2> HIDE DEF K, N
    <2>1. 0 .. N \subseteq K BY Zenon, <1>1, <1>6, <1>7, UpTo
    <2> QED BY <1>1, <2>1
  <1>9. inherit_all_fds(parent) = a[N] BY <1>2 DEF CopyTurns
  <1>10. Copied(objects, g, c, parent, N, inherit_all_fds(parent)) BY <1>8, <1>9
  <1>11. Good(inherit_all_fds(parent), atN) BY <1>10 DEF Copied
  <1>12. Good(inherit_all_fds(parent), f) BY Zenon, <1>5, <1>11
  <1> QED BY <1>10, <1>12 DEF Copied
-----------------------------------------------------------------------------
(* The inductive invariant.                                                *)

Live(t) == status[t] \in {"Ready", "Blocked"}

\* The descriptors that count: those of tasks that have not ended, or that
\* task 0 is about to take away.
Table == [h \in Cell |-> IF h[1] = itask \/ Live(h[1]) THEN fds[h[1]][h[2]] ELSE NoFd]

Place == {User} \cup ({"read"} \X Fd)
           \cup ({"poll"} \X (SUBSET Fd) \X (SUBSET Events) \X {"forever", "armed", "expired"})

Types ==
    /\ fds \in [Task -> [Fd -> Entry]]
    /\ status \in [Task -> {"Free", "Ready", "Blocked", "Dead"}]
    /\ at \in [Task -> Place]
    /\ unsaved \in SUBSET ObjectId
    /\ itask \in Task \cup {NoTask}
    /\ iwakes \in SUBSET Task /\ icommits \in SUBSET ObjectId

\* Task 0 has nothing left to do when it takes a task's descriptors away.
Killing == itask # NoTask => status[itask] = "Dead" /\ iwakes = {} /\ icommits = {}

\* The descriptors that t waits for.
Waited(t) ==
    IF at[t][1] = "read" THEN {at[t][2]}
    ELSE IF at[t][1] = "poll" /\ "pollhup" \notin Ops THEN at[t][2] ELSE {}

\* A task that waits has a reason to wait and is known to the pipes.
TaskOK(t) ==
    /\ status[t] = "Free" => at[t] = User
    /\ Live(t) /\ at[t][1] = "read" => fds[t][at[t][2]].access = "PipeRead"
    /\ at[t][1] = "poll" /\ "pollhup" \notin Ops => at[t][3] = Events
    /\ status[t] = "Blocked" /\ t \notin iwakes => \A fd \in Waited(t) : Safe(objects, fds[t][fd], t)

VfsInv ==
    /\ Types /\ Good(objects, Table) /\ Killing
    /\ \A t \in Task : TaskOK(t)
    /\ NoLostData

\* Where a task is.
LEMMA Places ==
    ASSUME NEW p \in Place
    PROVE  /\ p[1] = "read" => p[2] \in Fd
           /\ p[1] = "poll" => p[2] \in SUBSET Fd /\ p[3] \in SUBSET Events /\ p[4] \in {"forever", "armed", "expired"}
           /\ p = User => p[1] # "read" /\ p[1] # "poll"
  BY DEF Place, User

\* A task that does not move.
LEMMA TaskStays ==
    ASSUME Types, NEW u \in Task, TaskOK(u), at'[u] = at[u],
           status'[u] = "Free" => status[u] = "Free",
           status'[u] = "Ready" => (Live(u) /\ fds'[u] = fds[u]) \/ at[u] = User,
           status'[u] = "Blocked" =>
             /\ status[u] = "Blocked" /\ fds'[u] = fds[u]
             /\ u \in iwakes => u \in iwakes'
             /\ u \notin iwakes' => \A fd \in Fd : Safe(objects, fds[u][fd], u) => Safe(objects', fds[u][fd], u)
    PROVE  TaskOK(u)'
  <1>1. at[u] \in Place BY DEF Types
  <1>2. Waited(u)' = Waited(u) /\ Waited(u) \in SUBSET Fd BY Zenon, <1>1, Places DEF Waited
  <1>3. status'[u] = "Free" => at'[u] = User BY DEF TaskOK
  <1>4. Live(u)' /\ at'[u][1] = "read" => fds'[u][at'[u][2]].access = "PipeRead"
    BY <1>1, Places DEF TaskOK, Live
  <1>5. at'[u][1] = "poll" /\ "pollhup" \notin Ops => at'[u][3] = Events BY DEF TaskOK
  <1>6. status'[u] = "Blocked" /\ u \notin iwakes' => \A fd \in Waited(u) : Safe(objects', fds'[u][fd], u)
    BY <1>2 DEF TaskOK
  <1> QED BY Zenon, <1>2, <1>3, <1>4, <1>5, <1>6 DEF TaskOK

\* The table and the descriptors of the tasks.
LEMMA TableFacts ==
    ASSUME VfsInv
    PROVE  /\ Table \in Cells
           /\ \A u \in Task, fd \in Fd : <<u, fd>> \in Cell /\ fds[u][fd] \in Entry
           /\ \A u \in Task, fd \in Fd : Live(u) => Table[<<u, fd>>] = fds[u][fd]
           /\ \A u \in Task, fd \in Fd : u = itask => Table[<<u, fd>>] = fds[u][fd]
           /\ \A u \in Task, fd \in Fd : ~Live(u) /\ u # itask => Table[<<u, fd>>] = NoFd
           /\ \A k \in Cell : k[1] \in Task /\ k[2] \in Fd /\ k = <<k[1], k[2]>>
  <1>1. \A k \in Cell : k[1] \in Task /\ k[2] \in Fd /\ k = <<k[1], k[2]>> BY DEF Cell
  <1>2. \A u \in Task, fd \in Fd : /\ <<u, fd>> \in Cell /\ fds[u][fd] \in Entry
                                   /\ <<u, fd>>[1] = u /\ <<u, fd>>[2] = fd
    BY DEF Cell, VfsInv, Types
  <1>3. NoFd \in Entry BY DEF Entry
  <1>4. Table \in Cells BY <1>1, <1>2, <1>3 DEF Table, Cells
  <1> QED BY <1>1, <1>2, <1>4 DEF Table

\* new is obj with an object of that kind in o.
Fresh(obj, o, kind, new) == new = [obj EXCEPT ![o] = [NoObject EXCEPT !.kind = kind]]

\* The table f is sound over r, and no task is worse off with r than with obj.
NoWorse(obj, f, r) ==
    /\ Good(r, f)
    /\ \A s \in Entry, u \in Task : Safe(obj, s, u) => Safe(r, s, u)
    /\ \A o \in ObjectId : Dirty(obj, o) => Dirty(r, o)

\* An object that vfs_open() or vfs_pipe() has just made for its first descriptor.
LEMMA GoodFresh ==
    ASSUME Basics, NEW obj, NEW g, Good(obj, g), NEW h \in Cell, g[h] = NoFd, NEW e \in LocalFd,
           obj[e.object] = NoObject, NEW kind \in {"File", "Writable", "Pipe"},
           NEW new, Fresh(obj, e.object, kind, new),
           NEW f \in Cells, Puts(g, h, e, f)
    PROVE  NoWorse(obj, f, retain_fd(new, e))
  <1> DEFINE x == [NoObject EXCEPT !.kind = kind]
             r == retain_fd(new, e)
  <1>2. /\ NoObject.refs = 0 /\ NoObject.readers = 0 /\ NoObject.writers = 0 /\ NoObject.kind = "none"
        /\ NoObject.dirty = FALSE /\ NoObject.len = 0 /\ NoObject.waiting_readers = {}
        /\ NoObject.waiting_writers = {}
    BY DEF NoObject
  <1>0. NoObject \in AnyObject BY VfsAssumption DEF NoObject, AnyObject
  <1>1. /\ x \in AnyObject /\ x.kind = kind /\ x.refs = 0 /\ x.readers = 0 /\ x.writers = 0
    BY <1>0, <1>2 DEF AnyObject
  <1> HIDE DEF x
  <1>3. /\ obj \in Objects /\ g \in Cells /\ e.object \in ObjectId /\ Counts(obj, g)
        /\ \A o \in ObjectId : obj[o].kind = "none" => obj[o] = NoObject
        /\ \A o \in ObjectId : obj[o].refs = 0 <=> obj[o] = NoObject
    BY DEF Good, LocalFd
  <1>4. new \in Objects /\ new[e.object] = x /\ \A o \in ObjectId : o # e.object => new[o] = obj[o]
    BY <1>1, <1>3 DEF Objects, x, Fresh
  <1>5. Counts(new, g)
    <2>1. \A o \in ObjectId : /\ new[o].refs = obj[o].refs /\ new[o].readers = obj[o].readers
                              /\ new[o].writers = obj[o].writers
      BY Zenon, <1>1, <1>2, <1>4
    <2> QED BY Zenon, <1>3, <2>1 DEF Counts
  <1>6. Counts(r, f) BY <1>3, <1>4, <1>5, Retain
  <1>7. /\ r \in Objects /\ \A o \in ObjectId : o # e.object => r[o] = new[o]
        /\ r[e.object].refs = new[e.object].refs + 1 /\ r[e.object].kind = new[e.object].kind
    BY Zenon, <1>4, RetainFields
  <1>8. /\ \A s \in Entry, u \in Task : Safe(new, s, u) => Safe(r, s, u)
        /\ \A o \in ObjectId : Dirty(new, o) => Dirty(r, o)
    BY Zenon, <1>4, RetainCalm
  <1> HIDE DEF r
  <1>9. r[e.object].kind = kind /\ r[e.object].refs = 1 BY <1>1, <1>4, <1>7
  <1>10. r[e.object] # NoObject BY <1>2, <1>9
  <1>11. \A o \in ObjectId : o # e.object => r[o] = obj[o] BY <1>4, <1>7
  <1>12. \A o \in ObjectId : r[o].kind = "none" => r[o] = NoObject BY <1>3, <1>9, <1>11
  <1>13. \A o \in ObjectId : r[o].refs = 0 <=> r[o] = NoObject BY <1>3, <1>9, <1>10, <1>11
  <1>14. Good(r, f) BY <1>6, <1>7, <1>12, <1>13 DEF Good
  <1>15. ASSUME NEW s \in Entry, NEW u \in Task, Safe(obj, s, u) PROVE Safe(new, s, u)
    <2>1. s.object \in ObjectId BY <1>15 DEF Safe, Entry, NoFd, LocalFd
    <2>2. s.object # e.object BY <1>2, <1>15 DEF Safe
    <2>3. new[s.object] = obj[s.object] BY Zenon, <1>4, <2>1, <2>2
    <2> QED BY <1>15, <2>3 DEF Safe
  <1>16. \A o \in ObjectId : Dirty(obj, o) => Dirty(new, o) BY <1>2, <1>4 DEF Dirty
  <1>17. \A s \in Entry, u \in Task : Safe(obj, s, u) => Safe(r, s, u) BY Zenon, <1>8, <1>15
  <1>18. \A o \in ObjectId : Dirty(obj, o) => Dirty(r, o) BY Zenon, <1>8, <1>16
  <1>19. NoWorse(obj, f, r) BY Zenon, <1>14, <1>17, <1>18 DEF NoWorse
  <1> QED BY Zenon, <1>19 DEF r

\* Steps that leave the counters alone.
LEMMA SameCounts ==
    ASSUME NEW obj, NEW g, Good(obj, g), NEW new \in Objects,
           \A o \in ObjectId : /\ new[o].refs = obj[o].refs /\ new[o].readers = obj[o].readers
                               /\ new[o].writers = obj[o].writers /\ new[o].kind = obj[o].kind
                               /\ obj[o] = NoObject => new[o] = NoObject
    PROVE  Good(new, g)
  <1>1. Counts(new, g) BY DEF Good, Counts
  <1>2. \A o \in ObjectId : new[o].kind = "none" => new[o] = NoObject BY DEF Good
  <1>3. \A o \in ObjectId : new[o].refs = 0 <=> new[o] = NoObject BY DEF Good, NoObject
  <1> QED BY <1>1, <1>2, <1>3 DEF Good

\* The slot and the object that are taken are free ones.
LEMMA AllocFd ==
    ASSUME Basics, NEW S \in SUBSET Fd, S # {}
    PROVE  alloc_fd(S) \in S
  <1>1. S \in SUBSET Nat BY VfsAssumption DEF Fd
  <1>2. \E x \in S : \A y \in S : x <= y BY <1>1 DEF Basics, Inducting
  <1> QED BY <1>2 DEF alloc_fd

\* A new shared object takes an index that nothing uses.
LEMMA AllocObject ==
    ASSUME Basics, FreeObjects # {}
    PROVE  alloc_object \in ObjectId /\ objects[alloc_object] = NoObject
  <1>1. FreeObjects \in SUBSET Nat BY VfsAssumption DEF FreeObjects, ObjectId
  <1>2. \E x \in FreeObjects : \A y \in FreeObjects : x <= y BY <1>1 DEF Basics, Inducting
  <1>3. alloc_object \in FreeObjects BY <1>2 DEF alloc_object
  <1> QED BY <1>3 DEF FreeObjects

\* A call of t that only gives t descriptors in free slots.
LEMMA CallKeeps ==
    ASSUME VfsInv, NEW t \in Task, status[t] = "Ready", at[t] = User,
           UNCHANGED <<status, at, unsaved, idle>>, fds' \in [Task -> [Fd -> Entry]],
           \A u \in Task : u # t => fds'[u] = fds[u],
           Good(objects', Table'),
           \A s \in Entry, u \in Task : Safe(objects, s, u) => Safe(objects', s, u),
           \A o \in ObjectId : Dirty(objects, o) => Dirty(objects', o)
    PROVE  VfsInv'
  <1> USE DEF idle
  <1>1. Types' BY DEF VfsInv, Types
  <1>2. Killing' BY Zenon DEF VfsInv, Killing
  <1>3. ASSUME NEW u \in Task PROVE TaskOK(u)'
    <2>1. Types /\ TaskOK(u) BY Zenon DEF VfsInv
    <2>2. \A fd \in Fd : fds[u][fd] \in Entry BY <2>1 DEF Types
    <2>3. status'[u] = "Blocked" => fds'[u] = fds[u] BY <2>1 DEF Types
    <2>4. status'[u] = "Ready" => (Live(u) /\ fds'[u] = fds[u]) \/ at[u] = User BY DEF Live
    <2> QED BY Zenon, <2>1, <2>2, <2>3, <2>4, TaskStays
  <1>4. NoLostData' BY Zenon DEF VfsInv, Types, NoLostData, Dirty
  <1> QED BY <1>1, <1>2, <1>3, <1>4 DEF VfsInv

\* The table with one descriptor more for a task that lives.
LEMMA TablePuts ==
    ASSUME VfsInv, NEW t \in Task, Live(t), itask' = itask, \A u \in Task : Live(u)' <=> Live(u),
           NEW fd \in Fd, NEW e \in Entry,
           fds' = [fds EXCEPT ![t][fd] = e]
    PROVE  /\ Table' \in Cells /\ <<t, fd>> \in Cell /\ Table[<<t, fd>>] = fds[t][fd] /\ Puts(Table, <<t, fd>>, e, Table')
           /\ fds' \in [Task -> [Fd -> Entry]] /\ \A u \in Task : u # t => fds'[u] = fds[u]
  <1>1. fds \in [Task -> [Fd -> Entry]] BY DEF VfsInv, Types
  <1>2. fds' \in [Task -> [Fd -> Entry]] /\ \A u \in Task : u # t => fds'[u] = fds[u] BY <1>1
  <1>3. \A k \in Cell : k[1] \in Task /\ k[2] \in Fd /\ k = <<k[1], k[2]>> BY DEF Cell
  <1>4. <<t, fd>> \in Cell /\ <<t, fd>>[1] = t /\ <<t, fd>>[2] = fd BY DEF Cell
  <1>5. NoFd \in Entry BY DEF Entry
  <1>6. Table' \in Cells BY <1>2, <1>3, <1>5 DEF Table, Cells
  <1>7. Table'[<<t, fd>>] = e BY <1>1, <1>4 DEF Table
  <1>8. ASSUME NEW k \in Cell, k # <<t, fd>> PROVE Table'[k] = Table[k]
    <2>1. fds'[k[1]][k[2]] = fds[k[1]][k[2]]
      <3>1. CASE k[1] = t
        <4>1. k[2] # fd BY <1>3, <1>8, <3>1
        <4> QED BY <1>1, <1>3, <3>1, <4>1
      <3>2. CASE k[1] # t BY <1>2, <1>3, <3>2
      <3> QED BY <3>1, <3>2
    <2> QED BY <1>3, <2>1 DEF Table
  <1>9. Table[<<t, fd>>] = fds[t][fd] BY <1>4 DEF Table
  <1> QED BY <1>2, <1>4, <1>6, <1>7, <1>8, <1>9 DEF Puts

\* vfs_open().
LEMMA OpenKeeps ==
    ASSUME Basics, VfsInv, NEW t \in Task, status[t] = "Ready", at[t] = User,
           NEW kind \in {"File", "Writable"}, OpenObject(t, kind)
    PROVE  VfsInv'
  <1> DEFINE o == alloc_object
             fd == alloc_fd(FreeSlots(t))
             e == [object |-> o, access |-> "File"]
             new == [objects EXCEPT ![o] = [NoObject EXCEPT !.kind = kind]]
  <1>1. /\ FreeSlots(t) # {} /\ FreeObjects # {} /\ objects' = retain_fd(new, e)
        /\ fds' = [fds EXCEPT ![t][fd] = e] /\ UNCHANGED <<status, at, unsaved, idle>>
    BY DEF OpenObject
  <1>2. o \in ObjectId /\ objects[o] = NoObject BY <1>1, AllocObject
  <1>3. FreeSlots(t) \in SUBSET Fd BY DEF FreeSlots
  <1>4. fd \in Fd /\ fds[t][fd] = NoFd
    <2>1. fd \in FreeSlots(t) BY <1>1, <1>3, AllocFd
    <2> QED BY <2>1 DEF FreeSlots
  <1> HIDE DEF o, fd
  <1>5. e \in LocalFd /\ e.object = o BY <1>2 DEF LocalFd
  <1>6. e \in Entry /\ Fresh(objects, e.object, kind, new) BY <1>5 DEF Entry, Fresh
  <1> HIDE DEF e, new
  <1>7. /\ Table' \in Cells /\ <<t, fd>> \in Cell /\ Table[<<t, fd>>] = NoFd /\ Puts(Table, <<t, fd>>, e, Table')
        /\ fds' \in [Task -> [Fd -> Entry]] /\ \A u \in Task : u # t => fds'[u] = fds[u]
    <2>1. Live(t) /\ itask' = itask /\ \A u \in Task : Live(u)' <=> Live(u) BY <1>1 DEF Live, idle
    <2> QED BY Zenon, <1>1, <1>4, <1>6, <2>1, TablePuts
  <1>8. Good(objects, Table) BY DEF VfsInv
  <1>9. objects[e.object] = NoObject BY <1>2, <1>5
  <1>10. /\ Good(objects', Table')
         /\ \A s \in Entry, u \in Task : Safe(objects, s, u) => Safe(objects', s, u)
         /\ \A p \in ObjectId : Dirty(objects, p) => Dirty(objects', p)
    <2>1. kind \in {"File", "Writable", "Pipe"} OBVIOUS
    <2>2. e \in LocalFd BY <1>5
    <2>3. Fresh(objects, e.object, kind, new) BY <1>6
    <2>4. Table' \in Cells BY <1>7
    <2>5. <<t, fd>> \in Cell /\ Table[<<t, fd>>] = NoFd BY <1>7
    <2>6. Puts(Table, <<t, fd>>, e, Table') BY <1>7
    <2>7. NoWorse(objects, Table', retain_fd(new, e))
      BY Zenon, <1>8, <1>9, <2>1, <2>2, <2>3, <2>4, <2>5, <2>6, GoodFresh
    <2>8. NoWorse(objects, Table', objects') BY Zenon, <1>1, <2>7
    <2> QED BY Zenon, <2>8 DEF NoWorse
  <1> QED BY Zenon, <1>1, <1>7, <1>10, CallKeeps

\* vfs_dup().
LEMMA DupKeeps ==
    ASSUME Basics, VfsInv, NEW t \in Task, NEW fd \in Fd, vfs_dup(t, fd)
    PROVE  VfsInv'
  <1> DEFINE e == fds[t][fd]
             n == alloc_fd(FreeSlots(t))
  <1>1. /\ status[t] = "Ready" /\ at[t] = User /\ FreeSlots(t) # {} /\ e # NoFd
        /\ objects' = retain_fd(objects, e) /\ fds' = [fds EXCEPT ![t][n] = e]
        /\ UNCHANGED <<status, at, unsaved, idle>>
    BY DEF vfs_dup, Calls
  <1>2. FreeSlots(t) \in SUBSET Fd BY DEF FreeSlots
  <1>3. n \in Fd /\ fds[t][n] = NoFd
    <2>1. n \in FreeSlots(t) BY <1>1, <1>2, AllocFd
    <2> QED BY <2>1 DEF FreeSlots
  <1>4. e \in Entry /\ Live(t) /\ <<t, fd>> \in Cell /\ Table[<<t, fd>>] = e BY <1>1, TableFacts DEF Live
  <1> HIDE DEF e, n
  <1>5. /\ Table' \in Cells /\ <<t, n>> \in Cell /\ Table[<<t, n>>] = NoFd /\ Puts(Table, <<t, n>>, e, Table')
        /\ fds' \in [Task -> [Fd -> Entry]] /\ \A u \in Task : u # t => fds'[u] = fds[u]
    <2>1. itask' = itask /\ \A u \in Task : Live(u)' <=> Live(u) BY <1>1 DEF Live, idle
    <2> QED BY Zenon, <1>1, <1>3, <1>4, <2>1, TablePuts
  <1>6. Good(objects, Table) BY DEF VfsInv
  <1>7. e \in LocalFd /\ objects[e.object] # NoObject BY <1>1, <1>4, <1>6, ObjectBehind
  <1>8. Good(objects', Table') BY <1>1, <1>5, <1>6, <1>7, GoodRetain
  <1>9. objects \in Objects BY <1>6 DEF Good
  <1>10. /\ \A s \in Entry, u \in Task : Safe(objects, s, u) => Safe(objects', s, u)
         /\ \A p \in ObjectId : Dirty(objects, p) => Dirty(objects', p)
    BY <1>1, <1>7, <1>9, RetainCalm
  <1> QED BY Zenon, <1>1, <1>5, <1>8, <1>10, CallKeeps

\* vfs_pipe().
LEMMA PipeKeeps ==
    ASSUME Basics, VfsInv, NEW t \in Task, vfs_pipe(t)
    PROVE  VfsInv'
  <1> DEFINE o == alloc_object
             S == FreeSlots(t)
             a == alloc_fd(S)
             b == alloc_fd(S \ {a})
             r == [object |-> o, access |-> "PipeRead"]
             w == [object |-> o, access |-> "PipeWrite"]
             new == [objects EXCEPT ![o] = [NoObject EXCEPT !.kind = "Pipe"]]
             one == retain_fd(new, r)
             mid == [Table EXCEPT ![<<t, a>>] = r]
  <1>1. /\ status[t] = "Ready" /\ at[t] = User /\ Cardinality(S) >= 2 /\ FreeObjects # {}
        /\ objects' = retain_fd(one, w)
        /\ fds' = [fds EXCEPT ![t][a] = r, ![t][b] = w] /\ UNCHANGED <<status, at, unsaved, idle>>
    BY DEF vfs_pipe, Calls
  <1>2. o \in ObjectId /\ objects[o] = NoObject BY <1>1, AllocObject
  <1>3. S \in SUBSET Fd /\ \A fd \in S : fds[t][fd] = NoFd BY DEF FreeSlots
  <1> HIDE DEF S, o
  <1>4. S # {} /\ \A x : S # {x} BY Zenon, <1>1 DEF Basics, Counting, TwoAreMany
  <1>5. a \in S BY <1>3, <1>4, AllocFd
  <1>6. b \in S \ {a}
    <2>1. S \ {a} # {} /\ S \ {a} \in SUBSET Fd BY <1>3, <1>4, <1>5
    <2> HIDE DEF a
    <2> QED BY <2>1, AllocFd
  <1> HIDE DEF a, b
  <1>7. a \in Fd /\ b \in Fd /\ a # b /\ fds[t][a] = NoFd /\ fds[t][b] = NoFd BY <1>3, <1>5, <1>6
  <1>8. r \in LocalFd /\ w \in LocalFd /\ r.object = o /\ w.object = o BY <1>2 DEF LocalFd
  <1>9. r \in Entry /\ w \in Entry /\ Fresh(objects, r.object, "Pipe", new) BY <1>8 DEF Entry, Fresh
  <1> HIDE DEF r, w, new, one
  <1>10. /\ Table \in Cells /\ <<t, a>> \in Cell /\ <<t, b>> \in Cell /\ Live(t)
         /\ Table[<<t, a>>] = NoFd /\ Table[<<t, b>>] = NoFd /\ <<t, a>> # <<t, b>>
         /\ \A k \in Cell : k[1] \in Task /\ k[2] \in Fd /\ k = <<k[1], k[2]>>
    BY <1>1, <1>7, TableFacts DEF Live
  <1>11. mid \in Cells /\ Puts(Table, <<t, a>>, r, mid) /\ mid[<<t, b>>] = NoFd
    BY <1>9, <1>10 DEF Cells, Puts
  <1>12. /\ fds \in [Task -> [Fd -> Entry]] /\ fds' \in [Task -> [Fd -> Entry]]
         /\ \A u \in Task : u # t => fds'[u] = fds[u]
         /\ fds'[t][a] = r /\ fds'[t][b] = w /\ \A fd \in Fd : fd # a /\ fd # b => fds'[t][fd] = fds[t][fd]
    BY <1>1, <1>7, <1>9 DEF VfsInv, Types
  <1>13. Table' \in Cells
    <2>1. NoFd \in Entry BY DEF Entry
    <2> QED BY <1>10, <1>12, <2>1 DEF Table, Cells
  <1>14. Puts(mid, <<t, b>>, w, Table')
    <2>1. itask' = itask /\ \A u \in Task : Live(u)' <=> Live(u) BY <1>1 DEF Live, idle
    <2>2. Table'[<<t, b>>] = w
      <3>1. <<t, b>>[1] = t /\ <<t, b>>[2] = b OBVIOUS
      <3> QED BY <1>10, <1>12, <2>1, <3>1 DEF Table
    <2>3. ASSUME NEW k \in Cell, k # <<t, b>> PROVE Table'[k] = mid[k]
      <3>1. CASE k = <<t, a>>
        <4>1. <<t, a>>[1] = t /\ <<t, a>>[2] = a BY Zenon
        <4>2. Table'[k] = r BY <1>10, <1>12, <2>1, <3>1, <4>1 DEF Table
        <4> QED BY <1>11, <3>1, <4>2 DEF Puts
      <3>2. CASE k # <<t, a>>
        <4>1. mid[k] = Table[k] BY <1>11, <3>2 DEF Puts
        <4>2. k[1] = t => k[2] # a /\ k[2] # b BY <1>10, <2>3, <3>2
        <4>3. fds'[k[1]][k[2]] = fds[k[1]][k[2]] BY <1>10, <1>12, <4>2
        <4> QED BY <1>10, <2>1, <4>1, <4>3 DEF Table
      <3> QED BY <3>1, <3>2
    <2> QED BY <2>2, <2>3 DEF Puts
  <1> HIDE DEF mid
  <1>15. Good(objects, Table) BY DEF VfsInv
  <1>16. objects[r.object] = NoObject BY <1>2, <1>8
  <1>17. /\ Good(one, mid)
         /\ \A s \in Entry, u \in Task : Safe(objects, s, u) => Safe(one, s, u)
         /\ \A p \in ObjectId : Dirty(objects, p) => Dirty(one, p)
    <2>1. r \in LocalFd BY <1>8
    <2>2. Fresh(objects, r.object, "Pipe", new) BY <1>9
    <2>3. <<t, a>> \in Cell /\ Table[<<t, a>>] = NoFd BY <1>10
    <2>4. mid \in Cells BY <1>11
    <2>5. Puts(Table, <<t, a>>, r, mid) BY <1>11
    <2>6. "Pipe" \in {"File", "Writable", "Pipe"} OBVIOUS
    <2>7. NoWorse(objects, mid, retain_fd(new, r))
      BY Zenon, <1>15, <1>16, <2>1, <2>2, <2>3, <2>4, <2>5, <2>6, GoodFresh
    <2> QED BY Zenon, <2>7 DEF NoWorse, one
  <1>18. one[w.object] # NoObject
    <2>1. mid[<<t, a>>] = r BY <1>11 DEF Puts
    <2>2. r # NoFd BY <1>2, <1>8 DEF NoFd, ObjectId
    <2>3. one[r.object] # NoObject BY <1>10, <1>17, <2>1, <2>2, ObjectBehind
    <2> QED BY <1>8, <2>3
  <1>19. Good(objects', Table') BY <1>1, <1>8, <1>10, <1>11, <1>13, <1>14, <1>17, <1>18, GoodRetain
  <1>20. one \in Objects BY <1>17 DEF Good
  <1>21. /\ \A s \in Entry, u \in Task : Safe(one, s, u) => Safe(objects', s, u)
         /\ \A p \in ObjectId : Dirty(one, p) => Dirty(objects', p)
    BY <1>1, <1>8, <1>20, RetainCalm
  <1>22. /\ \A s \in Entry, u \in Task : Safe(objects, s, u) => Safe(objects', s, u)
         /\ \A p \in ObjectId : Dirty(objects, p) => Dirty(objects', p)
    BY <1>17, <1>21
  <1> QED BY Zenon, <1>1, <1>12, <1>19, <1>22, CallKeeps

\* Any step that leaves the places of the tasks and task 0's work alone.
LEMMA CallStep ==
    ASSUME VfsInv, UNCHANGED <<at, idle>>, fds' \in [Task -> [Fd -> Entry]],
           status' \in [Task -> {"Free", "Ready", "Blocked", "Dead"}], unsaved' \in SUBSET ObjectId,
           Good(objects', Table'), NoLostData',
           itask # NoTask => status'[itask] = status[itask],
           \A u \in Task : status'[u] = "Free" => status[u] = "Free",
           \A u \in Task : status'[u] = "Ready" => (Live(u) /\ fds'[u] = fds[u]) \/ at[u] = User,
           \A u \in Task : status'[u] = "Blocked" =>
             /\ status[u] = "Blocked" /\ fds'[u] = fds[u]
             /\ \A fd \in Fd : Safe(objects, fds[u][fd], u) => Safe(objects', fds[u][fd], u)
    PROVE  VfsInv'
  <1> USE DEF idle
  <1>1. Types' BY DEF VfsInv, Types
  <1>2. Killing' BY DEF VfsInv, Killing
  <1>3. ASSUME NEW u \in Task PROVE TaskOK(u)'
    <2>1. Types /\ TaskOK(u) BY DEF VfsInv
    <2> QED BY Zenon, <2>1, TaskStays
  <1> QED BY Zenon, <1>1, <1>2, <1>3 DEF VfsInv

\* s is the status of u after the tasks of S have been woken.
Woken(s, S, u) ==
    /\ (s = "Free") <=> (status[u] = "Free")
    /\ (s = "Dead") <=> (status[u] = "Dead")
    /\ (s = "Blocked") <=> (status[u] = "Blocked" /\ u \notin S)

\* wake_tasks().
LEMMA Wakes ==
    ASSUME Types, NEW S
    PROVE  /\ Unblocked(S) \in [Task -> {"Free", "Ready", "Blocked", "Dead"}]
           /\ \A u \in Task : Woken(Unblocked(S)[u], S, u)
  BY DEF Unblocked, Woken, Types

\* There is no task NoTask.
LEMMA NoTaskIsNone == NoTask \notin Task
  BY VfsAssumption DEF NoTask, Task

\* vfs_close().
LEMMA CloseKeeps ==
    ASSUME Basics, VfsInv, NEW t \in Task, NEW fd \in Fd, vfs_close(t, fd)
    PROVE  VfsInv'
  <1> DEFINE e == fds[t][fd]
             h == <<t, fd>>
             ev == Event(objects)
             r == release_fd(ev, e)
  <1>1. /\ status[t] = "Ready" /\ at[t] = User /\ e # NoFd
        /\ objects' = r.obj /\ status' = Unblocked(r.wakes) /\ unsaved' = unsaved \ r.commits
        /\ fds' = [fds EXCEPT ![t][fd] = NoFd] /\ UNCHANGED <<at, idle>>
    BY DEF vfs_close, Calls
  <1>2. Types /\ Good(objects, Table) /\ Killing /\ NoLostData BY DEF VfsInv
  <1>3. e \in Entry /\ Live(t) /\ h \in Cell /\ Table[h] = e BY <1>1, TableFacts DEF Live
  <1>4. ev \in Release /\ ev.obj = objects /\ ev.wakes = {} /\ ev.commits = {}
    BY <1>2 DEF Event, Release, Good
  <1>5. /\ status' \in [Task -> {"Free", "Ready", "Blocked", "Dead"}]
        /\ \A u \in Task : Woken(status'[u], r.wakes, u)
        /\ \A u \in Task : status'[u] = "Blocked" => status[u] = "Blocked" /\ u \notin r.wakes
    BY <1>1, <1>2, Wakes DEF Woken
  <1> HIDE DEF ev, r, e, h
  <1>6. \A u \in Task : Live(u)' <=> Live(u) BY <1>2, <1>5 DEF Live, Woken, Types
  <1>7. NoFd \in Entry BY DEF Entry
  <1>8. /\ Table' \in Cells /\ Puts(Table, h, NoFd, Table')
        /\ fds' \in [Task -> [Fd -> Entry]] /\ \A u \in Task : u # t => fds'[u] = fds[u]
    <2>1. itask' = itask BY <1>1 DEF idle
    <2> QED BY Zenon, <1>1, <1>3, <1>6, <1>7, <2>1, TablePuts DEF h
  <1>9. e \in LocalFd BY <1>1, <1>3 DEF Entry
  <1>10. r \in Release /\ Good(r.obj, Table') BY Zenon, <1>2, <1>3, <1>4, <1>8, <1>9, GoodRelease DEF r
  <1>11. \A o \in ObjectId : Dirty(objects, o) => o \in r.commits \/ Dirty(r.obj, o)
    BY Zenon, <1>2, <1>3, <1>4, <1>8, <1>9, ReleaseKeeps DEF r
  <1>12. ASSUME NEW u \in Task, status'[u] = "Blocked"
         PROVE  /\ status[u] = "Blocked" /\ fds'[u] = fds[u]
                /\ \A f \in Fd : Safe(objects, fds[u][f], u) => Safe(objects', fds[u][f], u)
    <2>1. status[u] = "Blocked" /\ u \notin r.wakes /\ u # t BY <1>1, <1>5, <1>12
    <2>2. fds'[u] = fds[u] BY <1>8, <2>1
    <2>3. ASSUME NEW f \in Fd, Safe(objects, fds[u][f], u) PROVE Safe(objects', fds[u][f], u)
      <3> DEFINE k == <<u, f>>
      <3>1. k \in Cell /\ Table[k] = fds[u][f] /\ k # h BY <2>1, TableFacts DEF Live, h
      <3> HIDE DEF k
      <3>2. Safe(ev.obj, Table[k], u) BY <1>4, <2>3, <3>1
      <3>3. u \in r.wakes \/ Safe(r.obj, Table[k], u)
        BY Zenon, <1>2, <1>3, <1>4, <1>8, <1>9, <3>1, <3>2, ReleaseSafe DEF r
      <3> QED BY <1>1, <2>1, <3>1, <3>3
    <2> QED BY Zenon, <2>1, <2>2, <2>3
  <1>13. NoLostData' BY <1>1, <1>2, <1>11 DEF NoLostData, Dirty, Types, idle
  <1>14. unsaved' \in SUBSET ObjectId BY <1>1, <1>2 DEF Types
  <1>15. itask # NoTask => status'[itask] = status[itask] BY <1>2, <1>5 DEF Killing, Types, Woken
  <1>16. \A u \in Task : status'[u] = "Ready" => (Live(u) /\ fds'[u] = fds[u]) \/ at[u] = User
    BY Zenon, <1>1, <1>6, <1>8 DEF Live
  <1>17. Good(objects', Table') BY <1>1, <1>10
  <1>18. \A u \in Task : status'[u] = "Free" => status[u] = "Free" BY Zenon, <1>5 DEF Woken
  <1> QED BY Zenon, <1>1, <1>5, <1>8, <1>12, <1>13, <1>14, <1>15, <1>16, <1>17, <1>18, CallStep

\* exit_current().
LEMMA ExitKeeps ==
    ASSUME Basics, VfsInv, NEW t \in Task, exit_current(t)
    PROVE  VfsInv'
  <1> DEFINE table == fds[t]
             r == ReleaseTable(Event(objects), table)
  <1>1. /\ status[t] = "Ready" /\ at[t] = User
        /\ objects' = r.obj /\ status' = [Unblocked(r.wakes) EXCEPT ![t] = "Dead"]
        /\ unsaved' = unsaved \ r.commits
        /\ fds' = [fds EXCEPT ![t] = NoFds] /\ UNCHANGED <<at, idle>>
    BY Zenon DEF exit_current, Calls, NoFds
  <1>2. Types /\ Good(objects, Table) /\ Killing /\ NoLostData BY DEF VfsInv
  <1>3. itask # t BY Zenon, <1>1, <1>2, NoTaskIsNone DEF Killing
  <1>4. table \in [Fd -> Entry] /\ \A fd \in Fd : table[fd] = Table[<<t, fd>>]
    BY <1>1, <1>2, TableFacts DEF Types, Live
  <1>5. /\ status' \in [Task -> {"Free", "Ready", "Blocked", "Dead"}] /\ status'[t] = "Dead"
        /\ \A u \in Task : u # t => Woken(status'[u], r.wakes, u)
    <2> HIDE DEF r
    <2> DEFINE s == Unblocked(r.wakes)
    <2>1. /\ s \in [Task -> {"Free", "Ready", "Blocked", "Dead"}]
          /\ \A u \in Task : Woken(s[u], r.wakes, u)
      BY <1>2, Wakes
    <2> HIDE DEF s
    <2>2. status' = [s EXCEPT ![t] = "Dead"] BY <1>1 DEF s
    <2> QED BY Zenon, <2>1, <2>2
  <1>6. /\ fds' \in [Task -> [Fd -> Entry]] /\ \A u \in Task : u # t => fds'[u] = fds[u]
    BY Zenon, <1>1, <1>2 DEF Types, NoFds, Entry
  <1> HIDE DEF r, table
  <1>7. /\ Table' \in Cells
        /\ \A k \in Cell : Table'[k] = IF k[1] = t THEN NoFd ELSE Table[k]
    <2>1. \A k \in Cell : k[1] \in Task /\ k[2] \in Fd BY DEF Cell
    <2>2. itask' = itask BY <1>1 DEF idle
    <2>3. \A u \in Task : u # t => (Live(u)' <=> Live(u)) BY <1>2, <1>5 DEF Live, Woken, Types
    <2>4. ~Live(t)' BY <1>5 DEF Live
    <2>5. ASSUME NEW k \in Cell PROVE Table'[k] = IF k[1] = t THEN NoFd ELSE Table[k]
      <3>1. CASE k[1] = t BY <1>3, <2>2, <2>4, <3>1 DEF Table
      <3>2. CASE k[1] # t
        <4>1. Live(k[1])' <=> Live(k[1]) BY <2>1, <2>3, <3>2
        <4>2. fds'[k[1]] = fds[k[1]] BY <1>6, <2>1, <3>2
        <4> QED BY <2>2, <3>2, <4>1, <4>2 DEF Table
      <3> QED BY <3>1, <3>2
    <2>6. NoFd \in Entry BY DEF Entry
    <2>7. Table' \in Cells BY <1>6, <2>1, <2>6 DEF Table, Cells
    <2> QED BY <2>5, <2>7
  <1>8. /\ r \in Release /\ Good(r.obj, Table')
        /\ \A k \in Cell, u \in Task : k[1] # t /\ Safe(objects, Table[k], u)
                                        => u \in r.wakes \/ Safe(r.obj, Table[k], u)
        /\ \A o \in ObjectId : Dirty(objects, o) => o \in r.commits \/ Dirty(r.obj, o)
    <2>1. Emptied(Table, t, table, Table') BY Zenon, <1>2, <1>4, <1>7 DEF Emptied
    <2>2. Cleared(objects, Table, t, table, Table', r) BY Zenon, <1>2, <1>4, <1>7, <2>1, ReleaseAll DEF r
    <2> QED BY Zenon, <2>2 DEF Cleared
  <1>9. ASSUME NEW u \in Task, status'[u] = "Blocked"
        PROVE  /\ status[u] = "Blocked" /\ fds'[u] = fds[u]
               /\ \A f \in Fd : Safe(objects, fds[u][f], u) => Safe(objects', fds[u][f], u)
    <2>1. status[u] = "Blocked" /\ u \notin r.wakes /\ u # t BY <1>5, <1>9 DEF Woken
    <2>2. fds'[u] = fds[u] BY <1>6, <2>1
    <2>3. ASSUME NEW f \in Fd, Safe(objects, fds[u][f], u) PROVE Safe(objects', fds[u][f], u)
      <3> DEFINE k == <<u, f>>
      <3>1. k \in Cell /\ Table[k] = fds[u][f] /\ k[1] # t BY <2>1, TableFacts DEF Live
      <3> HIDE DEF k
      <3>2. Safe(objects, Table[k], u) BY <2>3, <3>1
      <3>3. Safe(r.obj, Table[k], u) BY <1>8, <2>1, <3>1, <3>2
      <3> QED BY <1>1, <3>1, <3>3
    <2> QED BY <2>1, <2>2, <2>3
  <1>10. NoLostData' BY Zenon, <1>1, <1>2, <1>8 DEF NoLostData, Dirty, Types, idle
  <1>11. unsaved' \in SUBSET ObjectId BY <1>1, <1>2 DEF Types
  <1>12. itask # NoTask => status'[itask] = status[itask] BY Zenon, <1>2, <1>3, <1>5 DEF Killing, Types, Woken
  <1>13. \A u \in Task : status'[u] = "Ready" => (Live(u) /\ fds'[u] = fds[u]) \/ at[u] = User
    BY <1>2, <1>5, <1>6 DEF Live, Woken, Types
  <1>14. Good(objects', Table') BY Zenon, <1>1, <1>8
  <1>15. \A u \in Task : status'[u] = "Free" => status[u] = "Free" BY <1>5 DEF Woken
  <1> QED BY Zenon, <1>1, <1>5, <1>6, <1>9, <1>10, <1>11, <1>12, <1>13, <1>14, <1>15, CallStep
=============================================================================
