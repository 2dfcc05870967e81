----------------------------- MODULE FileManager -----------------------------
(* The File Manager window (apps/file_manager/): a listing of one folder, a  *)
(* selection, dialogs, a clipboard, and one paste at a time, whose plan is   *)
(* made at once and carried out two steps a frame, while the user goes on    *)
(* and other programs change the tree.                                       *)
(*                                                                         *)
(* A name is a sequence of numbers: a stem and the suffixes that             *)
(* unique_child_name and unique_copy_name add; a path is a sequence of       *)
(* names; a file is its content.  Drawing, the offset of the view, the       *)
(* details pane and the status line are left out; so are the desktop's       *)
(* shortcuts, which no command but Open takes.                               *)
EXTENDS Outcomes, FiniteSets, Sequences, SequencesExt

CONSTANTS FmTree,      \* the files and folders at the start
          FmNames,     \* names that the user types
          FmProtected, \* paths that security::is_protected_path names
          FmTrash,     \* the path /Trash
          FmNumbers,   \* bound on the number that unique_child_name appends
          FmBudget,    \* bound: commands, failing writes and changes by others, together
          FmOthers     \* bound: changes by other programs

VARIABLE fm

FmFolder == "folder"
Empty == "empty"       \* a file that was created and not written yet
Cpy == 90              \* the suffix _CPY
Copy == 91             \* the suffix _COPY
None == [kind |-> "none"]

Root == <<>>
Parent(p) == IF p = Root THEN Root ELSE Front(p)
IsFolder(t, p) == p = Root \/ (p \in DOMAIN t /\ t[p] = FmFolder)
IsFile(t, p) == p \in DOMAIN t /\ t[p] # FmFolder
Children(t, p) == {q \in DOMAIN t : Len(q) = Len(p) + 1 /\ Front(q) = p}

\* path_contains
Within(p, q) == IsPrefix(p, q)

\* path_is_trash_or_inside
InTrash(p) == Within(FmTrash, p)

\* The order of names, and a set in an order.
Before(a, b) ==
  \E i \in 1..Len(b) : /\ i <= Len(a) => a[i] < b[i]
                       /\ \A j \in 1..(i - 1) : a[j] = b[j]

InOrder(S, Less(_, _)) ==
  [i \in 1..Cardinality(S) |-> CHOOSE x \in S : Cardinality({y \in S : Less(y, x)}) = i - 1]

Sooner(p, q) ==
  \/ Len(p) < Len(q)
  \/ Len(p) = Len(q) /\ \E i \in 1..Len(p) : Before(p[i], q[i]) /\ \A j \in 1..(i - 1) : p[j] = q[j]

ByName(S) == InOrder(S, LAMBDA p, q : Before(Last(p), Last(q)))

(* ---- the calls of the file system ---------------------------------------------- *)
Without(t, p) == [q \in DOMAIN t \ {p} |-> t[q]]
With(t, p, c) == [q \in DOMAIN t \cup {p} |-> IF q = p THEN c ELSE t[q]]

\* vfs_create_file and vfs_create_dir
Create(m, p, c) ==
  IF p \in DOMAIN m.tree \/ ~ IsFolder(m.tree, Parent(p)) THEN {Stop(m)}
  ELSE OrFails(m, [m EXCEPT !.tree = With(@, p, c)])

\* copy_file_for: the copy is created and then written.
CopyFile(m, src, dst) ==
  IF ~ IsFile(m.tree, src) THEN {Stop(m)}
  ELSE Then(Create(m, dst, Empty),
            LAMBDA n : OrFails(n, [n EXCEPT !.tree[dst] = m.tree[src]]))

\* vfs_delete
Delete(m, p) ==
  IF p \notin DOMAIN m.tree \/ Children(m.tree, p) # {} \/ p \in FmProtected THEN {Stop(m)}
  ELSE OrFails(m, [m EXCEPT !.tree = Without(@, p)])

\* child_name_exists, unique_child_name, unique_copy_name
Taken(t, dir, name) == Append(dir, name) \in DOMAIN t

UniqueName(t, dir, name) ==
  LET free == {n \in 1..FmNumbers : ~ Taken(t, dir, Append(name, n))}
  IN IF ~ Taken(t, dir, name) THEN name
     ELSE IF free # {} THEN Append(name, CHOOSE n \in free : \A k \in free : n <= k)
     ELSE Append(name, Copy)

UniqueCopyName(t, dir, name) == UniqueName(t, dir, Append(name, Cpy))

\* For each of the items in turn, until one fails.
Each(m, S, F(_, _)) ==
  FoldLeft(LAMBDA acc, x : Then(acc, LAMBDA n : F(n, x)), {Go(m)}, ByName(S))

\* copy_path_recursive
RECURSIVE CopyTree(_, _, _, _)
CopyTree(m, src, dst, dir) ==
  IF ~ dir THEN CopyFile(m, src, dst)
  ELSE Then(Create(m, dst, FmFolder), LAMBDA n :
            IF ~ IsFolder(n.tree, src) THEN {Stop(n)}
            ELSE Each(n, Children(n.tree, src), LAMBDA k, c :
                      CopyTree(k, c, Append(dst, Last(c)), IsFolder(k.tree, c))))

Undeletable(p) == p \in {Root, FmTrash} \cup FmProtected

\* delete_path_recursive
RECURSIVE DeleteTree(_, _, _)
DeleteTree(m, p, dir) ==
  IF Undeletable(p) \/ (dir /\ ~ IsFolder(m.tree, p)) THEN {Stop(m)}
  ELSE Then(IF ~ dir THEN {Go(m)}
            ELSE Each(m, Children(m.tree, p), LAMBDA k, c : DeleteTree(k, c, IsFolder(k.tree, c))),
            LAMBDA n : Delete(n, p))

(* ---- the listing ----------------------------------------------------------------- *)
\* sort_entries by name: folders first, then the names in one order or the other.  Rows of
\* the same name, which a search may find, come in the order of their folders.
SortEntries(S, desc) ==
  InOrder(S, LAMBDA x, y : IF x.dir # y.dir THEN x.dir
                           ELSE LET a == Last(x.path)
                                    b == Last(y.path)
                                IN IF a = b THEN Sooner(x.path, y.path)
                                   ELSE IF desc THEN Before(b, a) ELSE Before(a, b))

\* load_entries_for_path
Listing(t, S, desc) == SortEntries({[path |-> p, dir |-> IsFolder(t, p)] : p \in S}, desc)

Positions(es, Test(_)) == {i \in 1..Len(es) : Test(es[i].path)}
First(S) == CHOOSE i \in S : \A j \in S : i <= j

\* The selection after the listing es replaces another: the first entry that passes the
\* test, else the first one.
Reselected(m, es, Test(_)) ==
  LET hit == Positions(es, Test)
      s == IF hit # {} THEN {First(hit)} ELSE IF es # <<>> THEN {1} ELSE {}
  IN [m EXCEPT !.entries = es, !.sel = s, !.focus = IF s = {} THEN 0 ELSE First(s)]

\* load_dir_with_state.  The dialog stays as it is.
LoadDir(m, dir, name) ==
  LET es == Listing(m.tree, Children(m.tree, dir), m.desc)
  IN Reselected([m EXCEPT !.cwd = dir, !.all = es, !.filter = 0, !.searching = FALSE],
                es, LAMBDA p : Last(p) = name)

NoName == <<0>>
SelectedName(m) ==
  LET at == m.sel \cap 1..Len(m.entries)
  IN IF at = {} THEN NoName ELSE Last(m.entries[First(at)].path)

\* collect_search_entries
Found(m) == {p \in DOMAIN m.tree : p # m.cwd /\ Within(m.cwd, p) /\ Head(Last(p)) = m.filter}

\* apply_search_filter.  A listing that was filtered to nothing
\* falls back on the names of the unfiltered one.
ApplyFilter(m) ==
  LET kept == IF m.focus \in 1..Len(m.entries) THEN m.entries[m.focus].path ELSE <<NoName>>
      es == IF m.filter = 0 THEN m.all
            ELSE IF Found(m) # {} THEN Listing(m.tree, Found(m), m.desc)
            ELSE SelectSeq(m.all, LAMBDA e : Head(Last(e.path)) = m.filter)
  IN Reselected(m, es, LAMBDA p : p = kept)

\* targets_from_indices: whatever lies in a selected folder goes with it.
Targets(m, S) ==
  LET picked == {m.entries[i] : i \in S \cap 1..Len(m.entries)}
  IN SelectSeq(m.entries, LAMBDA e : /\ e \in picked
                                     /\ ~ \E x \in picked : x # e /\ x.dir /\ Within(x.path, e.path))

\* copy_target_or_selection: the row, or the selection it belongs to
MenuTargets(m, i) == Targets(m, IF i \in m.sel THEN m.sel ELSE {i})

(* ---- paste ------------------------------------------------------------------------ *)
\* Mutant: the plan for a folder creates it and leaves out what is in it.
CopyPlanShallow(t, src, dst, dir) ==
  <<IF dir THEN [do |-> "mkdir", path |-> dst] ELSE [do |-> "copy", src |-> src, path |-> dst]>>

\* collect_copy_plan
RECURSIVE CopyPlan(_, _, _, _)
CopyPlan(t, src, dst, dir) ==
  IF ~ dir THEN <<[do |-> "copy", src |-> src, path |-> dst]>>
  ELSE FoldLeft(LAMBDA steps, c : steps \o CopyPlan(t, c, Append(dst, Last(c)), IsFolder(t, c)),
                <<[do |-> "mkdir", path |-> dst]>>, ByName(Children(t, src)))

\* collect_delete_plan
RECURSIVE DeletePlan(_, _)
DeletePlan(t, p) ==
  FlattenSeq([i \in 1..Cardinality(Children(t, p)) |-> DeletePlan(t, ByName(Children(t, p))[i])])
     \o <<[do |-> "delete", path |-> p]>>

Deletable(t, p, dir) ==
  /\ dir => IsFolder(t, p)
  /\ ~ \E q \in {p} \cup (IF dir THEN DOMAIN t ELSE {}) : Within(p, q) /\ Undeletable(q)

\* The steps for one item of the clipboard, in this order; Skipped when there are none or
\* when one of the plans is refused.
Skipped == [steps |-> <<>>, dst |-> Root, replaced |-> {}]

PlanSteps(t, replaced, x, dst, cut) ==
  (IF replaced = {} THEN <<>> ELSE DeletePlan(t, dst))
     \o CopyPlan(t, x.path, dst, x.dir)
     \o (IF cut THEN DeletePlan(t, x.path) ELSE <<>>)

PlanItem(m, x, cut, policy) ==
  LET exists == Taken(m.tree, m.cwd, Last(x.path))
      name == IF exists /\ policy = "rename" THEN UniqueName(m.tree, m.cwd, Last(x.path)) ELSE Last(x.path)
      itself == Append(m.cwd, name) = x.path
      dst == Append(m.cwd, IF itself THEN UniqueCopyName(m.tree, m.cwd, name) ELSE name)
      replaced == IF exists /\ policy = "replace" THEN {dst} ELSE {}
  IN IF \/ x.dir /\ (Within(x.path, m.cwd) \/ ~ IsFolder(m.tree, x.path))
        \/ exists /\ policy = "skip"
        \/ itself /\ cut
        \/ replaced # {} /\ ~ Deletable(m.tree, dst, IsFolder(m.tree, dst))
        \/ cut /\ ~ Deletable(m.tree, x.path, x.dir)
     THEN Skipped
     ELSE [steps |-> PlanSteps(m.tree, replaced, x, dst, cut), dst |-> dst, replaced |-> replaced]

\* What the finished operation is to leave: each file with its content at its new place, and
\* for a move nothing at the old one.
Wanted(m, x, dst) ==
  {<<dst \o SubSeq(p, Len(x.path) + 1, Len(p)), m.tree[p]>> : p \in {p \in DOMAIN m.tree : Within(x.path, p)}}

\* execute_file_operation_step
DoStep(m, s) ==
  CASE s.do = "mkdir" -> IF s.path \in DOMAIN m.tree THEN {Go(m)} ELSE Create(m, s.path, FmFolder)
    [] s.do = "copy" -> CopyFile(m, s.src, s.path)
    [] s.do = "delete" -> Delete(m, s.path)

StepsPerFrame == 2

\* process_active_file_operation
ProcessOperation(m) ==
  LET op == m.op
      n == IF Len(op.steps) < StepsPerFrame THEN Len(op.steps) ELSE StepsPerFrame
      done(k) == LoadDir([k EXCEPT !.op = None], k.cwd, op.name)
      after(r) == [r EXCEPT !.m.ended = IF op.steps = SubSeq(op.steps, 1, n) /\ r.ok /\ ~ op.touched THEN op ELSE None]
  IN IF op = None \/ op.job = "paused" THEN {Go(m)}
     ELSE IF op.job = "cancelled" THEN {Go([m EXCEPT !.op = None])}
     ELSE {after(IF ~ r.ok THEN [r EXCEPT !.m.op = None]
                 ELSE IF n = Len(op.steps) THEN [r EXCEPT !.m = done(@)]
                 ELSE [r EXCEPT !.m.op.steps = SubSeq(@, n + 1, Len(@))])
           : r \in FoldLeft(LAMBDA acc, s : Then(acc, LAMBDA k : DoStep(k, s)), {Go(m)}, SubSeq(op.steps, 1, n))}

\* The window's own clipboard, or the shared one, whose paths are looked up now.
PasteSource(m) ==
  IF m.clip # None THEN m.clip
  ELSE IF m.shared # None
  THEN [m.shared EXCEPT !.items = [i \in 1..Len(@) |-> [path |-> @[i].path, dir |-> IsFolder(m.tree, @[i].path)]]]
  ELSE None

\* The plan for the whole clipboard; Wanted and the sources of a move are kept for the
\* properties.
Operation(m, clip, policy) ==
  LET items == clip.items
      plan == [i \in 1..Len(items) |-> PlanItem(m, items[i], clip.cut, policy)]
      used == {i \in 1..Len(items) : plan[i] # Skipped}
  IN IF used = {} THEN None
     ELSE [kind |-> IF clip.cut THEN "move" ELSE "copy", job |-> "running", name |-> Last(plan[First(used)].dst),
           steps |-> FlattenSeq([i \in 1..Len(plan) |-> plan[i].steps]),
           replaced |-> UNION {plan[i].replaced : i \in used}, touched |-> FALSE,
           want |-> UNION {Wanted(m, items[i], plan[i].dst) : i \in used},
           gone |-> IF clip.cut THEN {items[i].path : i \in used} ELSE {}]

\* An item that may not be pasted here at all does not count.
Conflict(m, clip) ==
  \E x \in ToSet(clip.items) : /\ ~ (x.dir /\ Within(x.path, m.cwd))
                              /\ Taken(m.tree, m.cwd, Last(x.path))

\* ensure_current_dir_exists
EnsureDir(m) == IF IsFolder(m.tree, m.cwd) THEN {Go(m)} ELSE Create(m, m.cwd, FmFolder)

\* paste_clipboard_with_policy
Paste(m, policy) ==
  LET clip == PasteSource(m)
      start(k, op) == IF op = None THEN {Go(k)}
                      ELSE ProcessOperation([k EXCEPT !.op = op, !.clip = IF clip.cut THEN None ELSE @])
  IN IF m.op # None \/ clip = None THEN {Go(m)}
     ELSE Then(EnsureDir(m), LAMBDA k :
               IF policy = "ask" /\ Conflict(k, clip) THEN {Go([k EXCEPT !.modal = [kind |-> "conflict", clip |-> clip]])}
               ELSE start(k, Operation(k, clip, policy)))

(* ---- commands ----------------------------------------------------------------------- *)
\* navigate_to, navigate_back and navigate_forward; the stacks of the last two hold folders
\* that were shown before, and any folder may be shown.
NavigateTo(m, dir) == LoadDir(m, dir, NoName)

NavigateParent(m) == IF m.cwd = Root THEN m ELSE NavigateTo(m, Parent(m.cwd))

Select(m, i) == [m EXCEPT !.sel = {i}, !.focus = i]

\* open_selected; opening a file is left to the compositor.
OpenSelected(m) ==
  LET i == m.focus
  IN IF i \in 1..Len(m.entries) /\ m.entries[i].dir THEN NavigateTo(m, m.entries[i].path) ELSE m

RefreshDir(m) == LoadDir(m, m.cwd, SelectedName(m))

\* copy_indices_to_clipboard
CopyToClipboard(m, items, cut) ==
  IF items = <<>> THEN m
  ELSE LET c == [kind |-> "paths", items |-> items, cut |-> cut] IN [m EXCEPT !.clip = c, !.shared = c]

\* confirm_delete_entries
ConfirmDelete(m, items) ==
  IF items = <<>> THEN m
  ELSE [m EXCEPT !.modal = [kind |-> "confirm", items |-> items,
                            permanent |-> \A i \in 1..Len(items) : InTrash(items[i].path)]]

\* rename_focused and ContextAction::Rename: the dialog remembers the row.
AskRename(m, i) == IF i \in 1..Len(m.entries) THEN [m EXCEPT !.modal = [kind |-> "rename", row |-> i]] ELSE m

AskName(m, what) == [m EXCEPT !.modal = [kind |-> what]]

\* open_text_editor
OpenEditor(m, i) ==
  IF i \notin 1..Len(m.entries) \/ ~ IsFile(m.tree, m.entries[i].path) THEN m
  ELSE [m EXCEPT !.modal = [kind |-> "editor", row |-> i, path |-> m.entries[i].path]]

\* duplicate_entry
Duplicate(m, i) ==
  IF i \notin 1..Len(m.entries) THEN {Go(m)}
  ELSE LET e == m.entries[i]
           name == UniqueCopyName(m.tree, m.cwd, Last(e.path))
       IN Then(CopyTree(m, e.path, Append(m.cwd, name), e.dir), LAMBDA n : {Go(LoadDir(n, n.cwd, name))})

\* move_targets_to_trash: an item of the Trash is deleted, any other is copied there and
\* then deleted; an error leaves the item and goes on with the next.
TrashOne(m, x) ==
  IF InTrash(x.path) THEN DeleteTree(m, x.path, x.dir)
  ELSE Then(CopyTree(m, x.path, Append(FmTrash, UniqueName(m.tree, FmTrash, Last(x.path))), x.dir),
            LAMBDA n : DeleteTree(n, x.path, x.dir))

Regardless(S, F(_)) == UNION {{[r EXCEPT !.failed = @ + s.failed] : r \in F(s.m)} : s \in S}

ForAll(m, items, F(_, _)) ==
  FoldLeft(LAMBDA acc, x : Regardless(acc, LAMBDA n : F(n, x)), {Go(m)}, items)

Reloaded(S) == {[s EXCEPT !.m = LoadDir(@, @.cwd, NoName)] : s \in S}

MoveToTrash(m, items) ==
  Then(IF IsFolder(m.tree, FmTrash) THEN {Go(m)} ELSE Create(m, FmTrash, FmFolder),
       LAMBDA k : Reloaded(ForAll(k, items, TrashOne)))

\* delete_entries
DeleteEntries(m, items) ==
  Reloaded(ForAll(m, items, LAMBDA n, x : DeleteTree(n, x.path, x.dir)))

\* accept_confirm_dialog
AcceptConfirm(m) ==
  LET closed == [m EXCEPT !.modal = None]
  IN IF m.modal.permanent THEN DeleteEntries(closed, m.modal.items) ELSE MoveToTrash(closed, m.modal.items)

\* accept_conflict_dialog
AcceptConflict(m, policy) == Paste([m EXCEPT !.modal = None, !.clip = m.modal.clip], policy)

\* vfs_rename
RenamePath(t, p, q) ==
  LET moved(x) == q \o SubSeq(x, Len(p) + 1, Len(x))
      new == {x \in DOMAIN t : ~ Within(p, x)}
  IN [y \in new \cup {moved(x) : x \in DOMAIN t \ new} |->
        IF y \in new THEN t[y] ELSE t[CHOOSE x \in DOMAIN t \ new : moved(x) = y]]

Rename(m, p, name) ==
  LET q == Append(Parent(p), name)
  IN IF q = p THEN {Go(m)}
     ELSE IF p \notin DOMAIN m.tree \/ q \in DOMAIN m.tree \/ p \in FmProtected THEN {Stop(m)}
     ELSE OrFails(m, [m EXCEPT !.tree = RenamePath(@, p, q)])

\* save_name_dialog.  The row of a rename is looked up in the listing of this moment; beyond
\* its end make_abs panics.  On an error the dialog stays.
SaveName(m, name) ==
  LET d == m.modal
      new(c) == Then(EnsureDir(m), LAMBDA k : Create(k, Append(k.cwd, name), c))
      tried == CASE d.kind = "newfile" -> new(Empty)
                 [] d.kind = "newfolder" -> new(FmFolder)
                 [] d.kind = "rename" -> Rename(m, m.entries[d.row].path, name)
  IN IF d.kind = "rename" /\ d.row > Len(m.entries) THEN {Stop([m EXCEPT !.halted = TRUE])}
     ELSE Then(tried, LAMBDA n : {Go(LoadDir([n EXCEPT !.modal = None], n.cwd, name))})

\* save_text_editor
SaveText(m) ==
  LET d == m.modal
  IN IF IsFolder(m.tree, d.path) \/ ~ IsFolder(m.tree, Parent(d.path)) THEN {Stop(m)}
     ELSE Then(OrFails(m, [m EXCEPT !.tree = With(@, d.path, "edited")]),
               LAMBDA k : {Go(LoadDir([k EXCEPT !.modal = None], k.cwd, SelectedName([k EXCEPT !.sel = {d.row}])))})

\* change_sort
ChangeSort(m) ==
  LET d == ~ m.desc
      name == SelectedName(m)
  IN Reselected([m EXCEPT !.desc = d], SortEntries(ToSet(m.entries), d),
                LAMBDA p : Last(p) = name)

(* ---- actions -------------------------------------------------------------------------- *)
\* A change of the tree by anything but the running operation itself.
Touched(m, n) == IF m.op # None /\ n.op # None /\ n.tree # m.tree THEN [n EXCEPT !.op.touched = TRUE] ELSE n

Settle(m) == [m EXCEPT !.ended = None]

FmStep(S, cost) ==
  /\ ~ fm.m.halted
  /\ \E s \in S : /\ cost + s.failed <= fm.left
                  /\ fm' = [fm EXCEPT !.m = Touched(fm.m, s.m), !.left = @ - cost - s.failed]

\* handle_nav_key.  A key that the open dialog does not take goes to the listing below.
KeyReaches(m, k) ==
  /\ ~ m.searching
  /\ CASE m.modal.kind = "none" -> TRUE
       [] m.modal.kind \in {"newfile", "newfolder", "rename"} -> k = "parent"
       [] m.modal.kind = "conflict" -> k # "refresh"
       [] m.modal.kind = "properties" -> k \notin {"open", "toggle"}
       [] m.modal.kind = "confirm" -> k # "open"
       [] OTHER -> FALSE

ToggleFocused(m) ==
  IF m.focus = 0 THEN m
  ELSE IF m.focus \notin m.sel THEN [m EXCEPT !.sel = @ \cup {m.focus}]
  ELSE IF Cardinality(m.sel) > 1 THEN [m EXCEPT !.sel = @ \ {m.focus}] ELSE m

SelectAll(m) ==
  [m EXCEPT !.sel = 1..Len(m.entries), !.focus = IF m.entries = <<>> THEN 0 ELSE 1]

MoveFocus(m, d) ==
  LET i == m.focus + d IN IF i \in 1..Len(m.entries) THEN Select(m, i) ELSE m

HandleKey(m, k) ==
  CASE k = "parent" -> {Go(NavigateParent(m))}
    [] k = "open" -> {Go(OpenSelected(m))}
    [] k = "down" -> {Go(MoveFocus(m, 1))}
    [] k = "up" -> {Go(MoveFocus(m, -1))}
    [] k = "toggle" -> {Go(ToggleFocused(m))}
    [] k = "all" -> {Go(SelectAll(m))}
    [] k = "rename" -> {Go(AskRename(m, m.focus))}
    [] k = "copy" -> {Go(CopyToClipboard(m, Targets(m, m.sel), FALSE))}
    [] k = "cut" -> {Go(CopyToClipboard(m, Targets(m, m.sel), TRUE))}
    [] k = "paste" -> Paste(m, "ask")
    [] k = "refresh" -> {Go(RefreshDir(m))}
    [] k = "delete" -> {Go(ConfirmDelete(m, Targets(m, m.sel)))}

Keys == {"parent", "open", "down", "up", "toggle", "all", "rename", "copy", "cut", "paste", "refresh", "delete"}

FmKey == \E k \in Keys : KeyReaches(fm.m, k) /\ FmStep(HandleKey(Settle(fm.m), k), 1)

\* run_context_action on row i, which the right click selects unless it is selected; the menu
\* is closed by whatever replaces the listing, so opening it and choosing is one step.
RunContext(m, a, i) ==
  CASE a = "open" -> {Go(OpenSelected(Select(m, i)))}
    [] a = "copy" -> {Go(CopyToClipboard(m, MenuTargets(m, i), FALSE))}
    [] a = "cut" -> {Go(CopyToClipboard(m, MenuTargets(m, i), TRUE))}
    [] a = "paste" -> IF m.clip = None THEN {Go(m)} ELSE Paste(m, "ask")
    [] a = "newfile" -> {Go(AskName(m, "newfile"))}
    [] a = "newfolder" -> {Go(AskName(m, "newfolder"))}
    [] a = "rename" -> {Go(AskRename(m, i))}
    [] a = "edit" -> {Go(OpenEditor(m, i))}
    [] a = "duplicate" -> Duplicate(m, i)
    [] a = "delete" -> {Go(ConfirmDelete(m, MenuTargets(m, i)))}
    [] a = "properties" -> {Go(AskName(Select(m, i), "properties"))}

ContextActions == {"open", "copy", "cut", "paste", "newfile", "newfolder", "rename", "edit", "duplicate", "delete", "properties"}

FmContext ==
  /\ fm.m.modal = None
  /\ \E i \in 1..Len(fm.m.entries), a \in ContextActions :
        LET m == Settle(fm.m) IN FmStep(RunContext(IF i \in m.sel THEN m ELSE Select(m, i), a, i), 1)

\* handle_click outside dialogs and menus
FmClick ==
  /\ fm.m.modal = None
  /\ LET m == Settle(fm.m)
     IN FmStep({Go(n) : n \in {ChangeSort(m), [m EXCEPT !.searching = TRUE]}
                           \cup {NavigateTo(m, p) : p \in {Root} \cup {p \in DOMAIN m.tree : m.tree[p] = FmFolder}}
                           \cup {[Select(m, i) EXCEPT !.searching = FALSE] : i \in 1..Len(m.entries)}}, 1)

\* drop_paths: what drag_paths_at picked up in this window or another, nested or not.  The drag
\* is a command too.
FmDrop ==
  /\ fm.m.modal = None
  /\ \E p \in DOMAIN fm.m.tree, q \in DOMAIN fm.m.tree, cut \in BOOLEAN :
        LET ps == SetToSeq({p, q})
            item(x) == [path |-> x, dir |-> IsFolder(fm.m.tree, x)]
            clip == [kind |-> "paths", items |-> [i \in DOMAIN ps |-> item(ps[i])], cut |-> cut]
        IN FmStep(Paste([Settle(fm.m) EXCEPT !.clip = clip], "ask"), 2)

\* handle_search_key
FmSearch ==
  /\ fm.m.searching /\ fm.m.modal = None
  /\ LET m == Settle(fm.m)
     IN FmStep({Go([m EXCEPT !.searching = FALSE]), Go(ApplyFilter([m EXCEPT !.searching = FALSE, !.filter = 0]))}
                  \cup {Go(ApplyFilter([m EXCEPT !.filter = Head(n)])) : n \in FmNames}, 1)

\* handle_modal_key and handle_modal_click
FmDialog ==
  LET m == Settle(fm.m)
      k == m.modal.kind
  IN /\ m.modal # None
     /\ FmStep({Go([m EXCEPT !.modal = None])}
                \cup (IF k \in {"newfile", "newfolder", "rename"} THEN UNION {SaveName(m, n) : n \in FmNames} ELSE {})
                \cup (IF k = "editor" THEN SaveText(m) ELSE {})
                \cup (IF k = "confirm" THEN AcceptConfirm(m) ELSE {})
                \cup (IF k = "conflict" THEN UNION {AcceptConflict(m, p) : p \in {"replace", "skip", "rename"}} ELSE {}), 0)

\* handle_file_operation_click: pause, resume, cancel.
FmOperationClick ==
  LET op == fm.m.op
  IN /\ op # None /\ fm.m.modal = None /\ op.job # "evicted"
     /\ \E j \in {IF op.job = "paused" THEN "running" ELSE "paused", "cancelled"} :
           FmStep({Go([Settle(fm.m) EXCEPT !.op.job = j])}, 1)

\* update
FmFrame ==
  /\ fm.m.op # None
  /\ \E s \in ProcessOperation(Settle(fm.m)) :
        /\ s.failed <= fm.left /\ ~ fm.m.halted
        /\ fm' = [fm EXCEPT !.m = s.m, !.left = @ - s.failed]

\* Another program writes or deletes a file, or MAX_JOBS newer jobs push the operation's
\* job out of the list, while the window has something under way.
FmOther ==
  LET m == Settle(fm.m)
      files == {p \in DOMAIN m.tree : m.tree[p] # FmFolder}
  IN /\ m.op # None \/ m.modal # None
     /\ \E n \in {[m EXCEPT !.tree = With(@, p, "theirs")] : p \in files}
               \cup {[m EXCEPT !.tree = Without(@, p)] : p \in files}
               \cup (IF m.op = None THEN {} ELSE {[m EXCEPT !.op.job = "evicted"]}) :
           /\ fm.others < FmOthers /\ fm.left > 0 /\ ~ m.halted
           /\ fm' = [fm EXCEPT !.m = Touched(m, n), !.left = @ - 1, !.others = @ + 1]

FmNext == FmKey \/ FmContext \/ FmClick \/ FmDrop \/ FmSearch \/ FmDialog \/ FmOperationClick \/ FmFrame \/ FmOther

FmInit ==
  fm = [m |-> LoadDir([tree |-> FmTree, cwd |-> Root, all |-> <<>>, entries |-> <<>>, sel |-> {}, focus |-> 0,
                       desc |-> FALSE, modal |-> None, clip |-> None, shared |-> None, op |-> None,
                       filter |-> 0, searching |-> FALSE, halted |-> FALSE, ended |-> None],
                      Root, NoName),
        left |-> FmBudget, others |-> 0]

(* ---- properties --------------------------------------------------------------------------- *)
\* Every file and folder is in a folder, and the selection lies in the listing that is shown.
FmTypeOK ==
  /\ \A p \in DOMAIN fm.m.tree : IsFolder(fm.m.tree, Parent(p))
  /\ fm.m.sel \subseteq 1..Len(fm.m.entries) /\ fm.m.focus \in 0..Len(fm.m.entries)

Files(t) == {p \in DOMAIN t : t[p] # FmFolder}
ContentsOf(t) == {t[p] : p \in Files(t)}

\* What the user asked to destroy: what the dialog is to delete from the Trash, the text that
\* the editor replaces, what a Replace overwrites, and the sources of a move in whose way
\* somebody came.
Condemned(m) ==
  LET d == m.modal
  IN (IF d.kind = "confirm" THEN {x.path : x \in {x \in ToSet(d.items) : InTrash(x.path)}} ELSE {})
     \cup (IF d.kind = "editor" THEN {d.path} ELSE {})
     \cup (IF d.kind = "conflict" THEN {Append(m.cwd, Last(x.path)) : x \in ToSet(d.clip.items)} ELSE {})
     \cup (IF m.op # None THEN m.op.replaced \cup (IF m.op.touched THEN m.op.gone ELSE {}) ELSE {})

\* Nothing is lost: a content that no file has after a step of the window was, before it, in a
\* file that the user deleted from the Trash, replaced or overwrote in the editor, or in the
\* source of a move while which the tree was changed.  Moves to the Trash, renames and pastes
\* that fail, are cancelled or find a name taken keep every other content.
FmKeepsFiles ==
  fm'.others = fm.others =>
       \A c \in ContentsOf(fm.m.tree) \ (ContentsOf(fm'.m.tree) \cup {Empty}) :
          \E p \in Files(fm.m.tree), q \in Condemned(fm.m) : fm.m.tree[p] = c /\ Within(q, p)

\* An operation that ends as complete, nobody else having changed the tree meanwhile, did all
\* that was planned: every file is at its new place with its content, and of a moved item
\* nothing is left at the old one.  This is said of items that are to be apart, since the plan
\* is made item by item: with two of the same name, a Replace deletes for the second one what
\* it has just put there for the first.
FmCompleteIsWhole ==
  LET op == fm.m.ended
      apart == /\ \A v, w \in op.want : v[1] = w[1] => v = w
               /\ \A w \in op.want, p \in op.gone : ~ Within(p, w[1])
  IN op # None /\ apart =>
       /\ \A w \in op.want : w[1] \in DOMAIN fm.m.tree /\ fm.m.tree[w[1]] = w[2]
       /\ \A p \in op.gone : p \notin DOMAIN fm.m.tree
=============================================================================
