------------------------------ MODULE Packages ------------------------------
(* The package manager (packages/).                                         *)
(*                                                                         *)
(* A .pkg file names a package, its version, its dependencies and payloads  *)
(* to copy from source files to target paths; a .sig file beside it signs   *)
(* the normalised manifest with the hashes of the payloads.  An installed   *)
(* package has its payloads, /APPS/<command>/APP.CFG and an owner record    *)
(* OWNER.TXT; INSTALLED is the list in memory, rebuilt at boot.  A record   *)
(* or a payload stands for its hash.  Commands run in the main task, one at *)
(* a time; any write may fail for lack of space, PkFails of them in a run.  *)
EXTENDS Outcomes, FiniteSets, Sequences, SequencesExt

CONSTANTS PkPaths,     \* the .pkg files
          PkVariants,  \* for each, the manifests it may hold: [id, ver, targets, deps]
          PkTargets,   \* payload targets; each has a source file
          PkApps,      \* ids of packages
          PkBuiltin,   \* ids of built-in applications
          PkKeys,      \* keys that sign-as accepts
          PkFails      \* bound: failing writes

VARIABLE pk

Absent == [text |-> "absent"]
Garbled == [text |-> "garbled"]   \* a file whose content does not parse
NoFile == "none"

Texts == {Absent, Garbled}

\* parse_archive_manifest: what the signature covers, the hashes of the payload
\* sources as they are now included.
Manifest(m, path) ==
  LET a == m.arch[path]
  IN [id |-> a.id, ver |-> a.ver, deps |-> a.deps,
      payloads |-> [t \in ToSet(a.targets) |-> m.src[t]]]

\* verify_archive
VerifyArchive(m, path) ==
  /\ m.arch[path] # Absent /\ m.sig[path] # Absent
  /\ m.sig[path].key \in {"pkg-a", "pkg-b"}       \* trusted, and neither revoked nor expired
  /\ m.sig[path].of = Manifest(m, path)

\* installed_manifest_text
AppCfg(man) == [id |-> man.id, ver |-> man.ver]

Owns(m, id) == m.own[id] \notin Texts

\* Mutant: the files on disk are not compared with the hashes.
VerifyRecordOnly(m, id) ==
  /\ Owns(m, id)
  /\ LET o == m.own[id]
     IN /\ m.cfg[id] = AppCfg(o.of)
        /\ VerifyArchive(m, o.source) /\ Manifest(m, o.source) = o.of

\* verify_installed_package, verify_installed_payloads
VerifyInstalled(m, id) ==
  /\ Owns(m, id)
  /\ LET o == m.own[id]
     IN /\ m.cfg[id] = AppCfg(o.of)
        /\ VerifyArchive(m, o.source) /\ Manifest(m, o.source) = o.of
        /\ \A t \in DOMAIN o.of.payloads : m.files[t] = o.of.payloads[t]

\* payload_owner_by_target
OwnersOf(m, t) == {id \in PkApps : Owns(m, id) /\ t \in DOMAIN m.own[id].of.payloads}

\* check_payload_targets
CheckTargets(m, man) ==
  \A t \in DOMAIN man.payloads :
     IF OwnersOf(m, t) # {} THEN OwnersOf(m, t) \subseteq {man.id} ELSE m.files[t] = NoFile

\* check_package_downgrade.  A manifest that does not parse still counts, as version 0.
InstalledVersion(m, id) ==
  IF m.cfg[id] = Garbled THEN 0
  ELSE IF m.cfg[id] # Absent THEN m.cfg[id].ver
  ELSE IF Owns(m, id) THEN m.own[id].of.ver ELSE 0

\* install_archive_inner, up to the transaction
MayInstall(m, path) ==
  /\ VerifyArchive(m, path)
  /\ LET man == Manifest(m, path)
     IN /\ man.id \notin PkBuiltin
        /\ man.deps \subseteq m.installed
        /\ man.ver >= InstalledVersion(m, man.id)
        /\ CheckTargets(m, man)

(* ---- transactions ----------------------------------------------------------- *)
RECURSIVE WritePayloads(_, _, _)
WritePayloads(m, man, ts) ==
  IF ts = <<>> THEN {Go(m)}
  ELSE Then(OrFails(m, [m EXCEPT !.files[Head(ts)] = man.payloads[Head(ts)]]),
            LAMBDA n : WritePayloads(n, man, Tail(ts)))

\* safe_write of the manifest and of write_owner_record: a new file is created empty first.
WriteText(m, f, id, text) ==
  LET created == IF m[f][id] = Absent THEN [m EXCEPT ![f][id] = Garbled] ELSE m
  IN Then(OrFails(m, created), LAMBDA n : OrFails(n, [n EXCEPT ![f][id] = text]))

\* write_installed_files.  inject stops after the first payload.
WriteInstalled(m, path, inject) ==
  LET man == Manifest(m, path)
      ts == m.arch[path].targets
      all == Then(WritePayloads(m, man, ts), LAMBDA a :
             Then(WriteText(a, "cfg", man.id, AppCfg(man)), LAMBDA b :
                  WriteText(b, "own", man.id, [source |-> path, of |-> man])))
      one == Then(WritePayloads(m, man, SubSeq(ts, 1, 1)), LAMBDA a : {Stop(a)})
  IN IF inject THEN one ELSE all

RECURSIVE DeletePayloads(_, _)
DeletePayloads(m, ts) ==
  IF ts = <<>> THEN {Go(m)}
  ELSE Then(IF m.files[Head(ts)] = NoFile THEN {Go(m)} ELSE OrFails(m, [m EXCEPT !.files[Head(ts)] = NoFile]),
            LAMBDA n : DeletePayloads(n, Tail(ts)))

\* delete_app_dir: the manifest, the owner record, the directory.
DeleteAppDir(m, id) ==
  LET gone(n, f) == IF n[f][id] = Absent THEN {Go(n)} ELSE OrFails(n, [n EXCEPT ![f][id] = Absent])
  IN Then(gone(m, "cfg"), LAMBDA a : Then(gone(a, "own"), LAMBDA b : OrFails(b, b)))

\* remove_owned_files
RemoveOwned(m, id) ==
  Then(DeletePayloads(m, SetToSeq(DOMAIN m.own[id].of.payloads)), LAMBDA n : DeleteAppDir(n, id))

\* Mutant: the files written before the failing one stay.
RestoreTexts(old, s, id, ts) ==
  {[s EXCEPT !.m = [s.m EXCEPT !.cfg[id] = old.cfg[id], !.own[id] = old.own[id]]]}

\* capture_rollback and restore_rollback: every captured file is written back or
\* deleted, and an error in one of them does not stop the others.
Restore(old, s, id, ts) ==
  LET back(f, k) == IF s.m[f][k] = old[f][k] THEN {FALSE} ELSE {FALSE, TRUE}
  IN {[s EXCEPT !.m = [s.m EXCEPT !.files = [t \in PkTargets |-> IF t \in ts \ lost THEN old.files[t] ELSE s.m.files[t]],
                                  !.cfg[id] = IF lc THEN @ ELSE old.cfg[id],
                                  !.own[id] = IF lo THEN @ ELSE old.own[id]],
                !.failed = @ + Cardinality(lost) + (IF lc THEN 1 ELSE 0) + (IF lo THEN 1 ELSE 0)]
      : lost \in SUBSET {t \in ts : s.m.files[t] # old.files[t]},
        lc \in back("cfg", id), lo \in back("own", id)}

\* A transaction on the files of package id: S are the outcomes of its writes.  The
\* code records a rollback that could not write a file back as rolled back, too.
Transaction(m, S, id, ts) ==
  UNION {IF s.ok THEN {[s EXCEPT !.m.txn = "clean"]}
         ELSE {[r EXCEPT !.m.txn = IF r.failed = s.failed THEN "rolled-back" ELSE "torn"]
               : r \in Restore(m, s, id, ts)} : s \in S}

Installed(S, id) == {IF s.ok THEN [s EXCEPT !.m.installed = @ \cup {id}] ELSE s : s \in S}

\* install_archive_inner
InstallArchive(m, path, inject) ==
  LET man == Manifest(m, path)
  IN Installed(Transaction(m, WriteInstalled(m, path, inject), man.id, DOMAIN man.payloads), man.id)

\* repair: the archive that the owner record names is installed again.
Repair(m, id) ==
  LET path == m.own[id].source
      man == Manifest(m, path)
  IN IF ~ VerifyArchive(m, path) \/ man.id # id \/ ~ man.deps \subseteq m.installed \/ ~ CheckTargets(m, man)
     THEN {Stop(m)}
     ELSE Installed(Transaction(m, WriteInstalled(m, path, FALSE), id, DOMAIN man.payloads), id)

\* uninstall.  Asked for by its command, a package whose manifest does not parse is
\* found as app.unknown, and its id stays in INSTALLED.
Uninstall(m, id, byCommand) ==
  LET dropped == IF m.cfg[id] = Garbled /\ byCommand THEN {} ELSE {id}
      off(s) == IF s.ok THEN [s EXCEPT !.m.installed = @ \ dropped] ELSE s
  IN IF id \in PkBuiltin THEN {Go([m EXCEPT !.installed = @ \ {id}])}
     ELSE IF Owns(m, id)
     THEN {off(s) : s \in Transaction(m, RemoveOwned(m, id), id, DOMAIN m.own[id].of.payloads)}
     ELSE IF m.cfg[id] = Absent \/ (m.cfg[id] = Garbled /\ ~ byCommand) THEN {Stop(m)}
     ELSE LET n == [m EXCEPT !.installed = @ \ dropped] IN DeleteAppDir(n, id)

\* init: the built-in applications, and every manifest that parses.
InitPackages(m) ==
  [m EXCEPT !.installed = PkBuiltin \cup {id \in PkApps : m.cfg[id] \notin Texts}]

(* ---- actions ------------------------------------------------------------------ *)
PkDone(S) ==
  \E s \in S : /\ pk.fails + s.failed <= PkFails
               /\ pk' = [pk EXCEPT !.m = s.m, !.fails = @ + s.failed]

\* Damage, like a failing write, is a fault and is bounded with them.
PkDamaged(m) == pk.fails < PkFails /\ pk' = [pk EXCEPT !.m = m, !.fails = @ + 1]

\* A manifest is put in place of another, under the same signature: someone copies a
\* .pkg file, tamper_archive_name and set_archive_dependencies.
PkPublish(path) ==
  \E v \in PkVariants[path] : v # pk.m.arch[path] /\ pk' = [pk EXCEPT !.m.arch[path] = v]

\* tamper_archive_payload
PkTamperPayload(path) ==
  /\ pk.m.arch[path] # Absent
  /\ PkDamaged([pk.m EXCEPT !.src[pk.m.arch[path].targets[1]] = "tampered"])

\* sign_archive_as
PkSign(path) ==
  /\ pk.m.arch[path] # Absent
  /\ \E key \in PkKeys : pk' = [pk EXCEPT !.m.sig[path] = [key |-> key, of |-> Manifest(pk.m, path)]]

PkUnsign(path) == pk.m.sig[path] # Absent /\ pk' = [pk EXCEPT !.m.sig[path] = Absent]

PkInstall(path) ==
  /\ MayInstall(pk.m, path)
  /\ \E inject \in BOOLEAN : PkDone(InstallArchive(pk.m, path, inject))

PkInstallBuiltin(id) == id \notin pk.m.installed /\ pk' = [pk EXCEPT !.m.installed = @ \cup {id}]

PkRemove(id) == \E byCommand \in BOOLEAN : PkDone(Uninstall(pk.m, id, byCommand))

PkRepair(id) == Owns(pk.m, id) /\ PkDone(Repair(pk.m, id))

\* break_installed and break_installed_payload
PkBreak(id) ==
  /\ Owns(pk.m, id)
  /\ \/ PkDamaged([pk.m EXCEPT !.cfg[id] = Garbled])
     \/ PkDamaged([pk.m EXCEPT !.files[CHOOSE t \in DOMAIN pk.m.own[id].of.payloads : TRUE] = "other"])

\* A file of the user's, at a path that a package may name as a target.
PkUserFile(t) == pk.m.files[t] = NoFile /\ PkDamaged([pk.m EXCEPT !.files[t] = "other"])

\* launch
Launchable(m, id) == id \in m.installed /\ m.cfg[id] \notin Texts /\ VerifyInstalled(m, id)
PkLaunch(id) == Launchable(pk.m, id) /\ pk' = [pk EXCEPT !.ran = id]

PkBoot == pk' = [pk EXCEPT !.m = InitPackages(pk.m), !.ran = NoFile]

PkInit ==
  pk = [m |-> InitPackages([arch |-> [p \in PkPaths |-> Absent], src |-> [t \in PkTargets |-> "good"],
                            sig |-> [p \in PkPaths |-> Absent], files |-> [t \in PkTargets |-> NoFile],
                            cfg |-> [id \in PkApps |-> Absent], own |-> [id \in PkApps |-> Absent],
                            installed |-> {}, txn |-> "clean"]),
        ran |-> NoFile, fails |-> 0]

PkNext ==
  \/ \E path \in PkPaths : PkPublish(path) \/ PkTamperPayload(path)
                           \/ PkSign(path) \/ PkUnsign(path) \/ PkInstall(path)
  \/ \E id \in PkApps \cup PkBuiltin : PkRemove(id)
  \/ \E id \in PkBuiltin : PkInstallBuiltin(id)
  \/ \E id \in PkApps : PkRepair(id) \/ PkBreak(id) \/ PkLaunch(id)
  \/ \E t \in PkTargets : PkUserFile(t)
  \/ PkBoot

PkSpec == PkInit /\ [][PkNext]_pk

(* ---- properties ------------------------------------------------------------------ *)
PkTypeOK ==
  /\ pk.fails \in 0..PkFails /\ pk.m.installed \subseteq PkApps \cup PkBuiltin
  /\ pk.m.txn \in {"clean", "rolled-back", "torn"}

\* No payload target belongs to two packages, in whatever order packages are
\* installed, replaced, repaired from a changed archive and removed.
OneOwner == \A t \in PkTargets : Cardinality(OwnersOf(pk.m, t)) <= 1

\* A package that launches executes, in each of its files, what a trusted key has
\* signed for that package.
LaunchIsVouched ==
  \A id \in PkApps : Launchable(pk.m, id) =>
     \E path \in PkPaths : /\ pk.m.sig[path] # Absent /\ pk.m.sig[path].key \in {"pkg-a", "pkg-b"} /\ pk.m.sig[path].of.id = id
                           /\ \A t \in PkTargets : OwnersOf(pk.m, t) = {id} => pk.m.files[t] = pk.m.sig[path].of.payloads[t]

\* A transaction that was rolled back, and whose files could be written back, has
\* changed nothing.
RollbackIsExact ==
  pk'.m.txn = "rolled-back" /\ pk.m.txn # "rolled-back"
     => UNCHANGED <<pk.m.files, pk.m.cfg, pk.m.own, pk.m.installed>>

\* A file that no package owns stays as it is.
UnownedKept ==
  \A t \in PkTargets : pk.m.files[t] # NoFile /\ OwnersOf(pk.m, t) = {} => pk'.m.files[t] = pk.m.files[t]
=============================================================================
