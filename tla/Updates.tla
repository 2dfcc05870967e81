------------------------------- MODULE Updates -------------------------------
(* Staged system updates (updates.rs) and boot health (boot_health.rs).     *)
(*                                                                         *)
(* An update is a manifest, its signature and a payload under               *)
(* /UPDATES/STAGED.  apply() verifies it, copies the files it replaces to   *)
(* /UPDATES/SNAPSHOTS/LAST, replaces them, and marks the next boot as a     *)
(* validation boot.  A boot that finds such a mark from a boot that never   *)
(* became healthy restores the snapshot.                                    *)
(*                                                                         *)
(* All of this lives in files that are written through a cache.  The        *)
(* commands run in the main task, which is also the one that flushes, so    *)
(* the disk is brought up to date between commands and at the barriers of   *)
(* the code: a reset undoes whole commands, as if they had not been given,  *)
(* and can only come between the two barriers of a boot that rolls back.    *)
(* mem is what the files hold.  UpFails bounds the writes that fail for      *)
(* lack of space.                                                           *)
EXTENDS Outcomes, Sequences, FiniteSets, SequencesExt

CONSTANTS UpTargets,   \* files an update may replace
          UpContent(_), \* what the update of a version contains
          UpVersions,  \* versions an update may carry
          UpKeys,      \* keys the sign command can use
          UpPlans,     \* the lists of files an update replaces
          UpFails      \* bound: failing writes

VARIABLE up

Missing == "missing"
NoPlan == [ver |-> 0, targets |-> <<>>, sha |-> Missing]
NoSig == [key |-> "none", of |-> NoPlan]
NoSnapshot == [targets |-> <<>>, missing |-> {}]

\* built_in_trusted_keys: the versions each key may sign.  A revoked key, or one
\* that is in no list, vouches for nothing.
TrustedFor(key, ver) ==
  \/ key = "root"
  \/ key = "expired" /\ ver <= 1

(* ---- staging ------------------------------------------------------------- *)
\* stage_text_with_version: the payload, the manifest with its hash, the signature.
Stage(m, ts, ver, c) ==
  LET plan == [ver |-> ver, targets |-> ts, sha |-> c]
      m1 == [m EXCEPT !.payload = c]
      m2 == [m1 EXCEPT !.plan = plan]
      m3 == [m2 EXCEPT !.sig = [key |-> "root", of |-> plan], !.vouched = @ \cup {c}]
  IN Then(OrFails(m, m1), LAMBDA a : Then(OrFails(m1, m2), LAMBDA b : OrFails(m2, m3)))

\* sign_staged_as
SignAs(m, key) ==
  [m EXCEPT !.sig = [key |-> key, of |-> m.plan],
            !.vouched = IF TrustedFor(key, m.plan.ver) THEN @ \cup {m.plan.sha} ELSE @]

\* verify_plan
Verify(m) ==
  /\ m.plan # NoPlan
  /\ m.sig.of = m.plan
  /\ m.plan.ver > m.applied
  /\ TrustedFor(m.sig.key, m.plan.ver)
  /\ m.payload = m.plan.sha

(* ---- apply and rollback ---------------------------------------------------- *)
RECURSIVE CopyFiles(_, _)
CopyFiles(m, ts) ==
  IF ts = <<>> THEN {Go(m)}
  ELSE LET t == Head(ts)
           m1 == [m EXCEPT !.snap[t] = m.files[t], !.torn = TRUE]
       IN Then(IF m.files[t] = Missing THEN {Go(m1)} ELSE OrFails([m EXCEPT !.torn = TRUE], m1),
               LAMBDA n : CopyFiles(n, Tail(ts)))

\* create_snapshot: every file is copied, then the snapshot's manifest is written.
\* before and torn are for the properties: what the snapshot stands for, and
\* whether a later snapshot was begun over it and not finished.
CreateSnapshot(m) ==
  Then(CopyFiles(m, m.plan.targets), LAMBDA n :
       OrFails(n, [n EXCEPT !.snapmf = [targets |-> m.plan.targets,
                                        missing |-> {t \in UpTargets : m.files[t] = Missing}],
                            !.before = m.files, !.torn = FALSE]))

RECURSIVE ApplyFiles(_, _)
ApplyFiles(m, ts) ==
  IF ts = <<>> THEN {Go(m)}
  ELSE Then(OrFails(m, [m EXCEPT !.files[Head(ts)] = m.payload]), LAMBDA n : ApplyFiles(n, Tail(ts)))

RECURSIVE RestoreList(_, _)
RestoreList(m, ts) ==
  IF ts = <<>> THEN {Go(m)}
  ELSE LET t == Head(ts)
           deleted == {Go([m EXCEPT !.files[t] = Missing])}
           copied == OrFails(m, [m EXCEPT !.files[t] = m.snap[t]])
       IN Then(IF t \in m.snapmf.missing THEN deleted
               ELSE IF m.snap[t] = Missing THEN {Stop(m)} ELSE copied,
               LAMBDA n : RestoreList(n, Tail(ts)))

\* restore_snapshot: the files of the snapshot manifest, in order.
RestoreSnapshot(m) == RestoreList(m, m.snapmf.targets)

\* mark_update_pending
MarkPending(m) == [m EXCEPT !.boot = [@ EXCEPT !.status = "pending", !.pending = TRUE, !.attempts = 0]]

\* apply(): the outcomes as [m, ok, failed, stopped].  A manifest of the applied
\* update that cannot be written ends it with the services stopped.
ApplyUpdate(m) ==
  LET after == UNION {IF s.ok
                      THEN {[r EXCEPT !.failed = @ + s.failed] @@ [snap |-> TRUE] : r \in ApplyFiles(s.m, m.plan.targets)}
                      ELSE {s @@ [snap |-> FALSE]} : s \in CreateSnapshot(m)}
      finish(s) ==
        IF ~ s.snap THEN {[m |-> s.m, ok |-> FALSE, failed |-> s.failed, stopped |-> FALSE]}
        ELSE IF ~ s.ok
        THEN {[m |-> r.m, ok |-> FALSE, failed |-> s.failed + r.failed, stopped |-> FALSE] : r \in RestoreSnapshot(s.m)}
        ELSE {[m |-> MarkPending([s.m EXCEPT !.applied = m.plan.ver]), ok |-> TRUE, failed |-> s.failed, stopped |-> FALSE],
              [m |-> s.m, ok |-> FALSE, failed |-> s.failed + 1, stopped |-> TRUE]}
  IN UNION {finish(s) : s \in after}

(* ---- boot health ------------------------------------------------------------ *)
\* mark_good and mark_manual_rollback
Healthy(m) == [m EXCEPT !.boot = [@ EXCEPT !.status = "healthy", !.pending = FALSE, !.attempts = 0]]

\* begin_boot when there is nothing to roll back.
BeginBoot(m) ==
  [m EXCEPT !.boot = [status |-> IF m.boot.pending THEN "validating" ELSE "booting",
                      pending |-> m.boot.pending,
                      attempts |-> IF m.boot.attempts < 2 THEN m.boot.attempts + 1 ELSE 2]]

ShouldAutoRollback(b) == b.pending /\ b.attempts > 0 /\ b.status \in {"validating", "booting"}

\* begin_boot after the rollback.
Recovered(m) == [m EXCEPT !.boot = [status |-> "recovering", pending |-> FALSE, attempts |-> 0]]
RecoveryFailed(m) ==
  [m EXCEPT !.boot = [@ EXCEPT !.status = "recovery-failed", !.attempts = IF @ < 2 THEN @ + 1 ELSE 2]]

(* ---- actions ------------------------------------------------------------------ *)
Affordable(S) == {s \in S : up.fails + s.failed <= UpFails}
Commanded(s) == up' = [up EXCEPT !.mem = s.m, !.fails = @ + s.failed]

UpStage ==
  /\ up.run = "up"
  /\ \E ts \in UpPlans, v \in UpVersions :
       \E s \in Affordable(Stage(up.mem, ts, v, UpContent(v))) : Commanded(s)

UpSign ==
  /\ up.run = "up" /\ up.mem.plan # NoPlan
  /\ \E key \in UpKeys : up' = [up EXCEPT !.mem = SignAs(up.mem, key)]

\* corrupt_staged_payload, and anyone else who writes the payload file
UpCorrupt ==
  /\ up.run = "up" /\ up.mem.plan # NoPlan
  /\ up' = [up EXCEPT !.mem.payload = "bad"]

UpUnsign ==
  /\ up.run = "up" /\ up.mem.sig # NoSig
  /\ up' = [up EXCEPT !.mem.sig = NoSig]

UpApply ==
  /\ up.run = "up" /\ Verify(up.mem)
  /\ \E s \in Affordable(ApplyUpdate(up.mem)) :
       up' = [up EXCEPT !.mem = s.m, !.fails = @ + s.failed, !.stopped = @ \/ s.stopped]

\* update rollback and recovery rollback
UpRollback ==
  /\ up.run = "up" /\ up.mem.snapmf # NoSnapshot
  /\ \E s \in Affordable(RestoreSnapshot(up.mem)) :
       up' = [up EXCEPT !.mem = IF s.ok THEN Healthy(s.m) ELSE s.m,
                        !.fails = @ + s.failed, !.stopped = FALSE]

\* boot fail-validation
UpFailValidation ==
  /\ up.run = "up"
  /\ LET m == [up.mem EXCEPT !.boot = [status |-> "validating", pending |-> TRUE,
                                       attempts |-> IF @.attempts = 0 THEN 1 ELSE @.attempts]]
     IN up' = [up EXCEPT !.mem = m]

\* A reset, at any moment.
UpReset == up.run # "off" /\ up' = [up EXCEPT !.run = "off", !.stopped = FALSE]

\* boot_health::init.  The rollback of a failed validation boot ends in a barrier of
\* its own, before the new boot state is written.
UpBoot ==
  /\ up.run = "off"
  /\ IF ~ ShouldAutoRollback(up.mem.boot)
     THEN up' = [up EXCEPT !.run = "starting", !.mem = BeginBoot(up.mem)]
     ELSE IF up.mem.snapmf = NoSnapshot
     THEN up' = [up EXCEPT !.run = "starting", !.mem = RecoveryFailed(up.mem)]
     ELSE \E s \in Affordable(RestoreSnapshot(up.mem)) :
            IF s.ok THEN up' = [up EXCEPT !.run = "restored", !.mem = s.m, !.fails = @ + s.failed]
            ELSE up' = [up EXCEPT !.run = "starting", !.mem = RecoveryFailed(s.m), !.fails = @ + s.failed]

UpRecovered ==
  /\ up.run = "restored"
  /\ up' = [up EXCEPT !.run = "starting", !.mem = Recovered(up.mem)]

\* The desktop is ready: mark_good.
UpReady ==
  /\ up.run = "starting"
  /\ up' = [up EXCEPT !.run = "up", !.mem = Healthy(up.mem)]

\* boot mark-good
UpMarkGood == up.run = "up" /\ up' = [up EXCEPT !.mem = Healthy(up.mem)]

UpFirst == [plan |-> NoPlan, sig |-> NoSig, payload |-> Missing,
            files |-> [t \in UpTargets |-> IF t = CHOOSE x \in UpTargets : TRUE THEN "original" ELSE Missing],
            snap |-> [t \in UpTargets |-> Missing], snapmf |-> NoSnapshot,
            applied |-> 0, boot |-> [status |-> "healthy", pending |-> FALSE, attempts |-> 0],
            vouched |-> {}, before |-> [t \in UpTargets |-> Missing], torn |-> FALSE]

UpInit == up = [mem |-> UpFirst, run |-> "up", stopped |-> FALSE, fails |-> 0]

UpNext == UpStage \/ UpSign \/ UpCorrupt \/ UpUnsign \/ UpApply \/ UpRollback \/ UpFailValidation
          \/ UpReset \/ UpBoot \/ UpRecovered \/ UpReady \/ UpMarkGood

UpSpec == UpInit /\ [][UpNext]_up

(* ---- properties ------------------------------------------------------------------ *)
UpTypeOK ==
  /\ up.run \in {"off", "restored", "starting", "up"}
  /\ up.mem.boot.status \in {"healthy", "pending", "booting", "validating", "recovering", "recovery-failed"}
  /\ up.mem.boot.attempts \in 0..2 /\ up.fails \in 0..UpFails

\* A replaced file holds only what a trusted key has signed: whatever is staged,
\* re-signed, unsigned or changed in between, and whatever is lost in a reset.
OnlyVouchedInstalled ==
  \A t \in UpTargets : up.mem.files[t] \in {"original", Missing} \cup up.mem.vouched

Restored == \A t \in ToSet(up.mem.snapmf.targets) : up.mem.files[t] = up.mem.before[t]

\* The same, except after an apply that stopped inside its snapshot: that one has
\* written over the snapshot of the update before it.
BadUpdateIsUndone == up.mem.boot.status = "recovering" /\ ~ up.mem.torn => Restored

==============================================================================
