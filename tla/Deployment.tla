------------------------------ MODULE Deployment ------------------------------
(***************************************************************************)
(* The deployment engine of rrmm-deploy: how a profile switch is applied   *)
(* to the game directory, rolled back, and recovered after a crash.        *)
(*                                                                         *)
(* One installation, one state root.  Each file-system operation that a    *)
(* crash can separate from the next is a step.  The thread that holds      *)
(* deployment.lock is the worker; its program counter is pc.  The order of *)
(* the paths inside a transaction is left open: the code walks them sorted *)
(* (backwards in a rollback), and a change touches its own path only.      *)
(***************************************************************************)
EXTENDS DeploymentPlan, Naturals, FiniteSets

CONSTANTS
  Desired,      \* profiles the user may select
  InitialFiles, \* contents the game directory may start with
  UserEdits,    \* <<path, content>> the user may leave (Absent: deletes it)
  Disposable,   \* contents kept as imported artifacts
  MaxPreviews,  \* bound on activation previews held at once
  Faults,       \* faults that can occur, from FaultKinds
  Windows       \* the receipt is replaced in two renames, not one

FaultKinds == {"crash", "io", "sync"}

ASSUME DeploymentConstants ==
  /\ Desired \subseteq Profiles
  /\ InitialFiles \subseteq Content
  /\ UserEdits \subseteq Paths \X Content
  /\ Disposable \subseteq Files
  /\ MaxPreviews \in Nat
  /\ Faults \subseteq FaultKinds
  /\ Windows \in BOOLEAN

VARIABLES
  live,        \* the game file at each path
  sib,         \* its siblings .<name>.rrmm-<transaction>.<slot>
  backups,     \* contents in backups/, addressed by hash
  receipt,     \* receipts/<installation>.json
  aside,       \* its sibling .previous, while Windows replaces it
  journal,     \* journals/<transaction>.json: "none", "torn" or "durable"
  marker,      \* journals/<transaction>.committed exists
  tx,          \* the plan under way; while durable, what the journal records
  previews,    \* plans shown to the user and not yet applied
  gameRunning,
  pc, todo, cur, undoing, \* the worker: step, paths left, path in hand, rolling back?
  edited       \* history: journaled paths whose file the plan did not observe

disk     == <<live, sib, backups, receipt, aside, journal, marker>>
worker   == <<pc, todo, cur, undoing>>
vars     == <<disk, tx, previews, worker, edited, gameRunning>>

Slots == {"new", "old", "restore", "displaced"}

NoSiblings == [p \in Paths |-> [s \in Slots |-> Absent]]

Labels == {"idle", "backup", "journal", "apply", "place", "placed", "swap",
           "restore", "restore_out", "restore_in", "restore_done",
           "receipt", "receipt_in", "marker", "cleanup", "sweep", "unmark",
           "preflight", "undo", "undo_receipt_in", "drop"}

Idle == pc = "idle"

\* The worker leaves the lock.
Release ==
  /\ pc' = "idle"
  /\ todo' = {}
  /\ cur' = {}
  /\ undoing' = FALSE

\* The worker goes on with the paths in work, none in hand.
Continue(label, work) ==
  /\ pc' = label
  /\ todo' = work
  /\ cur' = {}
  /\ UNCHANGED undoing

\* The worker goes on with path p in hand.
Hold(label, p) ==
  /\ pc' = label
  /\ cur' = {p}
  /\ UNCHANGED <<todo, undoing>>

\* An error after the journal is written: rollback_journal.
StartRollback ==
  /\ pc' = "preflight"
  /\ todo' = {}
  /\ cur' = {}
  /\ undoing' = TRUE

Init ==
  /\ live \in [Paths -> InitialFiles]
  /\ sib = NoSiblings
  /\ backups = {}
  /\ receipt = NoReceipt
  /\ aside = NoReceipt
  /\ journal = "none"
  /\ marker = FALSE
  /\ tx = EmptyPlan
  /\ previews = {}
  /\ gameRunning = FALSE
  /\ pc = "idle" /\ todo = {} /\ cur = {} /\ undoing = FALSE
  /\ edited = {}

----------------------------------------------------------------------------
(* Before the journal: preview, checks under the lock, backups             *)

\* preview_activation, with the restore approvals and the unmanaged override
\* the user gave.  The whole command holds mod_operations.
Preview(want, allowUnmanaged, approved) ==
  /\ Idle /\ ~gameRunning
  /\ Cardinality(previews) < MaxPreviews
  /\ PlanReady(receipt, live, want, allowUnmanaged, approved)
  /\ previews' = previews \cup {MakePlan(receipt, live, want)}
  /\ UNCHANGED <<disk, tx, worker, edited, gameRunning>>

\* The preview is refused, superseded or dropped.
Discard(plan) ==
  /\ Idle
  /\ previews' = previews \ {plan}
  /\ UNCHANGED <<disk, tx, worker, edited, gameRunning>>

\* validate_file_snapshots watches the wanted paths, not those only removed.
WatchedUnchanged(plan) ==
  \A p \in OwnedPaths(plan.target) : live[p] = plan.change[p].prev

NothingToDo(plan) == PayloadPaths(plan) = {} /\ plan.prev = plan.target

\* Mistake: the receipt the plan was made from may have been replaced since.
BeginStale(plan) ==
  /\ Idle /\ ~gameRunning
  /\ WatchedUnchanged(plan)
  /\ ~NothingToDo(plan)
  /\ journal = "none"
  /\ previews' = previews \ {plan}
  /\ tx' = plan
  /\ marker' = FALSE
  /\ Continue("backup", BackupPaths(plan))
  /\ UNCHANGED <<live, sib, backups, receipt, aside, journal, edited, gameRunning>>

\* apply_activation up to verify_active_receipt.  A fresh transaction id has
\* no marker and no siblings.
Begin(plan) ==
  /\ Idle /\ ~gameRunning
  /\ WatchedUnchanged(plan)
  /\ ~NothingToDo(plan)
  /\ journal = "none"
  /\ receipt = plan.prev
  /\ previews' = previews \ {plan}
  /\ tx' = plan
  /\ marker' = FALSE
  /\ Continue("backup", BackupPaths(plan))
  /\ UNCHANGED <<live, sib, backups, receipt, aside, journal, edited, gameRunning>>

\* An existing backup is accepted on its own hash; the game file is hashed
\* only when the backup has to be made.
BackupPossible(p) == tx.change[p].prev \in backups \cup ({live[p]} \ {Absent})

RestoreSourcePresent(p) ==
  tx.change[p].kind = "restore" => tx.change[p].next \in backups

Backup(p) ==
  /\ pc = "backup" /\ p \in todo
  /\ BackupPossible(p)
  /\ RestoreSourcePresent(p)
  /\ backups' = backups \cup {tx.change[p].prev}
  /\ Continue("backup", todo \ {p})
  /\ UNCHANGED <<live, sib, receipt, aside, journal, marker, tx, previews, edited, gameRunning>>

BackupRefused(p) ==
  /\ pc = "backup" /\ p \in todo
  /\ ~(BackupPossible(p) /\ RestoreSourcePresent(p))
  /\ tx' = EmptyPlan
  /\ Release
  /\ UNCHANGED <<disk, previews, edited, gameRunning>>

\* Mistake: the changes start before the journal is complete on disk.
CreateJournalAndGo ==
  /\ pc = "backup" /\ todo = {}
  /\ journal' = "torn"
  /\ Continue("apply", PayloadPaths(tx))
  /\ UNCHANGED <<live, sib, backups, receipt, aside, marker, tx, previews, edited, gameRunning>>

\* The journal is created under its final name, then filled.
CreateJournal ==
  /\ pc = "backup" /\ todo = {}
  /\ journal' = "torn"
  /\ Continue("journal", {})
  /\ UNCHANGED <<live, sib, backups, receipt, aside, marker, tx, previews, edited, gameRunning>>

Unobserved(plan) == {p \in ChangedPaths(plan) : live[p] # plan.change[p].prev}

WriteJournal ==
  /\ pc = "journal"
  /\ journal' = "durable"
  /\ edited' = Unobserved(tx)
  /\ Continue("apply", PayloadPaths(tx))
  /\ UNCHANGED <<live, sib, backups, receipt, aside, marker, tx, previews, gameRunning>>

\* A backup or the journal could not be written.  A journal begun is removed
\* again, unless that fails too; backups already made stay.
JournalFails ==
  /\ "io" \in Faults
  /\ pc \in {"backup", "journal"}
  /\ journal' \in {"none", journal}
  /\ tx' = EmptyPlan
  /\ Release
  /\ UNCHANGED <<live, sib, backups, receipt, aside, marker, previews, edited, gameRunning>>

\* Only the sync of journals/ failed: the error returns with the journal written.
JournalSyncFails ==
  /\ "io" \in Faults
  /\ pc = "journal"
  /\ journal' = "durable"
  /\ edited' = Unobserved(tx)
  /\ Release
  /\ UNCHANGED <<live, sib, backups, receipt, aside, marker, tx, previews, gameRunning>>

----------------------------------------------------------------------------
(* Moving files inside the game directory                                  *)

SetSib(p, slot, c) == [sib EXCEPT ![p][slot] = c]

\* fs::rename of the live file to a sibling, and of a sibling to the live file.
MoveAside(p, slot) ==
  /\ sib' = SetSib(p, slot, live[p])
  /\ live' = [live EXCEPT ![p] = Absent]

MoveIn(p, slot) ==
  /\ live' = [live EXCEPT ![p] = sib[p][slot]]
  /\ sib' = SetSib(p, slot, Absent)

----------------------------------------------------------------------------
(* Applying the changes (apply_change)                                     *)

\* A change starts only after a game_running() check.
MayChange(p) == pc = "apply" /\ p \in todo /\ ~gameRunning

\* RemoveManaged: one rename, no look at the content.
Quarantine(p) ==
  /\ MayChange(p)
  /\ tx.change[p].kind = "remove"
  /\ live[p] # Absent
  /\ MoveAside(p, "old")
  /\ Continue("apply", todo \ {p})
  /\ UNCHANGED <<backups, receipt, aside, journal, marker, tx, previews, edited, gameRunning>>

\* Create and Replace*: the artifact is copied beside its destination.
CopyNew(p) ==
  /\ MayChange(p)
  /\ tx.change[p].kind \in {"create", "replace_managed", "replace_unmanaged"}
  /\ sib' = SetSib(p, "new", tx.change[p].next)
  /\ Hold("place", p)
  /\ UNCHANGED <<live, backups, receipt, aside, journal, marker, tx, previews, edited, gameRunning>>

\* Create: hard_link, which never overwrites.
LinkNew(p) ==
  /\ pc = "place" /\ p \in cur
  /\ tx.change[p].kind = "create" /\ live[p] = Absent
  /\ live' = [live EXCEPT ![p] = sib[p].new]
  /\ Hold("placed", p)
  /\ UNCHANGED <<sib, backups, receipt, aside, journal, marker, tx, previews, edited, gameRunning>>

SwapOut(p) ==
  /\ pc = "place" /\ p \in cur
  /\ tx.change[p].kind # "create" /\ live[p] # Absent
  /\ MoveAside(p, "old")
  /\ Hold("swap", p)
  /\ UNCHANGED <<backups, receipt, aside, journal, marker, tx, previews, edited, gameRunning>>

SwapIn(p) ==
  /\ pc = "swap" /\ p \in cur
  /\ MoveIn(p, "new")
  /\ Hold("placed", p)
  /\ UNCHANGED <<backups, receipt, aside, journal, marker, tx, previews, edited, gameRunning>>

\* The second rename failed: the code moves the old file back, then fails.
SwapInFails(p) ==
  /\ "io" \in Faults
  /\ pc = "swap" /\ p \in cur
  /\ live' = [live EXCEPT ![p] = sib[p].old]
  /\ sib' = [sib EXCEPT ![p].old = Absent, ![p].new = Absent]
  /\ StartRollback
  /\ UNCHANGED <<backups, receipt, aside, journal, marker, tx, previews, edited, gameRunning>>

PlaceDone(p) ==
  /\ pc = "placed" /\ p \in cur
  /\ sib' = [sib EXCEPT ![p].new = Absent, ![p].old = Absent]
  /\ Continue("apply", todo \ {p})
  /\ UNCHANGED <<live, backups, receipt, aside, journal, marker, tx, previews, edited, gameRunning>>

StartRestore(p) ==
  /\ MayChange(p)
  /\ tx.change[p].kind = "restore"
  /\ Hold("restore", p)
  /\ UNCHANGED <<disk, tx, previews, edited, gameRunning>>

\* The change meets a file system that is not what it expects: the rename has
\* no source, or the link a destination.
Unappliable(p) ==
  \/ MayChange(p) /\ tx.change[p].kind = "remove" /\ live[p] = Absent
  \/ /\ pc = "place" /\ p \in cur
     /\ (tx.change[p].kind = "create") # (live[p] = Absent)

ApplyRefused(p) ==
  /\ Unappliable(p)
  /\ StartRollback
  /\ UNCHANGED <<disk, tx, previews, edited, gameRunning>>

\* The game was started: the activation is abandoned at the next check.
GameInterrupts ==
  /\ pc \in {"apply", "receipt"} /\ gameRunning
  /\ StartRollback
  /\ UNCHANGED <<disk, tx, previews, edited, gameRunning>>

\* Any other operation of the activation fails.
ApplyFails ==
  /\ "io" \in Faults
  /\ \/ pc \in {"apply", "place", "placed", "receipt", "marker"}
     \/ pc \in {"restore", "restore_out", "restore_done"} /\ ~undoing
  /\ StartRollback
  /\ UNCHANGED <<disk, tx, previews, edited, gameRunning>>

----------------------------------------------------------------------------
(* restore_file: puts a backup at a path, for a change or for a rollback   *)

RestoreContent(p) == IF undoing THEN tx.change[p].prev ELSE tx.change[p].next

RestoreCopy(p) ==
  /\ pc = "restore" /\ p \in cur
  /\ RestoreContent(p) \in backups
  /\ sib' = [sib EXCEPT ![p].restore = RestoreContent(p), ![p].displaced = Absent]
  /\ Hold("restore_out", p)
  /\ UNCHANGED <<live, backups, receipt, aside, journal, marker, tx, previews, edited, gameRunning>>

RestoreOut(p) ==
  /\ pc = "restore_out" /\ p \in cur
  /\ MoveAside(p, "displaced")
  /\ Hold("restore_in", p)
  /\ UNCHANGED <<backups, receipt, aside, journal, marker, tx, previews, edited, gameRunning>>

RestoreIn(p) ==
  /\ pc = "restore_in" /\ p \in cur
  /\ MoveIn(p, "restore")
  /\ Hold("restore_done", p)
  /\ UNCHANGED <<backups, receipt, aside, journal, marker, tx, previews, edited, gameRunning>>

\* Mistake: the failed rename is undone, and the error dropped.
RestoreInFailureIgnored(p) ==
  /\ "io" \in Faults
  /\ pc = "restore_in" /\ p \in cur
  /\ MoveIn(p, "displaced")
  /\ Continue(IF undoing THEN "undo" ELSE "apply", todo \ {p})
  /\ UNCHANGED <<backups, receipt, aside, journal, marker, tx, previews, edited, gameRunning>>

\* The rename failed: the displaced file is moved back, then the call fails.
RestoreInFails(p) ==
  /\ "io" \in Faults
  /\ pc = "restore_in" /\ p \in cur
  /\ MoveIn(p, "displaced")
  /\ IF undoing THEN Release ELSE StartRollback
  /\ UNCHANGED <<backups, receipt, aside, journal, marker, tx, previews, edited, gameRunning>>

RestoreDone(p) ==
  /\ pc = "restore_done" /\ p \in cur
  /\ sib' = IF undoing
            THEN [sib EXCEPT ![p].displaced = Absent, ![p].new = Absent, ![p].old = Absent]
            ELSE [sib EXCEPT ![p].displaced = Absent]
  /\ Continue(IF undoing THEN "undo" ELSE "apply", todo \ {p})
  /\ UNCHANGED <<live, backups, receipt, aside, journal, marker, tx, previews, edited, gameRunning>>

----------------------------------------------------------------------------
(* Committing                                                              *)

\* verify_target_state: placed files are there, and every path given up was
\* removed or restored by a change of this plan.
TargetReached ==
  /\ \A p \in Paths :
       tx.change[p].kind \in {"create", "replace_managed", "replace_unmanaged"}
         => live[p] # Absent
  /\ \A p \in OwnedPaths(tx.prev) \ OwnedPaths(tx.target) :
       /\ tx.change[p].kind \in {"remove", "restore"}
       /\ live[p] = tx.change[p].next

Verify ==
  /\ pc = "apply" /\ todo = {} /\ ~gameRunning
  /\ IF TargetReached THEN Continue("receipt", {}) ELSE StartRollback
  /\ UNCHANGED <<disk, tx, previews, edited, gameRunning>>

\* replace_json: a rename over the receipt; on Windows the old receipt is
\* first renamed to .previous, which is removed at the end.
ReplaceReceipt(r, here, next) ==
  IF Windows /\ receipt # NoReceipt
  THEN /\ receipt' = NoReceipt
       /\ aside' = receipt
       /\ Continue(here, {})
  ELSE /\ receipt' = r
       /\ aside' = NoReceipt
       /\ Continue(next, {})

WriteReceipt ==
  /\ \/ pc = "receipt" /\ ~gameRunning
     \/ pc = "receipt_in"
  /\ ReplaceReceipt(tx.target, "receipt_in", "marker")
  /\ UNCHANGED <<live, sib, backups, journal, marker, tx, previews, edited, gameRunning>>

\* Mistake: the old receipt is left at .previous.
ReceiptFailsMidway ==
  /\ "io" \in Faults
  /\ pc \in {"receipt_in", "undo_receipt_in"}
  /\ IF undoing THEN Release ELSE StartRollback
  /\ UNCHANGED <<disk, tx, previews, edited, gameRunning>>

\* The rename into place failed on Windows: the old receipt is moved back.
ReceiptFails ==
  /\ "io" \in Faults
  /\ pc \in {"receipt_in", "undo_receipt_in"}
  /\ receipt' = aside
  /\ aside' = NoReceipt
  /\ IF undoing THEN Release ELSE StartRollback
  /\ UNCHANGED <<live, sib, backups, journal, marker, tx, previews, edited, gameRunning>>

\* write_commit_marker: the transaction is committed.
CreateMarker ==
  /\ pc = "marker"
  /\ marker' = TRUE
  /\ Continue("cleanup", {})
  /\ UNCHANGED <<live, sib, backups, receipt, aside, journal, tx, previews, edited, gameRunning>>

\* The marker exists, but writing or syncing it failed: the code rolls back.
MarkerFails ==
  /\ "sync" \in Faults
  /\ pc = "marker"
  /\ marker' = TRUE
  /\ StartRollback
  /\ UNCHANGED <<live, sib, backups, receipt, aside, journal, tx, previews, edited, gameRunning>>

----------------------------------------------------------------------------
(* cleanup_transaction                                                     *)

\* verify_journal_target_state and verify_active_receipt_after_recovery.
CommitIntact ==
  /\ receipt = tx.target
  /\ \A p \in OwnedPaths(tx.target) : live[p] = tx.target[p].hash
  /\ \A p \in Paths : tx.change[p].kind \in {"remove", "restore"}
                        => live[p] = tx.change[p].next

Cleanup ==
  /\ pc = "cleanup"
  /\ CommitIntact
  /\ Continue("sweep", {p \in ChangedPaths(tx) : sib[p].old # Absent})
  /\ UNCHANGED <<disk, tx, previews, edited, gameRunning>>

\* Mistake: the check is repeated until it passes.
CleanupRetried ==
  /\ pc = "cleanup"
  /\ ~CommitIntact
  /\ UNCHANGED vars

\* The committed files are not there: the journal and the marker stay.
CleanupRefused ==
  /\ pc = "cleanup"
  /\ ~CommitIntact
  /\ Release
  /\ UNCHANGED <<disk, tx, previews, edited, gameRunning>>

SweepOld(p) ==
  /\ pc = "sweep" /\ p \in todo
  /\ sib' = SetSib(p, "old", Absent)
  /\ Continue("sweep", todo \ {p})
  /\ UNCHANGED <<live, backups, receipt, aside, journal, marker, tx, previews, edited, gameRunning>>

RemoveJournal ==
  /\ pc = "sweep" /\ todo = {}
  /\ journal' = "none"
  /\ edited' = {}
  /\ tx' = EmptyPlan
  /\ sib' = NoSiblings
  /\ Continue("unmark", {})
  /\ UNCHANGED <<live, backups, receipt, aside, marker, previews, gameRunning>>

RemoveMarker ==
  /\ pc = "unmark"
  /\ marker' = FALSE
  /\ Release
  /\ UNCHANGED <<live, sib, backups, receipt, aside, journal, tx, previews, edited, gameRunning>>

----------------------------------------------------------------------------
(* rollback_journal                                                        *)

\* Mistake: a path emptied half-way through a replacement counts as drift.
RollbackMeetsFile(p) ==
  LET c == tx.change[p] IN
  IF c.kind = "remove" /\ sib[p].old # Absent
  THEN live[p] = Absent /\ sib[p].old = c.prev
  ELSE /\ live[p] \in {c.prev, c.next}
       /\ live[p] # c.prev => c.prev \in backups \cup {Absent}

\* The file at p is one this transaction may have put or left there.
RollbackMeets(p) ==
  LET c == tx.change[p] IN
  IF c.kind = "remove" /\ sib[p].old # Absent
  THEN live[p] = Absent /\ sib[p].old = c.prev
  ELSE /\ live[p] \in {Absent, c.prev, c.next}
       /\ live[p] # c.prev => c.prev \in backups \cup {Absent}

\* Mistake: the paths are left to the rollback itself to check.
PreflightReceiptOnly == receipt \in {tx.prev, tx.target}

\* preflight_rollback.
PreflightPasses ==
  /\ receipt \in {tx.prev, tx.target}
  /\ \A p \in ChangedPaths(tx) : RollbackMeets(p)

Preflight ==
  /\ pc = "preflight"
  /\ PreflightPasses
  /\ Continue("undo", ChangedPaths(tx))
  /\ UNCHANGED <<disk, tx, previews, edited, gameRunning>>

\* RecoveryDrift: nothing is touched and the journal stays.
PreflightRefused ==
  /\ pc = "preflight"
  /\ ~PreflightPasses
  /\ Release
  /\ UNCHANGED <<disk, tx, previews, edited, gameRunning>>

MayUndo(p) == pc = "undo" /\ p \in todo

Quarantined(p) == tx.change[p].kind = "remove" /\ sib[p].old # Absent

\* A removed file is renamed back.
UndoQuarantine(p) ==
  /\ MayUndo(p) /\ Quarantined(p)
  /\ live' = [live EXCEPT ![p] = sib[p].old]
  /\ sib' = [sib EXCEPT ![p].old = Absent, ![p].new = Absent]
  /\ Continue("undo", todo \ {p})
  /\ UNCHANGED <<backups, receipt, aside, journal, marker, tx, previews, edited, gameRunning>>

\* The path had a file and does not hold it now: back from the backup.
UndoReplace(p) ==
  /\ MayUndo(p) /\ ~Quarantined(p)
  /\ tx.change[p].prev \notin {Absent, live[p]}
  /\ Hold("restore", p)
  /\ UNCHANGED <<disk, tx, previews, edited, gameRunning>>

\* Mistake: what the transaction created stays in the game.
UndoSiblingsOnly(p) ==
  /\ MayUndo(p) /\ ~Quarantined(p)
  /\ tx.change[p].prev \in {Absent, live[p]}
  /\ sib' = [sib EXCEPT ![p].old = Absent, ![p].new = Absent]
  /\ Continue("undo", todo \ {p})
  /\ UNCHANGED <<live, backups, receipt, aside, journal, marker, tx, previews, edited, gameRunning>>

\* The path had no file, or holds it still: what was created is removed.
UndoCreate(p) ==
  /\ MayUndo(p) /\ ~Quarantined(p)
  /\ tx.change[p].prev \in {Absent, live[p]}
  /\ live' = [live EXCEPT ![p] = tx.change[p].prev]
  /\ sib' = [sib EXCEPT ![p].old = Absent, ![p].new = Absent]
  /\ Continue("undo", todo \ {p})
  /\ UNCHANGED <<backups, receipt, aside, journal, marker, tx, previews, edited, gameRunning>>

\* The previous receipt is put back; if there was none, the receipt is removed.
UndoReceipt ==
  /\ \/ pc = "undo" /\ todo = {}
     \/ pc = "undo_receipt_in"
  /\ IF tx.prev = NoReceipt
     THEN receipt' = NoReceipt /\ Continue("drop", {}) /\ UNCHANGED aside
     ELSE ReplaceReceipt(tx.prev, "undo_receipt_in", "drop")
  /\ UNCHANGED <<live, sib, backups, journal, marker, tx, previews, edited, gameRunning>>

DropJournal ==
  /\ pc = "drop"
  /\ journal' = "none"
  /\ edited' = {}
  /\ tx' = EmptyPlan
  /\ sib' = NoSiblings
  /\ Release
  /\ UNCHANGED <<live, backups, receipt, aside, marker, previews, gameRunning>>

----------------------------------------------------------------------------
(* Recovery, start-up, and the environment                              *)

\* Mistake: recovery does not look for the commit marker.
RecoverByRollback ==
  /\ Idle /\ ~gameRunning
  /\ journal = "durable"
  /\ StartRollback
  /\ UNCHANGED <<disk, tx, previews, edited, gameRunning>>

\* Mistake: recovery passes over a committed transaction.
RecoverUncommitted ==
  /\ Idle /\ ~gameRunning
  /\ journal = "durable" /\ ~marker
  /\ StartRollback
  /\ UNCHANGED <<disk, tx, previews, edited, gameRunning>>

\* recover_incomplete on the journal left behind: read_json fails on a torn one.
Recover ==
  /\ Idle /\ ~gameRunning
  /\ journal = "durable"
  /\ IF marker THEN Continue("cleanup", {}) ELSE StartRollback
  /\ UNCHANGED <<disk, tx, previews, edited, gameRunning>>

\* Mistake: only the journals are searched.
JournalReferences ==
  UNION {{tx.change[p].prev, tx.change[p].next} : p \in ChangedPaths(tx)}

\* Hashes that receipts and journals still need.
Referenced ==
  {receipt[p].displaced : p \in OwnedPaths(receipt)}
    \cup UNION {{tx.change[p].prev, tx.change[p].next} : p \in ChangedPaths(tx)}

\* cleanup_unreferenced_backups at start-up: after recovery, or with the game
\* running, when recovery is put off.
CollectBackups ==
  /\ Idle /\ previews = {}
  /\ \/ journal = "none"
     \/ journal = "durable" /\ gameRunning
  /\ backups' = backups \ (Disposable \ Referenced)
  /\ UNCHANGED <<live, sib, receipt, aside, journal, marker, tx, previews, worker, edited, gameRunning>>

\* What a restart finds: previews and an unwritten plan are lost.
Crash ==
  /\ "crash" \in Faults
  /\ previews' = {}
  /\ tx' = IF journal = "durable" THEN tx ELSE EmptyPlan
  /\ Release
  /\ UNCHANGED <<disk, edited, gameRunning>>

\* A rollback or a cleanup fails: the error is returned, the journal stays.
ResolveFails ==
  /\ "io" \in Faults
  /\ \/ pc \in {"cleanup", "sweep", "unmark"}
     \/ undoing /\ pc \in {"preflight", "undo", "restore", "restore_out",
                           "restore_done", "drop"}
  /\ Release
  /\ UNCHANGED <<disk, tx, previews, edited, gameRunning>>

\* The user changes a game file between the manager's operations.
UserEdit(p, c) ==
  /\ Idle
  /\ c # live[p]
  /\ live' = [live EXCEPT ![p] = c]
  /\ edited' = IF journal = "durable" THEN edited \cup {p} ELSE edited
  /\ UNCHANGED <<sib, backups, receipt, aside, journal, marker, tx, previews, worker, gameRunning>>

GameStarts ==
  /\ ~gameRunning
  /\ gameRunning' = TRUE
  /\ UNCHANGED <<disk, tx, previews, worker, edited>>

GameStops ==
  /\ gameRunning
  /\ gameRunning' = FALSE
  /\ UNCHANGED <<disk, tx, previews, worker, edited>>

----------------------------------------------------------------------------

ApplyStep ==
  \/ CreateJournal \/ WriteJournal \/ Verify \/ WriteReceipt \/ CreateMarker
  \/ GameInterrupts
  \/ \E p \in Paths :
       \/ Backup(p) \/ BackupRefused(p)
       \/ Quarantine(p) \/ CopyNew(p) \/ LinkNew(p) \/ SwapOut(p) \/ SwapIn(p)
       \/ PlaceDone(p) \/ StartRestore(p) \/ ApplyRefused(p)

ResolveStep ==
  \/ Cleanup \/ CleanupRefused \/ RemoveJournal \/ RemoveMarker
  \/ Preflight \/ PreflightRefused \/ UndoReceipt \/ DropJournal
  \/ \E p \in Paths :
       \/ SweepOld(p)
       \/ UndoQuarantine(p) \/ UndoReplace(p) \/ UndoCreate(p)
       \/ RestoreCopy(p) \/ RestoreOut(p) \/ RestoreIn(p) \/ RestoreDone(p)

Fault ==
  \/ Crash \/ JournalFails \/ JournalSyncFails \/ ApplyFails
  \/ MarkerFails \/ ReceiptFails \/ ResolveFails
  \/ \E p \in Paths : SwapInFails(p) \/ RestoreInFails(p)

Environment ==
  \/ GameStarts \/ GameStops
  \/ \E e \in UserEdits : UserEdit(e[1], e[2])

Command ==
  \/ \E want \in Desired, allow \in BOOLEAN, approved \in SUBSET Paths :
       Preview(want, allow, approved)
  \/ \E plan \in previews : Begin(plan) \/ Discard(plan)
  \/ Recover \/ CollectBackups

Next == ApplyStep \/ ResolveStep \/ Fault \/ Environment \/ Command

Spec == Init /\ [][Next]_vars
=============================================================================
