# RR Mod Manager in TLA+

RR Mod Manager installs mods for one Steam game. It keeps imported mods as
content-addressed artifacts, lets the user combine them into profiles, and
*deploys* a profile: it puts files into the game directory, remembers which ones
are its own, keeps what it displaced, and can undo or finish a deployment that
was interrupted. These modules model three parts of it:

- the deployment engine (`src/crates/rrmm-deploy`) and its use by the desktop
  application (`src/crates/rrmm-application/src/desktop.rs`);
- the library: artifacts, profiles, and the deletion of mods, one by one or
  together, with its quarantines and their recovery;
- the page that reviews and imports archives (`src/apps/desktop/src/app.js`), with
  the reviews the back end keeps for it.

TLC checks small instances. TLAPS proves, for all instances, every safety property
that the passing runs check, and the refinement, some under hypotheses that *Proofs*
gives with their reasons.

In the text, `lib.rs` is `src/crates/rrmm-deploy/src/lib.rs`, `desktop.rs` is
`src/crates/rrmm-application/src/desktop.rs`, `store` is
`src/crates/rrmm-store/src/lib.rs`, and `app.js` is `src/apps/desktop/src/app.js`.

## Inventory

| Component | State | Operations | Hard behaviour | What makes it correct | Here |
|---|---|---|---|---|---|
| Deployment planner (`lib.rs`, `plan_deployment_internal`) | none | a plan from receipt, game files and wanted files | files that drifted, vanished, or belong to someone else | the displaced file of a path is recorded once and carried over; nothing foreign is overwritten without consent | `DeploymentPlan` |
| Deployment engine (`lib.rs`) | game files and their siblings, `backups/`, `receipts/`, `journals/`, `deployment.lock` | activate, roll back, recover, collect backups | crash or error between any two file operations, game started meanwhile, user edits between commands | a switch is atomic; recovery always gets through; displaced files survive | `Deployment`, `DeploymentSafety`, `ProfileSwitch`; `DeploymentProofs`, `RollbackProofs`, `SwitchProofs`, `RecoveryProofs` |
| External moves (`lib.rs` 2010-2141, 2413-2574) | the same | reorder PAK files the manager does not own, in two phases | rollback of a permutation, interrupted rollback | every file ends at its source or its target | planned |
| Inventory and receipt reconciliation (`lib.rs` 895-1252) | receipt | views, alias and identity repair | runs beside activations | repairs never lose a displaced file | planned with external moves |
| Desktop application: activation (`desktop.rs`) | previews, one mutex for mod operations | preview, approve, apply, recover, start up | previews gone stale, order of start-up | a plan is applied to the state it was made from | part of `Deployment` |
| Artifact deletion (`desktop.rs` 1480-1788, 7721-7834) | artifact directories, quarantines, store | delete one, bulk delete, recover quarantines | crash between file system and database, deployment that fails after commit | no record without files, no profile naming a deleted artifact, the next start gets through | `ArtifactLibrary`, `ArtifactLibraryProofs`, `ArtifactRecoveryProofs` |
| Existing mods (`desktop.rs` 2013-2242, 9095-10067) | disabled records, group snapshots, `mods.txt` | disable, enable, delete, recover | several files per mod, several mods per group | a group is changed as a whole or not at all | planned |
| Import and profiles (`desktop.rs`) | pending reviews, profiles | review, import, edit, select, choose PAK winners | reviews gone stale, revisions | what is imported is what was reviewed; reviews are given back | `ArchiveImport` (reviews), `ArtifactLibrary` (import, selection); editing of profiles and PAK winners planned |
| Store (`rrmm-store`) | SQLite: profiles, artifacts, trust floor, caches | revisioned updates, batches, deletions | compare-and-set on revisions, all-or-nothing batches | no lost update, trust floor never sinks | artifacts and profiles in `ArtifactLibrary` |
| Artifact store (`rrmm-artifacts`), deployment targets, materialisation | artifact directories | commit by rename, map entries to game paths | duplicate imports | content address matches content | artifact directories in `ArtifactLibrary` |
| Manifests, domain, recipes | none, trust floor | validate, resolve, apply recipes | selection of variants and dependencies | resolution is deterministic and complete | pure operators, planned |
| PAK analysis and load order (`rrmm-pak`, `desktop.rs` 4675-5130) | caches | conflicts, winners, ordering | cyclic preferences | the chosen winner loads last | pure operators, planned |
| Archive reader, PAK reader, their workers and sandbox | none | parse in a confined process | malformed input | bounded output | not modelled: parsing and system calls |
| UE4SS support | `mods.txt`, loader files | identify, install, enable | edits of a shared text file | the file's other entries are kept | `mods.txt` planned with existing mods; log and Lua analysis not modelled (display only) |
| Steam discovery (`rrmm-steam`) | none | find the game, `is_game_running` | the answer is stale when used | | `gameRunning` only |
| "Add mods" page (`app.js` 52770-52870, 54076-54124) | the list of archives, the publishing flag, handlers waiting for answers | choose, review, acknowledge, import, leave | handlers interleave at every `await`; answers arrive for a list that is gone | a list never claims an import that did not happen; leaving gives the reviews back | `ArchiveImport`; `ArchiveImportProofs`, `ArchiveReviewProofs` |
| Other pages, Tauri shell, problem reports, packaging, tools, catalogues | | | | | not modelled: one command and a refresh each, presentation, export, build scripts, data |

How they interact: the user interface calls commands of `DesktopApp`; the ones
that change mods hold the `mod_operations` mutex for their whole duration. The
application reads profiles and artifacts from the store, resolves them to files
with content hashes, and asks the planner for a plan, which it keeps as a
preview together with snapshots of the files it looked at. Applying the preview
checks profile, build and snapshots, then calls the engine, which takes
`deployment.lock` and works on the game directory and the state root alone.
At start-up the application recovers artifact quarantines, runs
`recover_incomplete` unless the game is running, and collects backups that
nothing refers to and that are also kept as artifacts.

## Modules

### DeploymentPlan

The planner as operators. A file is its content (the code compares SHA-256
hashes), a receipt is a function from owned paths to the recorded content and to
the displaced unmanaged content, a plan has one change per path.

| Operator | Code |
|---|---|
| `DesiredKind`, `PlanChange` | the kind of each change. A wanted path records the content observed; a path that is only owned records the receipt's content, whatever the file holds |
| `Displaced`, `TargetReceipt` | the receipt to be written |
| `NeedsApproval`, `Collisions`, `PlanReady` | the blockers, and the rule that each restore approval is exact and used |
| `PayloadPaths`, `BackupPaths` | which changes touch a file, which are backed up first |

### Deployment

The engine for one installation. A step is one file-system operation that a
crash can separate from the next.

| State | Code |
|---|---|
| `live` | the game file at each path |
| `sib` | its siblings `.<name>.rrmm-<transaction>.new/.old/.restore/.displaced` |
| `backups` | `backups/<shard>/<hash>` |
| `receipt`, `aside` | `receipts/<installation>.json` and its `.previous` |
| `journal`, `marker`, `tx` | `journals/<transaction>.json` (none, torn, durable), `.committed`, and the plan they are about |
| `previews` | `DesktopApp::previews` |
| `pc`, `todo`, `cur`, `undoing` | the thread that holds `deployment.lock`: where it is, the paths left, the path in hand, rolling back or not |
| `edited` | history: paths whose file the pending journal does not describe, because the user changed it, after the journal was written or unseen before it |

| Actions | Code |
|---|---|
| `Preview`, `Discard`, `Begin` | `preview_activation` with approvals and override; previews dropped or refused; `apply_activation` up to `verify_active_receipt` |
| `Backup`, `BackupRefused` | `materialize_backups`, `ensure_backup`, `verify_backup` |
| `CreateJournal`, `WriteJournal`, `JournalSyncFails` | `write_json_create_new`, sync of `journals/` |
| `Quarantine`, `CopyNew`, `LinkNew`, `SwapOut`, `SwapIn`, `PlaceDone`, `StartRestore`, `ApplyRefused` | `apply_change` |
| `RestoreCopy`, `RestoreOut`, `RestoreIn`, `RestoreDone` | `restore_file`, for a change and for a rollback |
| `Verify`, `WriteReceipt`, `CreateMarker` | `verify_target_state`, `replace_json`, `write_commit_marker` |
| `Cleanup`, `CleanupRefused`, `SweepOld`, `RemoveJournal`, `RemoveMarker` | `cleanup_transaction` |
| `Preflight`, `PreflightRefused`, `UndoQuarantine`, `UndoReplace`, `UndoCreate`, `UndoReceipt`, `DropJournal` | `preflight_rollback`, `rollback_journal`, the end of a rollback |
| `Recover`, `CollectBackups`, `Crash` | `recover_incomplete`, `cleanup_unreferenced_backups`, restart |
| `GameInterrupts`, `GameStarts`, `GameStops`, `UserEdit` | `is_game_running` and its consequences, the user |
| `JournalFails`, `ApplyFails`, `SwapInFails`, `RestoreInFails`, `ReceiptFails`, `MarkerFails`, `ResolveFails` | an operation returns an error |

Abstractions:

- The order of the paths in a transaction is left open; the code walks them in
  sorted order, and backwards in a rollback. A change touches its own path only,
  so this only adds behaviours.
- A file that is copied is complete: `copy_verified` writes to a sibling, and a
  partial sibling is never renamed. Leftover siblings are forgotten when the
  journal is removed: transaction ids are fresh, so no later transaction sees
  them. What remains of them on disk is litter, not state.
- A receipt has no profile id: two profiles with the same files count as one.
- `game_running()` and the first operation it guards are one step; it may become
  true right after. The user changes files between commands, not during one.
- A plan with nothing to do is treated like a dropped preview.
- `backups` holds complete backups; the inside of `ensure_backup` is one step.
- Directories, parents, links and special files are outside the model.
- The operators marked `Mistake:` are wrong versions of the definition that
  follows them. The specification does not use them; they are there to see that a
  property notices the mistake.

### ProfileSwitch

What the engine promises: `active`, the receipt in force, changes in one step
(`Switch`); `theirs`, the user's own file at every path, visible or displaced,
changes only by the user, or when a path is taken over with the very file that
lies there (*adopted*: it becomes the manager's, and is removed with the
profile).

### DeploymentSafety

The properties, among them the refinement `SwitchesProfiles`: under the mapping
`InForce` (the previous receipt until the commit marker exists, then the target)
and `Theirs`, every behaviour of `Deployment` is one of `ProfileSwitch`.

### ArtifactLibrary

The library between the store, the artifact directories and the game. Commands
that change mods exclude one another (`mod_operations`), so one operation is
under way at a time, step by step, and a crash ends it between any two.

| State | Code |
|---|---|
| `records`, `profiles` | the tables `artifacts` and `profiles` |
| `receipt` | mods with files in the game, by the receipt |
| `stored` | `artifact_store/artifacts/<shard>/<hash>` |
| `dirs` | `staging/bulk-delete-quarantine-*`: its journal (none, `journal.next` only, done) and the artifacts in it |
| `staged` | `staging/delete-managed-artifact-*` |
| `up` | the application: running, in `DesktopApplication::new`, or not started, because that refused what it found ("failed") or because of an error ("stopped") |
| `op` | the operation under way, its step, and the profiles it will write back |
| `damaged` | history: a directory was left in staging that recovery is not made for |

| Actions | Code |
|---|---|
| `SelectMod`, `Activate` | `set_profile_mods_enabled`, `apply_activation` |
| `AcceptArtifact`, `CommitImport`, `ImportFails` | `accept_artifact`, `commit_imported_artifact_revision` |
| `DeleteArtifact`, `DeleteRecord`, `DeleteFails` | `delete_artifact` |
| `ApplyBulkDelete`, `DeployWithout`, `DeployFails`, `RestoreSelections`, `Undone`, `CheckReceipt` | `apply_bulk_delete` before the quarantine |
| `MakeQuarantine`, `WriteJournal`, `Move`, `DeleteRecords`, `RemoveQuarantine` | the quarantine of `apply_bulk_delete` and of `cleanup_superseded_artifacts` |
| `QuarantineFails`, `MoveBack`, `MovedBack`, `MoveBackFails` | their error paths, `rollback_artifact_quarantine` |
| `Crash`, `TornCrash` | between two steps; inside the write of a journal or the removal of a directory |
| `RecoverQuarantine`, `RecoverPart`, `FinishStart`, `StartAgain` | `recover_artifact_quarantines`, `cleanup_stored_source_archives`, the next attempt |

Abstractions:

- What `Deployment` shows is one step here: an activation succeeds, or fails
  before or after its commit.
- `SameMod`, `SamePackage` and `SameBytes` are constants: which archives are
  revisions of one mod (`artifact_revisions_match`, symmetric), which of those are
  authored packages of one id, which share a file. Files in a receipt have a
  package id; that receipts of older versions have none, and are asked by bytes, is
  left out.
- An error during start-up, be it of the file system or the database, ends that start
  with some mods moved back and perhaps some of a directory removed; the next start
  goes on from there.
- The preview of a bulk deletion is not kept: `apply_bulk_delete` computes it
  again and refuses if anything differs.
- `SelectMod` takes one mod at a time and any profile, since any profile may be
  made the active one; the order in which a profile lists mods, variants and PAK
  preferences are left out.
- A bulk deletion here has managed mods only. The check of an artifact's path
  before each move (`desktop.rs` 1701) can only fail through interference from
  outside and is left out.
- `damaged` becomes true in a crash or a failure to move back within the single
  deletion (no journal), a crash inside the write of a journal or inside the
  removal of a directory, and when a bulk deletion leaves its stale journal
  behind or a directory cannot be moved back. Properties that except it say what
  holds outside these windows; the windows are listed under *Disagreements*.

### ArchiveImport

The page and its back end. A handler runs from one `await` to the next; answers
and other handlers come between. The back end executes one command at a time.

| State | Code |
|---|---|
| `page`, `items`, `publishing` | the page on display, the list of archives and its reference (`h`, `A`), the flag `g` |
| `loops` | the review handler of each selection: archives left, discards awaited |
| `leaves` | "Cancel" and navigation, waiting for discards |
| `importer` | the import handler and the list it was clicked on |
| `pending` | `pending_import_reviews`, oldest first |
| `committed`, `shownAck`, `abandoned` | history: reviews imported, reviews acknowledged on display, a list replaced or captured during its review |

| Actions | Code |
|---|---|
| `ChooseFiles`, `StartReview`, `TakePreflight`, `TakeReview`, `TakeError` | choosing files and the review loop |
| `ToggleAck`, `StartImport`, `ShowResults`, `EndImport` | the check box, and the import handler |
| `Leave`, `Cancelled`, `Left`, `Return` | `discardReviews`, `navigate`, "Cancel" |
| `Review`, `DiscardForBatch`, `DiscardForLeave`, `ImportCommits`, `ImportFails` | `review_archive`, `discard_archive_review`, `import_reviewed_archive` |

Abstractions:

- The busy overlay is not modelled. It covers the mouse, not the keyboard, and
  one indicator serves all commands: the one that ends first removes it. So
  handlers overlap in the model wherever no flag keeps them apart.
- A handler captures the list of the last rendering; rendering is taken to be
  immediate.
- The file dialog is modal to the window, so no import begins while it is open
  (`~publishing` in `ChooseFiles`). A departure under way may still leave the page
  behind it: the model does not record when a dialog was opened and lets it close on
  any page, which only adds behaviours.
- Discards are answered whether or not there was a review (`Promise.allSettled`).
  That `discard_archive_review` may fail to remove the files of a review is left
  out; the page ignores it.
- The evidence of a review is not modelled: any import may be refused.
- Preflights that are evicted are among the reviews that fail.
- The clean-up when the whole application unmounts is left out.

### MCDeployment, MCArtifactLibrary, MCArchiveImport

The instances for TLC.

### The proof modules

`DeploymentProofs`, `RollbackProofs`, `SwitchProofs` and `RecoveryProofs` are about
the engine, each one on top of the one before. `ArtifactLibraryProofs` and
`ArtifactRecoveryProofs` are about the library, `ArchiveImportProofs` and
`ArchiveReviewProofs` about the import page. See *Proofs*.

## Runs

| Run | Instance | Question |
|---|---|---|
| `activation` | 2 paths, 3 contents, 3 profiles, edits of one path, crashes | every safety property and the refinement together, with crashes between any two steps, on the receipt replacement of Unix |
| `activation_errors` | 1 path, errors and failed syncs, Windows | do the error paths leave a state they can answer for |
| `activation_live` | 1 path, crashes and errors, fairness | is the lock released, is every transaction resolved |
| `stale_previews` | 1 path, two previews, errors | is a plan refused when another one was applied before it |
| `drifted_removal`, `torn_journal`, `windows_receipt`, `missing_removal` | as small as shows it | four disagreements between documents or tests and the code, below |
| `import` | 3 archives, one executable; two selections, one departure at a time | every interleaving of the page's handlers: do the list, the library and the reviews agree, does every handler end |
| `deletion` | two revisions of a mod and another mod that shares a file with one of them; crashes, torn operations, errors | do rows, directories, profiles and the game agree through deletions, replacements and restarts |
| `deletion_rollback`, `deletion_restart` | one mod; at most one kind of fault | two more disagreements, below |

Properties:

- `RecoveryNeverStuck`: a durable journal found at rest can be recovered, unless
  somebody else changed a file it names.
- `UndoNeverMeetsDrift`: after `preflight_rollback`, the loop of
  `rollback_journal`, which tests the same conditions again path by path, never
  stops half-way, however often it was interrupted and restarted.
- `RollbackComplete`: a rollback that reaches the removal of the journal has put
  back every file and the receipt.
- `DisplacedBackedUp`: every displaced file named by the receipt on disk, or by
  the one in force, has its backup; the collection at start-up included.
- `UserFilesSurvive`: the user's own content of a path is in the game or in a
  backup, except at paths of a pending journal whose file is not what the plan
  observed (`edited`): the user changed it while the journal was pending, or between
  the preview and the journal where the snapshots do not look.
- `LiveChangesAreJournaled`, `CommitIsFinal`: write-ahead and finality of commit.
- `SwitchesProfiles`: the refinement above.
- `LockReleased`, `RecoveryCompletes`: liveness.

Of the library:

- `ReferencesResolve`: no profile lists a mod that is not in the library.
- `NothingLost`: the files of a mod of the library are somewhere.
- `RecordsHaveFiles`: when nothing is going on they are in the store: an
  interrupted deletion has been finished or undone.
- `StartsUnlessDamaged`: the application does not refuse to start, after any number
  of crashes between two steps and of starts that an error ended half way.
- `DeletesNothingDeployed`: a mod with files in the game is deleted only when a
  new revision takes its place.

Of the import page:

- `NoFalseSuccess`: what the list calls imported is in the library, under the very
  review shown.
- `ImportNotDiscarded`: no handler discards a review that is being imported.
- `AckIsForShown`: an executable archive is imported on an acknowledgement of this
  review, not of an earlier one of the same path.
- `NothingLeaks`, `ReadyIsKept`: reviews are given back; those shown as ready are
  still there.
- `PublishingEnds`, `LeavingEnds`, `ReviewEnds`: every handler gets to its end.

### Bounds, and why they are enough

Paths are independent except through the receipt, the journal, the backups (one
content may be displaced at one path and deployed at another) and the order of
steps: two paths show each of these. Three contents are two mods and a file of
the user's; both mods are also artifacts (`Disposable`), so the collection of
backups really removes backups. The profiles are: none, one file, and another mod
at the same path with a second file; so every kind of change occurs, a path is
given up, taken back, replaced and restored, in sequences of any length.
`UserEdits` lets the user delete a file and put a copy of a mod there, which
covers drift, missing files and adoption. `MaxPreviews` is 1, since previews only
interact through what they find when applied; `stale_previews` has two.
Behaviours are not bounded in length.

`deletion`: a replacement needs two revisions, a bulk deletion two mods, and the
third mod shares a file with one of them, so that the receipt can name a mod's
bytes without the mod. One profile is enough for what relates profiles to
records; how many there are matters only to the batch update, which is all or
nothing, and the proofs hold for any number. `MaxRevision` is 2: a profile can be
changed and changed again by the deletion, and an operation that would exceed it
does not begin. `Quarantines` has one element: `OneQuarantine`, part of the proof,
says that without damage there never are two.

`import`: with `BatchLimit` 2 the second selection may be one archive of the first
again, which makes late answers ambiguous, or too many. `PendingLimit` is 2, so
that reviews left behind evict others. `ReadyIsKept` is about lists of at most
`PendingLimit` archives: longer ones evict their own reviews for certain (below).

Deadlock checking is off: when journals are torn or blocked the application may
stop for good, and `MaxPreviews` and empty edit sets leave states with nothing to
do.

### Fairness

`FairSpec` assumes weak fairness of the worker's steps (a thread that runs goes
on), of `Recover` (the application runs it at every start and offers it as a
command, and refuses activations until it has succeeded) and of `GameStops` (the
game is closed some day). Nothing is assumed of previews, activations, crashes,
errors or edits. `RecoveryCompletes` is stated for behaviours in which
disturbances (crashes, errors, the game starting, edits) eventually stop, and
excepts transactions blocked by an edit of a journaled file: `preflight_rollback`
refuses those on purpose and leaves them to the user.

`FairSpec` of `ArchiveImport` assumes weak fairness of each handler together with
the command it waits for: every command is answered (the workers have time-outs,
`desktop.rs` kills them), and the event loop runs what is ready. Nothing is
assumed of the user. `ArtifactLibrary` has no liveness property.

## Disagreements found

- **Drift of removed files is not detected** (`drifted_removal`). The test
  `removal_defers_managed_drift_detection_until_apply` (`lib.rs:4337`) expects an
  activation that removes a modified managed file to fail. Its receipt is not on
  disk, so the activation fails for that reason. With the receipt in place
  `RemoveManaged` renames the file unseen and the cleanup deletes it.
- **A torn journal blocks everything** (`torn_journal`). The journal is created
  under its final name and then filled. A crash in between leaves a file that
  every recovery fails to read, although nothing was changed yet.
- **The receipt gap on Windows** (`windows_receipt`). A crash between the two
  renames of `replace_json` leaves no receipt; recovery then reports drift for
  ever. In the same gap, with the game running at the next start, the collection
  of backups does not see the receipt's displaced files, so a displaced file that
  is also an artifact loses its backup.
- **A removed file that is already gone** (`missing_removal`). The planner skips
  it, `verify_target_state` asks for its change: the plan is ready, runs through,
  and is always rolled back.

- **Selections are not restored** (`deletion_rollback`). A bulk deletion takes the
  mods out of the profiles, then deploys. If that fails it writes the old
  profiles back, with their old revision, while asking for the new one:
  `update_profiles_batch` refuses such a pair (`store` 505), always. The profiles
  stay without the mods, whether or not these are still in the game.
- **A crash in a single deletion keeps the application from starting**
  (`deletion_restart`). `delete_artifact` has no journal: between the move of the
  directory (`desktop.rs:1533`) and the deletion of the record, a crash leaves a
  record without directory. Start-up checks every directory and gives up, and the
  recovery the documents speak of is inside the application.

The property a violation run checks says what the document or test says; the
other runs do not depend on it. The runs with `Windows = FALSE` show that the
receipt gap is the only obstacle of its kind.

One more is described here only: when writing or syncing the commit marker fails
after its creation (`MarkerFails`), the code rolls back while the marker exists.
If that rollback is interrupted too, recovery takes the transaction for a
committed one and refuses it. `activation_errors` shows that the rollbacks that
do finish are complete, and `RollbackRestores` proves it. Finality of the commit,
the refinement and `RecoveryNeverStuck` do not hold with this fault (`"sync"` in
`Faults`); their theorems exclude it, as `activation` does.

More without a run of their own:

- **50 archives, 8 reviews.** The page accepts 50 archives (`KN`, "Select at most
  {count} archives at a time.", `app.js:49872`), the back end keeps 8 reviews
  (`desktop.rs:103`) and evicts the oldest. Of a list of nine the first is shown as
  ready and its import fails. On an instance with a `PendingLimit` below
  `BatchLimit`, TLC shows it as a violation of `ReadyIsKept` without its condition
  on the length.
- **Other windows that keep the application from starting**, all of them
  `damaged`: a crash inside `write_artifact_quarantine_journal` leaves
  `journal.next` alone; a removal of a quarantine that stops half way may take
  `journal.json` first; a bulk deletion that fails in its moves calls `remove_dir`
  on a directory that still has its journal, and the stale journal may name a mod
  that a later interrupted deletion has in another quarantine.
- **A shared file.** The preview asks by package whether files must leave the game,
  the check before the quarantine asks by bytes. A mod that shares a file with an
  applied one is taken out of the profiles, and its deletion is then refused.
- **Reviews left behind.** The review loop goes on after the page was left; its
  later reviews are on no list and are never discarded (`abandoned`). In the same
  way an acknowledgement can stay with a path whose review was replaced.

## Proofs

`DeploymentProofs` proves, for every set of paths, contents, profiles, edits and
faults:

- `Typing`: `Spec => []TypeOK`. Not only shape: it says that every plan in
  `previews` and `tx` is in `Plans` and that receipts record contents, never
  `Absent`. It needs that `MakePlan` builds plans (a lemma about the planner) and
  that a swap never records an absent file as content.
- `DisplacedFilesKept`: `Spec => []DisplacedBackedUp` if `~Windows`. The property
  is not inductive: that a switch may put a displaced file on record depends on
  the backup having been made several steps before, under a plan made earlier
  still. `Inv` adds `PhaseInv` (what the program counter says of journal, marker,
  receipt and plan), `PlansInv` (a plan's target records a displaced file only if
  the previous receipt did or its own change replaces it, and is thus backed up)
  and `BackupInv` (which contents are in `backups` at which step). Each action
  preserves each part; collection is the interesting case, because it keeps
  exactly what receipts and journals refer to. TLC also found `Inv` to hold on
  the instance of `activation` with all faults, before it was proved.
- `ChangesAreJournaled`: `Spec => LiveChangesAreJournaled`, from the same `Inv`.

`ArtifactLibraryProofs` proves, for every set of mods, profiles and quarantines and
with any faults, `LibraryTypes`, `ReferencesAlwaysResolve` and `NothingIsLost`.
Neither property is inductive. `LibraryInv` adds `BeforeResolves` (the profiles
that may be written back list mods that are there), `DirsSound` and `OpSound` (what
the directory of the operation under way holds, and that a directory about to be
removed holds nothing of the library) and `ImportSound` (what a failed import takes
out of the store again is not all there is of a mod). Each action preserves each
part; the interesting ones are the start-up recovery, which moves back exactly the
mods with a record before it removes a directory, and the removal that stops half
way.

`ArtifactRecoveryProofs` builds on it. `DeployedModsStay` needs `RetiredSound`: a
mod whose deletion has got as far as a directory has no files in the game, or is
replaced by a revision that is there. `StartsAfterCrashes` and `FilesComeBack` need
`CleanInv`: without damage there is at most one directory, recovery would accept
it, and it holds exactly what its journal, the store and the step under way say.
TLC found both invariants to hold on the instance of `deletion` before they were
proved.

`RollbackProofs` follows a rollback, with all faults and on both platforms.
`WorkerInv` relates the program counter, the path in hand and the paths left;
`RollbackInv` says that paths done hold their previous file, that paths to come can
still be rolled back, and that the one in hand has its backup. Each property is one
half of it and not inductive alone: `RollbackComplete` is what is left when no path
is to come, and a path to come ends as one done only because it can be rolled back.

- `RollbackRestores`: `Spec => []RollbackComplete`.
- `RollbackMeetsNoDrift`: `Spec => []UndoNeverMeetsDrift`.

`SwitchProofs` is about atomicity, for both platforms and without failed syncs of the
marker (`"sync" \notin Faults`). `ChangesInv` says what each kind of change starts
from and ends in, for every plan that waits or is at work (a lemma about the
planner); `CommitInv` says that the plan still fits receipt and files until the
journal is complete, that the marker appears with the target receipt in place, and
that a clean-up about to remove the journal has just found its files intact.

- `CommitStays`: `Spec => CommitIsFinal`.
- `ActivationIsAtomic`: `Spec => SwitchesProfiles`, the refinement of
  `ProfileSwitch`. Steps that touch files only under a complete journal that names
  them, and neither make nor remove a journal or a marker, are `Quiet`, and a quiet
  step leaves the abstract state alone. Four kinds of step are not quiet. Completing
  the journal stutters, because the plan was made from what is there. Creating the
  marker is the `Switch`. Removing the journal stutters, because a commit was checked
  or a rollback was complete. An edit by the user is the abstract one or is hidden by
  the journal.

`RecoveryProofs` is about the receipt replacement of Unix (`~Windows`): in the gap
between two renames `RecoveryNeverStuck` is false (`windows_receipt`), and so is
`UserFilesSurvive`.

- `RecoveryGetsThrough`: `Spec => []RecoveryNeverStuck`, again without failed syncs of
  the marker. It needs `FilesInv`: for each path of a complete journal that nobody
  else changed, where its file can be at each step of the worker (as before, as after,
  or set aside with a backup).
- `UserFilesKept`: `Spec => []UserFilesSurvive`, with all faults. It needs to know
  which kinds of change a path can have (`ChangesInv`), what is backed up
  (`BackupInv`), and that files that only change hands stay as the plan found them
  (`LeftAloneInv`): the user's file of an adopted path has no backup, and a rollback
  must not take it in hand unless the user changed it.

`ArchiveImportProofs` proves, for every set of archives, selections and limits,
`ImportTypes`, `NothingFalselyImported` and `ImportUndisturbed`. `HandlersInv` says
which handler waits for what. `TokensInv` is the life of a review: asked for by the
loop of its batch, held once, named by an entry of its own path, then discarded or
imported, and never named again. The case that decides is a late answer for a list
that was replaced by one with the same path: it may put an old review into the new
entry, and is harmless to both properties because an entry's review is one that
batch has had and that nobody is discarding.

`ArchiveReviewProofs` proves the three properties that hold until a list is replaced
or captured during its review (`~abandoned`):

- `StagingGivenBack`: `Spec => []NothingLeaks`.
- `ReadyKept`: `Spec => []ReadyIsKept`.
- `AckMatchesShown`: `Spec => []AckIsForShown`.

They need `ListOwned` (one handler at a time has the list to itself, and what its loop
has yet to review is listed as new), `TicksInv`, `HeldInv` (every review held is on
its way, listed or being discarded) and `KeptInv` (what is on its way or listed is
held). `ReadyKept` is a counting argument: a new review evicts the oldest, and those
being discarded are the oldest of all (second part of `HeldInv`). So if a listed
review were evicted, everything younger would be listed too, at a path of its own
other than the one under review; these would be as many as the limit, in a list
that has room for one less (`RoomEnough`, by the pigeonhole principle, which is why
`ImportConstants` asks for finitely many archives).

TLC found each of these invariants to hold before it was proved: `RollbackIInv` with
all faults and `Windows` on one path, the invariant of `RecoveryProofs` with crashes
and errors on two paths, `LeftAloneInv` with all faults on one path, `ReviewIInv` on
the instance of `import`.

The only assumptions besides the hypotheses named above are those of the modules:
`AbsentIsNoFile`, `NoReceiptIsNoFunction`, `DeploymentConstants`, `LibraryConstants`
and `ImportConstants`, which TLC evaluates in the runs.

Only model-checked is liveness (`LockReleased`, `RecoveryCompletes`,
`PublishingEnds`, `LeavingEnds`, `ReviewEnds`): liveness under fairness and `ENABLED`
are out of the prover's reach. So are recursive definitions and induction over data,
of which these modules have none: they are written with functions and quantifiers so
that they can be proved about. The removal of a review is written with `RemoveAt`
rather than as a filter for the same reason; a review is held once (`TokensInv`), so
it is the same.

## Plan

In this order:

1. `ExternalMoves`: the two-phase reordering of PAK files inside a transaction and
   its rollback; abstractly a permutation that happens or not. One passing run
   and one for the interrupted rollback (`preflight_external_rollback`,
   `lib.rs:2478`).
2. `ExistingMods`: group operations with snapshots, disabled records, `mods.txt`.
3. Pure operators with reference definitions: PAK load order from pairwise
   winners, package resolution, path normalisation.
4. A second instance of the application working on the same state root.
5. Proofs for each of these as it is added.

## Not modelled

Besides what the inventory and the plan name: the parsing of archives, PAK files,
VDF and Lua (their data, not their control, is what could be wrong), the sandbox of
the workers, text of problem reports, packaging. `app.js` is one bundle of 54,487
lines, nine tenths of them third-party code (React, Ant Design and their
dependencies); of the application's own pages most call one command and refresh,
and only the import page keeps state across several. The share of the bundle that
the modules map is therefore small and stays so; the program's own logic is in the
Rust crates.
