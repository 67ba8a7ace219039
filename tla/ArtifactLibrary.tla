----------------------------- MODULE ArtifactLibrary -----------------------------
(***************************************************************************)
(* The library of imported mods: the rows of the artifacts table, the      *)
(* directories of the artifact store, the profiles that select mods, and   *)
(* the operations of desktop.rs that bring mods in and delete them, with   *)
(* what a crash leaves behind and what the next start does about it.       *)
(*                                                                         *)
(* The operations exclude one another (mod_operations).  What an           *)
(* activation does to the game is the subject of Deployment: here it       *)
(* succeeds, or fails before or after its commit.                          *)
(***************************************************************************)
EXTENDS Naturals, FiniteSets

CONSTANTS
  Artifacts,    \* imported archives, by content
  SameMod,      \* for each, the other revisions of its mod
  SamePackage,  \* for each, those of them that carry the same authored package id
  SameBytes,    \* for each, the others that install a file with the same bytes
  Profiles,
  Active,       \* the profile that activations apply
  Quarantines,  \* bound: quarantine directories at a time
  MaxRevision,  \* bound: changes of a profile
  Faults,       \* what may happen: "crash" between two steps, "torn" within one, "io" errors
  None

ASSUME LibraryConstants ==
  /\ SameMod \in [Artifacts -> SUBSET Artifacts]
  /\ \A a \in Artifacts : a \notin SameMod[a]
  /\ \A a, b \in Artifacts : b \in SameMod[a] => a \in SameMod[b]
  /\ SamePackage \in [Artifacts -> SUBSET Artifacts]
  /\ \A a \in Artifacts : SamePackage[a] \subseteq SameMod[a]
  /\ SameBytes \in [Artifacts -> SUBSET Artifacts]
  /\ Active \in Profiles
  /\ MaxRevision \in Nat
  /\ Faults \subseteq {"crash", "torn", "io"}

VARIABLES
  records,   \* rows of the artifacts table
  profiles,  \* rows of the profiles table
  receipt,   \* artifacts with files in the game
  stored,    \* artifacts whose directory is in the artifact store
  dirs,      \* bulk-delete-quarantine-* directories in staging
  staged,    \* artifacts in a delete-managed-artifact-* directory in staging
  up,        \* the application; "failed": it refused what it found, "stopped": an error
  op,        \* the operation that holds mod_operations
  damaged    \* history: a directory was left in staging that recovery is not made for

disk == <<records, profiles, receipt, stored, dirs, staged>>
vars == <<disk, up, op, damaged>>

Profile == [revision : Nat, listed : SUBSET Artifacts, enabled : SUBSET Artifacts]

\* journal.json lists the artifacts; "next" is journal.next alone.
Quarantine == [made : BOOLEAN, journal : {"none", "next", "done"},
               lists : SUBSET Artifacts, holds : SUBSET Artifacts]

NoQuarantine == [made |-> FALSE, journal |-> "none", lists |-> {}, holds |-> {}]

Steps == {"idle", "commit", "record", "deploy", "restore", "undone", "check",
          "mkdir", "journal", "move", "records", "unmove", "remove"}

Operation == [kind : {"none", "import", "delete", "bulk", "supersede"}, step : Steps,
              set : SUBSET Artifacts, left : SUBSET Artifacts,
              dir : Quarantines \cup {None}, before : [Profiles -> Profile] \cup {None}]

Idle == [kind |-> "none", step |-> "idle", set |-> {}, left |-> {},
         dir |-> None, before |-> None]

Do(kind, step, set) == [Idle EXCEPT !.kind = kind, !.step = step, !.set = set]

Free == up = "running" /\ op = Idle

-----------------------------------------------------------------------------
(* The store. *)

\* update_profiles_batch writes all the given profiles or none: each must be the
\* revision expected, and be written over that revision.
UpdateProfiles(which, new, expected) ==
  profiles' = [p \in Profiles |->
                 IF p \in which THEN [new[p] EXCEPT !.revision = expected[p] + 1]
                 ELSE profiles[p]]

CanUpdate(which, new, expected) ==
  \A p \in which : new[p].revision = expected[p] /\ profiles[p].revision = expected[p]

Room(which) == \A p \in which : profiles[p].revision < MaxRevision

Revision(rows) == [p \in Profiles |-> rows[p].revision]

\* Mistake: the artifacts are turned off, and stay listed.
Disabled(rows, set) == [p \in Profiles |-> [rows[p] EXCEPT !.enabled = @ \ set]]

\* Profiles without some artifacts.
Without(rows, set) ==
  [p \in Profiles |-> [rows[p] EXCEPT !.listed = @ \ set, !.enabled = @ \ set]]

\* Mistake: an old revision leaves an entry without artifact.
ReplacedByNone(rows, old, new) ==
  LET replace(S) == (S \ old) \cup (IF S \cap old # {} THEN {None} ELSE {})
  IN [p \in Profiles |->
        [rows[p] EXCEPT !.listed = replace(@), !.enabled = replace(@)]]

\* replace_profile_artifact_revisions.
Replaced(rows, old, new) ==
  LET replace(S) == (S \ old) \cup (IF S \cap old # {} THEN {new} ELSE {})
  IN [p \in Profiles |->
        [rows[p] EXCEPT !.listed = replace(@), !.enabled = replace(@)]]

Changed(rows) == {p \in Profiles : rows[p] # profiles[p]}

Referenced == UNION {profiles[p].listed : p \in Profiles}

-----------------------------------------------------------------------------

Init ==
  /\ records = {}
  /\ profiles = [p \in Profiles |-> [revision |-> 0, listed |-> {}, enabled |-> {}]]
  /\ receipt = {}
  /\ stored = {}
  /\ dirs = [q \in Quarantines |-> NoQuarantine]
  /\ staged = {}
  /\ up = "running"
  /\ op = Idle
  /\ damaged = FALSE

(* Selecting and applying mods. *)

\* set_profile_mods_enabled, of any profile, since any may be made the active one.
\* A mod that is turned on turns off its other revisions.
SelectMod(p, a, on) ==
  LET listed  == profiles[p].listed \cup {a}
      enabled == IF on THEN (profiles[p].enabled \ SameMod[a]) \cup {a}
                 ELSE profiles[p].enabled \ {a}
  IN /\ Free
     /\ a \in records
     /\ Room({p})
     /\ listed # profiles[p].listed \/ enabled # profiles[p].enabled
     /\ profiles' = [profiles EXCEPT ![p] = [revision |-> @.revision + 1,
                                             listed |-> listed, enabled |-> enabled]]
     /\ UNCHANGED <<records, receipt, stored, dirs, staged, up, op, damaged>>

\* apply_activation, when Active is the active profile.
Activate ==
  /\ Free
  /\ profiles[Active].enabled \subseteq records \cap stored
  /\ receipt' = profiles[Active].enabled
  /\ UNCHANGED <<records, profiles, stored, dirs, staged, up, op, damaged>>

-----------------------------------------------------------------------------
(* Importing. *)

\* accept_artifact puts the directory in place; op.left says that it was not there.
AcceptArtifact(a) ==
  /\ Free
  /\ stored' = stored \cup {a}
  /\ op' = [Do("import", "commit", {a}) EXCEPT !.left = {a} \ stored]
  /\ UNCHANGED <<records, profiles, receipt, dirs, staged, up, damaged>>

\* commit_imported_artifact_revision: the new revision takes the place of the others.
CommitImport(a) ==
  LET old == records \cap SameMod[a]
      new == Replaced(profiles, old, a)
  IN /\ op.step = "commit"
     /\ op.set = {a}
     /\ old \subseteq stored
     /\ Room(Changed(new))
     /\ records' = records \cup {a}
     /\ UpdateProfiles(Changed(new), new, Revision(profiles))
     /\ op' = IF old = {} THEN Idle ELSE Do("supersede", "mkdir", old)
     /\ UNCHANGED <<receipt, stored, dirs, staged, up, damaged>>

\* The database refuses, or an earlier revision has lost its files.
ImportFails(a) ==
  LET old == records \cap SameMod[a]
  IN /\ op.step = "commit"
     /\ op.set = {a}
     /\ "io" \in Faults \/ ~(old \subseteq stored)
     /\ stored' = IF old # {} /\ old \subseteq stored THEN stored \ op.left ELSE stored
     /\ op' = Idle
     /\ UNCHANGED <<records, profiles, receipt, dirs, staged, up, damaged>>

-----------------------------------------------------------------------------
(* Deleting one mod. *)

\* Mistake: the profile is asked, which may not be applied yet.
DeployedByProfile(a) == a \in profiles[Active].enabled

\* A file with the bytes of one of the mod's files is in the game.
Deployed(a) == a \in receipt \/ SameBytes[a] \cap receipt # {}

\* delete_artifact, up to the directory's move into staging.
DeleteArtifact(a) ==
  /\ Free
  /\ a \in records \cap stored
  /\ \A p \in Profiles : a \notin profiles[p].enabled
  /\ ~Deployed(a)
  /\ stored' = stored \ {a}
  /\ staged' = staged \cup {a}
  /\ op' = Do("delete", "record", {a})
  /\ UNCHANGED <<records, profiles, receipt, dirs, up, damaged>>

\* delete_artifact_and_profile_references, in one transaction.
DeleteRecord(a) ==
  LET new == Without(profiles, {a})
  IN /\ op.step = "record"
     /\ op.set = {a}
     /\ Room(Changed(new))
     /\ records' = records \ {a}
     /\ UpdateProfiles(Changed(new), new, Revision(profiles))
     /\ staged' = staged \ {a}
     /\ op' = Idle
     /\ UNCHANGED <<receipt, stored, dirs, up, damaged>>

\* The transaction fails: the directory is moved back, unless that fails too.
DeleteFails(a) ==
  /\ op.step = "record"
  /\ op.set = {a}
  /\ "io" \in Faults
  /\ \/ /\ stored' = stored \cup {a}
        /\ staged' = staged \ {a}
        /\ UNCHANGED damaged
     \/ /\ damaged' = TRUE
        /\ UNCHANGED <<stored, staged>>
  /\ op' = Idle
  /\ UNCHANGED <<records, profiles, receipt, dirs, up>>

-----------------------------------------------------------------------------
(* Deleting several mods. *)

\* Files of the mods must leave the game first.  The receipt names packages, so an
\* applied revision answers for the others of its package.
RequiresDeployment(set) ==
  \E a \in set : a \in receipt \/ SamePackage[a] \cap receipt # {}

\* compute_bulk_delete finds no blocker.
Deletable(set) ==
  /\ set # {}
  /\ set \subseteq records \cap stored
  /\ RequiresDeployment(set) =>
       Without(profiles, set)[Active].enabled \subseteq records \cap stored

\* apply_bulk_delete computes again what was reviewed, and refuses if anything
\* differs.  The mods leave the profiles first.
ApplyBulkDelete(set) ==
  LET new == Without(profiles, set)
  IN /\ Free
     /\ Deletable(set)
     /\ Room(Changed(new))
     /\ UpdateProfiles(Changed(new), new, Revision(profiles))
     /\ op' = [Do("bulk", IF RequiresDeployment(set) THEN "deploy" ELSE "check", set)
                 EXCEPT !.before = profiles]
     /\ UNCHANGED <<records, receipt, stored, dirs, staged, up, damaged>>

\* activate_deployment of the active profile without them.
DeployWithout ==
  /\ op.step = "deploy"
  /\ receipt' = profiles[Active].enabled
  /\ op' = [op EXCEPT !.step = "check"]
  /\ UNCHANGED <<records, profiles, stored, dirs, staged, up, damaged>>

\* It fails, before or after its commit.
DeployFails ==
  /\ op.step = "deploy"
  /\ receipt' \in {receipt, profiles[Active].enabled}
  /\ op' = [op EXCEPT !.step = "restore"]
  /\ UNCHANGED <<records, profiles, stored, dirs, staged, up, damaged>>

\* The profiles of before are written back, over the revisions just made.
RestoreSelections ==
  LET which    == Changed(op.before)
      expected == Revision(profiles)
  IN /\ op.step = "restore"
     /\ op' = [op EXCEPT !.step = "undone"]
     /\ \/ /\ CanUpdate(which, op.before, expected)
           /\ Room(which)
           /\ UpdateProfiles(which, op.before, expected)
        \/ /\ ~CanUpdate(which, op.before, expected)
           /\ UNCHANGED profiles
     /\ UNCHANGED <<records, receipt, stored, dirs, staged, up, damaged>>

\* The error is returned.
Undone ==
  /\ op.step = "undone"
  /\ op' = Idle
  /\ UNCHANGED <<disk, up, damaged>>

\* No byte of the mods may be in the game any more.
CheckReceipt ==
  /\ op.step = "check"
  /\ op' = IF \E a \in op.set : Deployed(a) THEN Idle ELSE [op EXCEPT !.step = "mkdir"]
  /\ UNCHANGED <<disk, up, damaged>>

-----------------------------------------------------------------------------
(* Quarantine, for a bulk deletion and for revisions that were replaced. *)

\* Mistake: the directory is used before it has a journal.
MakeQuarantineAndMove(q) ==
  /\ op.step = "mkdir"
  /\ ~dirs[q].made
  /\ dirs' = [dirs EXCEPT ![q].made = TRUE]
  /\ op' = [op EXCEPT !.step = "move", !.dir = q, !.left = op.set]
  /\ UNCHANGED <<records, profiles, receipt, stored, staged, up, damaged>>

\* fs::create_dir.
MakeQuarantine(q) ==
  /\ op.step = "mkdir"
  /\ ~dirs[q].made
  /\ dirs' = [dirs EXCEPT ![q].made = TRUE]
  /\ op' = [op EXCEPT !.step = "journal", !.dir = q]
  /\ UNCHANGED <<records, profiles, receipt, stored, staged, up, damaged>>

WriteJournal ==
  /\ op.step = "journal"
  /\ dirs' = [dirs EXCEPT ![op.dir].journal = "done", ![op.dir].lists = op.set]
  /\ op' = [op EXCEPT !.step = "move", !.left = op.set]
  /\ UNCHANGED <<records, profiles, receipt, stored, staged, up, damaged>>

Move(a) ==
  /\ op.step = "move"
  /\ a \in op.left
  /\ stored' = stored \ {a}
  /\ dirs' = [dirs EXCEPT ![op.dir].holds = @ \cup {a}]
  /\ op' = [op EXCEPT !.left = @ \ {a}, !.step = IF op.left = {a} THEN "records" ELSE @]
  /\ UNCHANGED <<records, profiles, receipt, staged, up, damaged>>

\* delete_artifacts_without_profile_references, in one transaction.
DeleteRecords ==
  /\ op.step = "records"
  /\ op.set \cap Referenced = {}
  /\ records' = records \ op.set
  /\ op' = [op EXCEPT !.step = "remove"]
  /\ UNCHANGED <<profiles, receipt, stored, dirs, staged, up, damaged>>

\* An error of the file system or the database, wherever the operation is.
QuarantineFails ==
  /\ "io" \in Faults
  /\ \/ /\ op.step = "mkdir"
        /\ op' = Idle
     \/ /\ op.step = "journal"
        /\ op' = [op EXCEPT !.step = "remove"]
     \/ /\ op.step \in {"move", "records"}
        /\ op' = [op EXCEPT !.step = "unmove"]
  /\ UNCHANGED <<disk, up, damaged>>

\* rollback_artifact_quarantine, one directory.
MoveBack(a) ==
  /\ op.step = "unmove"
  /\ a \in dirs[op.dir].holds
  /\ stored' = stored \cup {a}
  /\ dirs' = [dirs EXCEPT ![op.dir].holds = @ \ {a}]
  /\ UNCHANGED <<records, profiles, receipt, staged, up, op, damaged>>

\* Mistake: the directory is removed whether or not all were moved back.
MovedBackEarly ==
  /\ op.step = "unmove"
  /\ IF op.kind = "bulk"
     THEN op' = Idle /\ damaged' = TRUE
     ELSE op' = [op EXCEPT !.step = "remove"] /\ UNCHANGED damaged
  /\ UNCHANGED <<disk, up>>

\* Only a replacement removes the directory; a bulk deletion leaves its journal there.
MovedBack ==
  /\ op.step = "unmove"
  /\ dirs[op.dir].holds = {}
  /\ IF op.kind = "bulk"
     THEN op' = Idle /\ damaged' = TRUE
     ELSE op' = [op EXCEPT !.step = "remove"] /\ UNCHANGED damaged
  /\ UNCHANGED <<disk, up>>

\* A directory could not be moved back.
MoveBackFails ==
  /\ op.step = "unmove"
  /\ "io" \in Faults
  /\ op' = Idle
  /\ damaged' = TRUE
  /\ UNCHANGED <<disk, up>>

\* What is left of a directory whose removal stops half way.
Remains(d) == {r \in Quarantine :
                 /\ r.made
                 /\ r.holds \subseteq d.holds
                 /\ \/ r.journal = d.journal /\ r.lists = d.lists
                    \/ r.journal = "none" /\ r.lists = {}}

RemoveQuarantine ==
  /\ op.step = "remove"
  /\ \/ /\ dirs' = [dirs EXCEPT ![op.dir] = NoQuarantine]
        /\ UNCHANGED damaged
     \/ /\ "io" \in Faults
        /\ \E r \in Remains(dirs[op.dir]) : dirs' = [dirs EXCEPT ![op.dir] = r]
        /\ damaged' = TRUE
  /\ op' = Idle
  /\ UNCHANGED <<records, profiles, receipt, stored, staged, up>>

-----------------------------------------------------------------------------
(* Crashes, and the next start. *)

\* Between two steps.
Crash ==
  /\ "crash" \in Faults
  /\ up = "running"
  /\ up' = "starting"
  /\ op' = Idle
  /\ damaged' = (damaged \/ op.step = "record")
  /\ UNCHANGED disk

\* While a journal is written or a directory is removed.
TornCrash ==
  /\ "torn" \in Faults
  /\ \/ /\ op.step = "journal"
        /\ dirs' = [dirs EXCEPT ![op.dir].journal = "next"]
     \/ /\ op.step = "remove"
        /\ \E r \in Remains(dirs[op.dir]) : dirs' = [dirs EXCEPT ![op.dir] = r]
  /\ up' = "starting"
  /\ op' = Idle
  /\ damaged' = TRUE
  /\ UNCHANGED <<records, profiles, receipt, stored, staged>>

\* Artifacts with a record: recovery moves back those it holds, and refuses those
\* it finds twice or not at all.
Restorable(d) == {a \in d.lists \cap records : a \in d.holds /\ a \notin stored}

Refused(d) == \/ d.journal = "next"
              \/ d.journal = "none" /\ d.holds # {}
              \/ \E a \in d.lists \cap records : a \in d.holds <=> a \in stored

\* Mistake: the directory is only removed.
RecoverByRemoval(q) ==
  /\ up = "starting"
  /\ dirs[q].made
  /\ ~Refused(dirs[q])
  /\ dirs' = [dirs EXCEPT ![q] = NoQuarantine]
  /\ UNCHANGED <<records, profiles, receipt, stored, staged, up, op, damaged>>

\* recover_artifact_quarantines, one directory.  Its removal may stop half way, in a
\* crash or with an error that ends this start.
RecoverQuarantine(q) ==
  LET d == dirs[q]
  IN /\ up = "starting"
     /\ d.made
     /\ ~Refused(d)
     /\ stored' = stored \cup Restorable(d)
     /\ \/ /\ dirs' = [dirs EXCEPT ![q] = NoQuarantine]
           /\ UNCHANGED <<up, damaged>>
        \/ /\ \E r \in Remains([d EXCEPT !.holds = @ \ Restorable(d)]) :
                dirs' = [dirs EXCEPT ![q] = r]
           /\ \/ "torn" \in Faults /\ up' = "starting"
              \/ "io" \in Faults /\ up' = "stopped"
           /\ damaged' = TRUE
     /\ UNCHANGED <<records, profiles, receipt, staged, op>>

\* The directory is refused, or the application crashes, or an error of the file
\* system ends this start: some are back.
RecoverPart(q) ==
  LET d == dirs[q]
  IN /\ up = "starting"
     /\ d.made
     /\ \E part \in SUBSET Restorable(d) :
          /\ stored' = stored \cup part
          /\ dirs' = [dirs EXCEPT ![q].holds = @ \ part]
     /\ \/ Refused(d) /\ up' = "failed"
        \/ ~Refused(d) /\ "crash" \in Faults /\ up' = "starting"
        \/ "io" \in Faults /\ up' = "stopped"
     /\ UNCHANGED <<records, profiles, receipt, staged, op, damaged>>

\* Every mod with a record must have its directory (cleanup_stored_source_archives).
FinishStart ==
  /\ up = "starting"
  /\ \A q \in Quarantines : ~dirs[q].made
  /\ \/ up' = IF records \subseteq stored THEN "running" ELSE "failed"
     \/ "io" \in Faults /\ up' = "stopped"
  /\ UNCHANGED <<disk, op, damaged>>

StartAgain ==
  /\ up \in {"failed", "stopped"}
  /\ up' = "starting"
  /\ UNCHANGED <<disk, op, damaged>>

-----------------------------------------------------------------------------

Library ==
  \/ \E p \in Profiles, a \in Artifacts, on \in BOOLEAN : SelectMod(p, a, on)
  \/ Activate
  \/ \E a \in Artifacts : AcceptArtifact(a) \/ CommitImport(a) \/ ImportFails(a)

Deletion ==
  \/ \E a \in Artifacts : DeleteArtifact(a) \/ DeleteRecord(a) \/ DeleteFails(a)
  \/ \E set \in SUBSET Artifacts : ApplyBulkDelete(set)
  \/ DeployWithout \/ DeployFails \/ RestoreSelections \/ Undone
  \/ CheckReceipt

Quarantining ==
  \/ \E q \in Quarantines : MakeQuarantine(q)
  \/ WriteJournal
  \/ \E a \in Artifacts : Move(a) \/ MoveBack(a)
  \/ DeleteRecords
  \/ QuarantineFails \/ MovedBack \/ MoveBackFails
  \/ RemoveQuarantine

Restart ==
  \/ Crash \/ TornCrash
  \/ \E q \in Quarantines : RecoverQuarantine(q) \/ RecoverPart(q)
  \/ FinishStart \/ StartAgain

Next == Library \/ Deletion \/ Quarantining \/ Restart

Spec == Init /\ [][Next]_vars

-----------------------------------------------------------------------------
(* Properties. *)

TypeOK ==
  /\ records \subseteq Artifacts
  /\ profiles \in [Profiles -> Profile]
  /\ receipt \subseteq Artifacts
  /\ stored \subseteq Artifacts
  /\ dirs \in [Quarantines -> Quarantine]
  /\ staged \subseteq Artifacts
  /\ up \in {"running", "starting", "failed", "stopped"}
  /\ op \in Operation
  /\ damaged \in BOOLEAN

\* Every mod a profile lists is in the library: deletions, replacements, crashes and
\* write-backs of old selections never leave a selection of a mod that is gone.
ReferencesResolve == Referenced \subseteq records

\* The files of a mod in the library are never destroyed: they are in the artifact
\* store, or in a directory in staging.
NothingLost ==
  \A a \in records :
    \/ a \in stored \cup staged
    \/ \E q \in Quarantines : a \in dirs[q].holds

\* The application never refuses to start after a crash between two steps of a bulk
\* deletion or of a replacement, however often that happens, and however often an
\* error ends the recovery half way (desktop.rs 7769-7834).
StartsUnlessDamaged == up = "failed" => damaged

\* While nothing is going on, a mod in the library has its files, or the loss was
\* reported: an interrupted bulk deletion has been undone.
RecordsHaveFiles == Free /\ ~damaged => records \subseteq stored

\* A mod with files in the game is deleted only when a new revision replaces it.
DeletesNothingDeployed ==
  [][\A a \in records \ records' : a \in receipt => SameMod[a] \cap records' # {}]_vars

\* "deployment failed; profile selections were restored and managed artifacts were
\* preserved" (desktop.rs 1657): when a bulk deletion gives up because its
\* deployment failed, the profiles select what they did before.
SelectionsRestored ==
  op.step = "undone" =>
    \A p \in Profiles : /\ profiles[p].listed = op.before[p].listed
                        /\ profiles[p].enabled = op.before[p].enabled

\* README.md 29: "startup recovery".  The application starts again after any crash.
StartsAgain == up # "failed"
=================================================================================
