-------------------------- MODULE ArtifactLibraryProofs --------------------------
(***************************************************************************)
(* For every set of mods and profiles, with any faults: profiles select    *)
(* only mods of the library, and the files of a mod of the library are     *)
(* never destroyed.                                                        *)
(***************************************************************************)
EXTENDS ArtifactLibrary, TLAPS

\* The profiles that a failed deployment writes back select only mods that are there.
BeforeResolves ==
  op.step \in {"deploy", "restore"} =>
    /\ op.before \in [Profiles -> Profile]
    /\ \A p \in Profiles : op.before[p].listed \subseteq records

\* A journal lists what its directory holds; a directory that is not there is empty.
DirsSound ==
  \A q \in Quarantines :
    /\ dirs[q].journal = "done" => dirs[q].holds \subseteq dirs[q].lists
    /\ ~dirs[q].made => dirs[q].holds = {}

\* Where an operation with a directory stands; none is under way during a start.
OpSound ==
  /\ up # "running" => op.step = "idle"
  /\ op.step \in {"journal", "move", "records", "unmove", "remove"} =>
       op.dir \in Quarantines /\ dirs[op.dir].made
  /\ op.step = "journal" => dirs[op.dir].holds = {}
  /\ op.step \in {"move", "records"} =>
       /\ op.left \subseteq op.set
       /\ dirs[op.dir].lists = op.set
       /\ dirs[op.dir].holds \subseteq op.set
  /\ op.step = "remove" => dirs[op.dir].holds \cap records = {}

\* What is being imported is in the store, and what would be removed again is kept
\* elsewhere if it belongs to the library.
ImportSound ==
  op.step = "commit" =>
    /\ op.set \subseteq stored
    /\ \A a \in op.left \cap records :
         a \in staged \/ \E q \in Quarantines : a \in dirs[q].holds

\* The inductive invariant.
LibraryInv ==
  /\ TypeOK
  /\ ReferencesResolve
  /\ BeforeResolves
  /\ DirsSound
  /\ OpSound
  /\ ImportSound
  /\ NothingLost

-----------------------------------------------------------------------------

\* Profiles stay profiles.
LEMMA UpdateTyped ==
  ASSUME NEW rows, NEW new, NEW which, rows = profiles,
         profiles \in [Profiles -> Profile], new \in [Profiles -> Profile],
         UpdateProfiles(which, new, Revision(rows))
  PROVE  /\ profiles' \in [Profiles -> Profile]
         /\ \A p \in Profiles :
              profiles'[p].listed = IF p \in which THEN new[p].listed ELSE profiles[p].listed
  BY DEF UpdateProfiles, Revision, Profile

\* So do they without some artifacts.
LEMMA WithoutTyped ==
  ASSUME NEW set \in SUBSET Artifacts, profiles \in [Profiles -> Profile]
  PROVE  /\ Without(profiles, set) \in [Profiles -> Profile]
         /\ \A p \in Profiles : Without(profiles, set)[p].listed = profiles[p].listed \ set
  BY DEF Without, Profile

\* A replacement adds the new revision at most.
LEMMA ReplacedTyped ==
  ASSUME NEW old \in SUBSET Artifacts, NEW a \in Artifacts, profiles \in [Profiles -> Profile]
  PROVE  /\ Replaced(profiles, old, a) \in [Profiles -> Profile]
         /\ \A p \in Profiles :
              Replaced(profiles, old, a)[p].listed \subseteq (profiles[p].listed \cup {a})
  BY DEF Replaced, Profile

\* Any outcome of a removal is a directory that holds no more than before.
LEMMA RemainsTyped ==
  ASSUME NEW d \in Quarantine, NEW r \in Remains(d)
  PROVE  /\ r \in Quarantine
         /\ r.made
         /\ r.holds \subseteq d.holds
         /\ r.journal = "done" => d.journal = "done" /\ r.lists = d.lists
  BY DEF Remains, Quarantine

-----------------------------------------------------------------------------
(* Each step preserves LibraryInv. *)

LEMMA SelectModSound ==
  ASSUME LibraryInv, NEW p \in Profiles, NEW a \in Artifacts, NEW on \in BOOLEAN,
         SelectMod(p, a, on)
  PROVE  LibraryInv'
<1>1. TypeOK'
  BY DEF LibraryInv, TypeOK, Profile, SelectMod
<1>2. ReferencesResolve'
  BY DEF LibraryInv, ReferencesResolve, Referenced, SelectMod
<1>3. BeforeResolves' /\ DirsSound' /\ OpSound' /\ ImportSound' /\ NothingLost'
  BY DEF LibraryInv, BeforeResolves, DirsSound, OpSound, ImportSound, NothingLost,
         SelectMod
<1> QED
  BY <1>1, <1>2, <1>3 DEF LibraryInv

LEMMA ActivateSound ==
  ASSUME LibraryInv, Activate
  PROVE  LibraryInv'
<1>1. TypeOK'
  BY DEF LibraryInv, TypeOK, Activate
<1>2. ReferencesResolve' /\ BeforeResolves' /\ DirsSound' /\ OpSound' /\ ImportSound' /\ NothingLost'
  BY DEF LibraryInv, ReferencesResolve, BeforeResolves, DirsSound, OpSound, ImportSound,
         NothingLost, Referenced, Activate
<1> QED
  BY <1>1, <1>2 DEF LibraryInv

LEMMA AcceptArtifactSound ==
  ASSUME LibraryInv, NEW a \in Artifacts, AcceptArtifact(a)
  PROVE  LibraryInv'
<1>1. TypeOK'
  BY DEF LibraryInv, TypeOK, Operation, Steps, AcceptArtifact, Do, Idle
<1>2. BeforeResolves'
  BY DEF LibraryInv, BeforeResolves, AcceptArtifact, Do
<1>3. OpSound'
  BY DEF LibraryInv, OpSound, AcceptArtifact, Free, Do
<1>4. ImportSound'
  BY DEF LibraryInv, ImportSound, NothingLost, AcceptArtifact, Do
<1>5. NothingLost'
  BY DEF LibraryInv, NothingLost, AcceptArtifact
<1>6. ReferencesResolve' /\ DirsSound'
  BY DEF LibraryInv, ReferencesResolve, DirsSound, Referenced, AcceptArtifact
<1> QED
  BY <1>1, <1>2, <1>3, <1>4, <1>5, <1>6 DEF LibraryInv

LEMMA CommitImportSound ==
  ASSUME LibraryInv, NEW a \in Artifacts, CommitImport(a)
  PROVE  LibraryInv'
<1>1. TypeOK'
  <2> DEFINE old == records \cap SameMod[a]
             new == Replaced(profiles, old, a)
  <2>1. old \in SUBSET Artifacts /\ profiles \in [Profiles -> Profile]
    BY DEF LibraryInv, TypeOK
  <2>2. new \in [Profiles -> Profile]
    BY <2>1, ReplacedTyped
  <2>3. UpdateProfiles(Changed(new), new, Revision(profiles))
    BY DEF CommitImport
  <2>4. profiles' \in [Profiles -> Profile]
    BY <2>1, <2>2, <2>3, UpdateTyped
  <2>5. op' \in Operation
    BY <2>1 DEF LibraryInv, TypeOK, Operation, Steps, CommitImport, Do, Idle
  <2> QED
    BY <2>4, <2>5 DEF LibraryInv, TypeOK, CommitImport
<1>2. ReferencesResolve'
  <2> DEFINE old == records \cap SameMod[a]
             new == Replaced(profiles, old, a)
  <2>1. old \in SUBSET Artifacts /\ profiles \in [Profiles -> Profile]
    BY DEF LibraryInv, TypeOK
  <2>2. /\ new \in [Profiles -> Profile]
        /\ \A p \in Profiles : new[p].listed \subseteq (profiles[p].listed \cup {a})
    BY <2>1, ReplacedTyped
  <2>3. UpdateProfiles(Changed(new), new, Revision(profiles))
    BY DEF CommitImport
  <2> HIDE DEF new
  <2>4. \A p \in Profiles : profiles'[p].listed \in {new[p].listed, profiles[p].listed}
    BY <2>1, <2>2, <2>3, UpdateTyped
  <2>5. \A p \in Profiles : profiles'[p].listed \subseteq (profiles[p].listed \cup {a})
    BY <2>2, <2>4
  <2> QED
    BY <2>5 DEF LibraryInv, ReferencesResolve, Referenced, CommitImport
<1>3. BeforeResolves'
  BY DEF LibraryInv, BeforeResolves, CommitImport, Do, Idle
<1>4. OpSound'
  BY DEF LibraryInv, OpSound, CommitImport, Do, Idle
<1>5. ImportSound'
  BY DEF LibraryInv, ImportSound, CommitImport, Do, Idle
<1>6. NothingLost'
  BY DEF LibraryInv, NothingLost, ImportSound, CommitImport
<1>7. DirsSound'
  BY DEF LibraryInv, DirsSound, CommitImport
<1> QED
  BY <1>1, <1>2, <1>3, <1>4, <1>5, <1>6, <1>7 DEF LibraryInv

LEMMA ImportFailsSound ==
  ASSUME LibraryInv, NEW a \in Artifacts, ImportFails(a)
  PROVE  LibraryInv'
<1>1. TypeOK'
  BY DEF LibraryInv, TypeOK, Operation, Steps, ImportFails, Idle
<1>2. BeforeResolves'
  BY DEF LibraryInv, BeforeResolves, ImportFails, Idle
<1>3. OpSound'
  BY DEF LibraryInv, OpSound, ImportFails, Idle
<1>4. ImportSound'
  BY DEF LibraryInv, ImportSound, ImportFails, Idle
<1>5. NothingLost'
  BY DEF LibraryInv, NothingLost, ImportSound, ImportFails
<1>6. ReferencesResolve' /\ DirsSound'
  BY DEF LibraryInv, ReferencesResolve, DirsSound, Referenced, ImportFails
<1> QED
  BY <1>1, <1>2, <1>3, <1>4, <1>5, <1>6 DEF LibraryInv

LEMMA DeleteArtifactSound ==
  ASSUME LibraryInv, NEW a \in Artifacts, DeleteArtifact(a)
  PROVE  LibraryInv'
<1>1. TypeOK'
  BY DEF LibraryInv, TypeOK, Operation, Steps, DeleteArtifact, Do, Idle
<1>2. BeforeResolves'
  BY DEF LibraryInv, BeforeResolves, DeleteArtifact, Do
<1>3. OpSound'
  BY DEF LibraryInv, OpSound, DeleteArtifact, Free, Do
<1>4. ImportSound'
  BY DEF LibraryInv, ImportSound, DeleteArtifact, Do
<1>5. NothingLost'
  BY DEF LibraryInv, NothingLost, DeleteArtifact
<1>6. ReferencesResolve' /\ DirsSound'
  BY DEF LibraryInv, ReferencesResolve, DirsSound, Referenced, DeleteArtifact
<1> QED
  BY <1>1, <1>2, <1>3, <1>4, <1>5, <1>6 DEF LibraryInv

LEMMA DeleteRecordSound ==
  ASSUME LibraryInv, NEW a \in Artifacts, DeleteRecord(a)
  PROVE  LibraryInv'
<1>1. TypeOK'
  <2> DEFINE new == Without(profiles, {a})
  <2>1. {a} \in SUBSET Artifacts /\ profiles \in [Profiles -> Profile]
    BY DEF LibraryInv, TypeOK
  <2>2. new \in [Profiles -> Profile]
    BY <2>1, WithoutTyped
  <2>3. UpdateProfiles(Changed(new), new, Revision(profiles))
    BY DEF DeleteRecord
  <2>4. profiles' \in [Profiles -> Profile]
    BY <2>1, <2>2, <2>3, UpdateTyped
  <2>5. op' \in Operation
    BY <2>1 DEF LibraryInv, TypeOK, Operation, Steps, DeleteRecord, Idle
  <2> QED
    BY <2>4, <2>5 DEF LibraryInv, TypeOK, DeleteRecord
<1>2. ReferencesResolve'
  <2> DEFINE new == Without(profiles, {a})
  <2>1. {a} \in SUBSET Artifacts /\ profiles \in [Profiles -> Profile]
    BY DEF LibraryInv, TypeOK
  <2>2. /\ new \in [Profiles -> Profile]
        /\ \A p \in Profiles : new[p].listed = profiles[p].listed \ {a}
    BY <2>1, WithoutTyped
  <2>3. UpdateProfiles(Changed(new), new, Revision(profiles))
    BY DEF DeleteRecord
  <2> HIDE DEF new
  <2>4. \A p \in Profiles : profiles'[p].listed = profiles[p].listed \ {a}
    BY <2>1, <2>2, <2>3, UpdateTyped DEF Changed
  <2> QED
    BY <2>4 DEF LibraryInv, ReferencesResolve, Referenced, DeleteRecord
<1>3. BeforeResolves'
  BY DEF LibraryInv, BeforeResolves, DeleteRecord, Idle
<1>4. OpSound'
  BY DEF LibraryInv, OpSound, DeleteRecord, Idle
<1>5. ImportSound'
  BY DEF LibraryInv, ImportSound, DeleteRecord, Idle
<1>6. NothingLost'
  BY DEF LibraryInv, NothingLost, DeleteRecord
<1>7. DirsSound'
  BY DEF LibraryInv, DirsSound, DeleteRecord
<1> QED
  BY <1>1, <1>2, <1>3, <1>4, <1>5, <1>6, <1>7 DEF LibraryInv

LEMMA DeleteFailsSound ==
  ASSUME LibraryInv, NEW a \in Artifacts, DeleteFails(a)
  PROVE  LibraryInv'
<1>1. TypeOK'
  BY DEF LibraryInv, TypeOK, Operation, Steps, DeleteFails, Idle
<1>2. BeforeResolves'
  BY DEF LibraryInv, BeforeResolves, DeleteFails, Idle
<1>3. OpSound'
  BY DEF LibraryInv, OpSound, DeleteFails, Idle
<1>4. ImportSound'
  BY DEF LibraryInv, ImportSound, DeleteFails, Idle
<1>5. NothingLost'
  BY DEF LibraryInv, NothingLost, DeleteFails
<1>6. ReferencesResolve' /\ DirsSound'
  BY DEF LibraryInv, ReferencesResolve, DirsSound, Referenced, DeleteFails
<1> QED
  BY <1>1, <1>2, <1>3, <1>4, <1>5, <1>6 DEF LibraryInv

LEMMA ApplyBulkDeleteSound ==
  ASSUME LibraryInv, NEW set \in SUBSET Artifacts, ApplyBulkDelete(set)
  PROVE  LibraryInv'
<1>1. TypeOK'
  <2> DEFINE new == Without(profiles, set)
  <2>1. set \in SUBSET Artifacts /\ profiles \in [Profiles -> Profile]
    BY DEF LibraryInv, TypeOK
  <2>2. new \in [Profiles -> Profile]
    BY <2>1, WithoutTyped
  <2>3. UpdateProfiles(Changed(new), new, Revision(profiles))
    BY DEF ApplyBulkDelete
  <2>4. profiles' \in [Profiles -> Profile]
    BY <2>1, <2>2, <2>3, UpdateTyped
  <2>5. op' \in Operation
    BY <2>1 DEF LibraryInv, TypeOK, Operation, Steps, ApplyBulkDelete, Free, Do, Idle
  <2> QED
    BY <2>4, <2>5 DEF LibraryInv, TypeOK, ApplyBulkDelete
<1>2. ReferencesResolve'
  <2> DEFINE new == Without(profiles, set)
  <2>1. set \in SUBSET Artifacts /\ profiles \in [Profiles -> Profile]
    BY DEF LibraryInv, TypeOK
  <2>2. /\ new \in [Profiles -> Profile]
        /\ \A p \in Profiles : new[p].listed = profiles[p].listed \ set
    BY <2>1, WithoutTyped
  <2>3. UpdateProfiles(Changed(new), new, Revision(profiles))
    BY DEF ApplyBulkDelete
  <2> HIDE DEF new
  <2>4. \A p \in Profiles : profiles'[p].listed = profiles[p].listed \ set
    BY <2>1, <2>2, <2>3, UpdateTyped DEF Changed
  <2> QED
    BY <2>4 DEF LibraryInv, ReferencesResolve, Referenced, ApplyBulkDelete
<1>3. BeforeResolves'
  BY DEF LibraryInv, TypeOK, ReferencesResolve, BeforeResolves, Referenced,
         ApplyBulkDelete, Do, Idle
<1>4. OpSound'
  BY DEF LibraryInv, OpSound, ApplyBulkDelete, Free, Do, Idle
<1>5. ImportSound'
  BY DEF LibraryInv, ImportSound, ApplyBulkDelete, Do, Idle
<1>6. DirsSound' /\ NothingLost'
  BY DEF LibraryInv, DirsSound, NothingLost, ApplyBulkDelete
<1> QED
  BY <1>1, <1>2, <1>3, <1>4, <1>5, <1>6 DEF LibraryInv

LEMMA DeployWithoutSound ==
  ASSUME LibraryInv, DeployWithout
  PROVE  LibraryInv'
<1>1. TypeOK'
  BY LibraryConstants DEF LibraryInv, TypeOK, Profile, Operation, Steps, DeployWithout
<1>2. BeforeResolves'
  BY DEF LibraryInv, BeforeResolves, DeployWithout
<1>3. OpSound'
  BY DEF LibraryInv, OpSound, DeployWithout
<1>4. ImportSound'
  BY DEF LibraryInv, ImportSound, DeployWithout
<1>5. ReferencesResolve' /\ DirsSound' /\ NothingLost'
  BY DEF LibraryInv, ReferencesResolve, DirsSound, NothingLost, Referenced, DeployWithout
<1> QED
  BY <1>1, <1>2, <1>3, <1>4, <1>5 DEF LibraryInv

LEMMA DeployFailsSound ==
  ASSUME LibraryInv, DeployFails
  PROVE  LibraryInv'
<1>1. TypeOK'
  BY LibraryConstants DEF LibraryInv, TypeOK, Profile, Operation, Steps, DeployFails
<1>2. BeforeResolves'
  BY DEF LibraryInv, BeforeResolves, DeployFails
<1>3. OpSound'
  BY DEF LibraryInv, OpSound, DeployFails
<1>4. ImportSound'
  BY DEF LibraryInv, ImportSound, DeployFails
<1>5. ReferencesResolve' /\ DirsSound' /\ NothingLost'
  BY DEF LibraryInv, ReferencesResolve, DirsSound, NothingLost, Referenced, DeployFails
<1> QED
  BY <1>1, <1>2, <1>3, <1>4, <1>5 DEF LibraryInv

LEMMA RestoreSelectionsSound ==
  ASSUME LibraryInv, RestoreSelections
  PROVE  LibraryInv'
<1>1. TypeOK'
  <2>1. op.before \in [Profiles -> Profile] /\ profiles \in [Profiles -> Profile]
    BY DEF LibraryInv, TypeOK, BeforeResolves, RestoreSelections
  <2>2. profiles' \in [Profiles -> Profile]
    BY <2>1, UpdateTyped DEF RestoreSelections
  <2>3. op' \in Operation
    BY DEF LibraryInv, TypeOK, Operation, Steps, RestoreSelections
  <2> QED
    BY <2>2, <2>3 DEF LibraryInv, TypeOK, RestoreSelections
<1>2. ReferencesResolve'
  <2>1. op.before \in [Profiles -> Profile] /\ profiles \in [Profiles -> Profile]
    BY DEF LibraryInv, TypeOK, BeforeResolves, RestoreSelections
  <2>2. \A p \in Profiles : profiles'[p].listed \in {op.before[p].listed, profiles[p].listed}
    BY <2>1, UpdateTyped DEF RestoreSelections
  <2> QED
    BY <2>2 DEF LibraryInv, ReferencesResolve, Referenced, BeforeResolves,
           RestoreSelections
<1>3. BeforeResolves'
  BY DEF LibraryInv, BeforeResolves, RestoreSelections
<1>4. OpSound'
  BY DEF LibraryInv, OpSound, RestoreSelections
<1>5. ImportSound'
  BY DEF LibraryInv, ImportSound, RestoreSelections
<1>6. DirsSound' /\ NothingLost'
  BY DEF LibraryInv, DirsSound, NothingLost, RestoreSelections
<1> QED
  BY <1>1, <1>2, <1>3, <1>4, <1>5, <1>6 DEF LibraryInv

LEMMA UndoneSound ==
  ASSUME LibraryInv, Undone
  PROVE  LibraryInv'
<1>1. TypeOK'
  BY DEF LibraryInv, TypeOK, Operation, Steps, Undone, Idle, disk
<1>2. BeforeResolves'
  BY DEF LibraryInv, BeforeResolves, Undone, Idle
<1>3. OpSound'
  BY DEF LibraryInv, OpSound, Undone, Idle
<1>4. ImportSound'
  BY DEF LibraryInv, ImportSound, Undone, Idle
<1>5. ReferencesResolve' /\ DirsSound' /\ NothingLost'
  BY DEF LibraryInv, ReferencesResolve, DirsSound, NothingLost, Referenced, Undone, disk
<1> QED
  BY <1>1, <1>2, <1>3, <1>4, <1>5 DEF LibraryInv

LEMMA CheckReceiptSound ==
  ASSUME LibraryInv, CheckReceipt
  PROVE  LibraryInv'
<1>1. TypeOK'
  BY DEF LibraryInv, TypeOK, Operation, Steps, CheckReceipt, Idle, disk
<1>2. BeforeResolves'
  BY DEF LibraryInv, BeforeResolves, CheckReceipt, Idle
<1>3. OpSound'
  BY DEF LibraryInv, OpSound, CheckReceipt, Idle
<1>4. ImportSound'
  BY DEF LibraryInv, ImportSound, CheckReceipt, Idle
<1>5. ReferencesResolve' /\ DirsSound' /\ NothingLost'
  BY DEF LibraryInv, ReferencesResolve, DirsSound, NothingLost, Referenced, CheckReceipt,
         disk
<1> QED
  BY <1>1, <1>2, <1>3, <1>4, <1>5 DEF LibraryInv

LEMMA MakeQuarantineSound ==
  ASSUME LibraryInv, NEW q \in Quarantines, MakeQuarantine(q)
  PROVE  LibraryInv'
<1>1. TypeOK'
  <2>1. op' \in Operation
    BY DEF LibraryInv, TypeOK, Operation, Steps, MakeQuarantine
  <2>2. q \in Quarantines /\ dirs[q] \in Quarantine
    BY DEF LibraryInv, TypeOK, OpSound, MakeQuarantine
  <2>3. [dirs[q] EXCEPT !.made = TRUE] \in Quarantine
    BY <2>2 DEF LibraryInv, TypeOK, OpSound, Operation, Quarantine, MakeQuarantine
  <2>4. dirs' = [dirs EXCEPT ![q] = [dirs[q] EXCEPT !.made = TRUE]]
    BY <2>2 DEF LibraryInv, TypeOK, MakeQuarantine
  <2>5. dirs' \in [Quarantines -> Quarantine]
    BY <2>2, <2>3, <2>4 DEF LibraryInv, TypeOK
  <2> QED
    BY <2>1, <2>5 DEF LibraryInv, TypeOK, MakeQuarantine
<1>2. BeforeResolves'
  BY DEF LibraryInv, BeforeResolves, MakeQuarantine
<1>3. DirsSound'
  BY DEF LibraryInv, DirsSound, MakeQuarantine
<1>4. OpSound'
  BY DEF LibraryInv, OpSound, DirsSound, TypeOK, MakeQuarantine
<1>5. ImportSound'
  BY DEF LibraryInv, ImportSound, MakeQuarantine
<1>6. NothingLost'
  BY DEF LibraryInv, NothingLost, MakeQuarantine
<1>7. ReferencesResolve'
  BY DEF LibraryInv, ReferencesResolve, Referenced, MakeQuarantine
<1> QED
  BY <1>1, <1>2, <1>3, <1>4, <1>5, <1>6, <1>7 DEF LibraryInv

LEMMA WriteJournalSound ==
  ASSUME LibraryInv, WriteJournal
  PROVE  LibraryInv'
<1>1. TypeOK'
  <2>1. op' \in Operation
    BY DEF LibraryInv, TypeOK, Operation, Steps, WriteJournal
  <2>2. op.dir \in Quarantines /\ dirs[op.dir] \in Quarantine
    BY DEF LibraryInv, TypeOK, OpSound, WriteJournal
  <2>3. [dirs[op.dir] EXCEPT !.journal = "done", !.lists = op.set] \in Quarantine
    BY <2>2 DEF LibraryInv, TypeOK, OpSound, Operation, Quarantine, WriteJournal
  <2>4. dirs' = [dirs EXCEPT ![op.dir] = [dirs[op.dir] EXCEPT !.journal = "done", !.lists = op.set]]
    BY <2>2 DEF LibraryInv, TypeOK, WriteJournal
  <2>5. dirs' \in [Quarantines -> Quarantine]
    BY <2>2, <2>3, <2>4 DEF LibraryInv, TypeOK
  <2> QED
    BY <2>1, <2>5 DEF LibraryInv, TypeOK, WriteJournal
<1>2. BeforeResolves'
  BY DEF LibraryInv, BeforeResolves, WriteJournal
<1>3. DirsSound'
  BY DEF LibraryInv, DirsSound, OpSound, TypeOK, WriteJournal
<1>4. OpSound'
  BY DEF LibraryInv, OpSound, TypeOK, WriteJournal
<1>5. ImportSound'
  BY DEF LibraryInv, ImportSound, WriteJournal
<1>6. NothingLost'
  BY DEF LibraryInv, NothingLost, TypeOK, WriteJournal
<1>7. ReferencesResolve'
  BY DEF LibraryInv, ReferencesResolve, Referenced, WriteJournal
<1> QED
  BY <1>1, <1>2, <1>3, <1>4, <1>5, <1>6, <1>7 DEF LibraryInv

LEMMA MoveSound ==
  ASSUME LibraryInv, NEW a \in Artifacts, Move(a)
  PROVE  LibraryInv'
<1>1. TypeOK'
  <2>1. op' \in Operation
    BY DEF LibraryInv, TypeOK, Operation, Steps, Move
  <2>2. op.dir \in Quarantines /\ dirs[op.dir] \in Quarantine
    BY DEF LibraryInv, TypeOK, OpSound, Move
  <2>3. [dirs[op.dir] EXCEPT !.holds = @ \cup {a}] \in Quarantine
    BY <2>2 DEF LibraryInv, TypeOK, OpSound, Operation, Quarantine, Move
  <2>4. dirs' = [dirs EXCEPT ![op.dir] = [dirs[op.dir] EXCEPT !.holds = @ \cup {a}]]
    BY <2>2 DEF LibraryInv, TypeOK, Move
  <2>5. dirs' \in [Quarantines -> Quarantine]
    BY <2>2, <2>3, <2>4 DEF LibraryInv, TypeOK
  <2> QED
    BY <2>1, <2>5 DEF LibraryInv, TypeOK, Move
<1>2. BeforeResolves'
  BY DEF LibraryInv, BeforeResolves, Move
<1>3. DirsSound'
  <2>1. /\ op.dir \in Quarantines
        /\ dirs[op.dir] \in Quarantine
        /\ dirs[op.dir].lists = op.set
        /\ a \in op.set
    BY DEF LibraryInv, TypeOK, OpSound, Move
  <2>2. dirs' = [dirs EXCEPT ![op.dir] = [dirs[op.dir] EXCEPT !.holds = @ \cup {a}]]
    BY DEF LibraryInv, TypeOK, Move
  <2>3. dirs[op.dir].made
    BY DEF LibraryInv, OpSound, Move
  <2> QED
    BY <2>1, <2>2, <2>3 DEF LibraryInv, TypeOK, DirsSound, Quarantine
<1>4. OpSound'
  BY DEF LibraryInv, OpSound, Move
<1>5. ImportSound'
  BY DEF LibraryInv, ImportSound, Move
<1>6. NothingLost'
  BY DEF LibraryInv, NothingLost, OpSound, TypeOK, Move
<1>7. ReferencesResolve'
  BY DEF LibraryInv, ReferencesResolve, Referenced, Move
<1> QED
  BY <1>1, <1>2, <1>3, <1>4, <1>5, <1>6, <1>7 DEF LibraryInv

LEMMA MoveBackSound ==
  ASSUME LibraryInv, NEW a \in Artifacts, MoveBack(a)
  PROVE  LibraryInv'
<1>1. TypeOK'
  <2>1. op' \in Operation
    BY DEF LibraryInv, TypeOK, Operation, Steps, MoveBack
  <2>2. op.dir \in Quarantines /\ dirs[op.dir] \in Quarantine
    BY DEF LibraryInv, TypeOK, OpSound, MoveBack
  <2>3. [dirs[op.dir] EXCEPT !.holds = @ \ {a}] \in Quarantine
    BY <2>2 DEF LibraryInv, TypeOK, OpSound, Operation, Quarantine, MoveBack
  <2>4. dirs' = [dirs EXCEPT ![op.dir] = [dirs[op.dir] EXCEPT !.holds = @ \ {a}]]
    BY <2>2 DEF LibraryInv, TypeOK, MoveBack
  <2>5. dirs' \in [Quarantines -> Quarantine]
    BY <2>2, <2>3, <2>4 DEF LibraryInv, TypeOK
  <2> QED
    BY <2>1, <2>5 DEF LibraryInv, TypeOK, MoveBack
<1>2. DirsSound'
  BY DEF LibraryInv, DirsSound, MoveBack
<1>3. OpSound'
  BY DEF LibraryInv, OpSound, MoveBack
<1>4. ImportSound'
  BY DEF LibraryInv, ImportSound, MoveBack
<1>5. NothingLost'
  BY DEF LibraryInv, NothingLost, MoveBack
<1>6. ReferencesResolve' /\ BeforeResolves'
  BY DEF LibraryInv, ReferencesResolve, BeforeResolves, Referenced, MoveBack
<1> QED
  BY <1>1, <1>2, <1>3, <1>4, <1>5, <1>6 DEF LibraryInv

LEMMA DeleteRecordsSound ==
  ASSUME LibraryInv, DeleteRecords
  PROVE  LibraryInv'
<1>1. TypeOK'
  BY DEF LibraryInv, TypeOK, Operation, Steps, DeleteRecords
<1>2. ReferencesResolve'
  BY DEF LibraryInv, ReferencesResolve, Referenced, DeleteRecords
<1>3. BeforeResolves'
  BY DEF LibraryInv, BeforeResolves, DeleteRecords
<1>4. OpSound'
  BY DEF LibraryInv, OpSound, DeleteRecords
<1>5. ImportSound'
  BY DEF LibraryInv, ImportSound, DeleteRecords
<1>6. NothingLost'
  BY DEF LibraryInv, NothingLost, DeleteRecords
<1>7. DirsSound'
  BY DEF LibraryInv, DirsSound, DeleteRecords
<1> QED
  BY <1>1, <1>2, <1>3, <1>4, <1>5, <1>6, <1>7 DEF LibraryInv

LEMMA QuarantineFailsSound ==
  ASSUME LibraryInv, QuarantineFails
  PROVE  LibraryInv'
<1>1. TypeOK'
  BY DEF LibraryInv, TypeOK, Operation, Steps, QuarantineFails, Idle, disk
<1>2. BeforeResolves'
  BY DEF LibraryInv, BeforeResolves, TypeOK, Operation, QuarantineFails, Idle
<1>3. OpSound'
  BY DEF LibraryInv, OpSound, TypeOK, Operation, QuarantineFails, Idle, disk
<1>4. ImportSound'
  BY DEF LibraryInv, ImportSound, TypeOK, Operation, QuarantineFails, Idle
<1>5. ReferencesResolve' /\ DirsSound' /\ NothingLost'
  BY DEF LibraryInv, ReferencesResolve, DirsSound, NothingLost, Referenced,
         QuarantineFails, disk
<1> QED
  BY <1>1, <1>2, <1>3, <1>4, <1>5 DEF LibraryInv

LEMMA MovedBackSound ==
  ASSUME LibraryInv, MovedBack
  PROVE  LibraryInv'
<1>1. TypeOK'
  <2>1. op' \in Operation
    BY DEF LibraryInv, TypeOK, Operation, Steps, MovedBack, Idle, disk
  <2>2. dirs' \in [Quarantines -> Quarantine]
    BY DEF LibraryInv, TypeOK, Operation, Quarantine, MovedBack, Idle, disk
  <2> QED
    BY <2>1, <2>2 DEF LibraryInv, TypeOK, MovedBack, Idle, disk
<1>2. BeforeResolves'
  BY DEF LibraryInv, BeforeResolves, TypeOK, Operation, MovedBack, Idle
<1>3. OpSound'
  BY DEF LibraryInv, OpSound, TypeOK, Operation, MovedBack, Idle, disk
<1>4. ImportSound'
  BY DEF LibraryInv, ImportSound, TypeOK, Operation, MovedBack, Idle
<1>5. ReferencesResolve' /\ DirsSound' /\ NothingLost'
  BY DEF LibraryInv, ReferencesResolve, DirsSound, NothingLost, Referenced, MovedBack,
         disk
<1> QED
  BY <1>1, <1>2, <1>3, <1>4, <1>5 DEF LibraryInv

LEMMA MoveBackFailsSound ==
  ASSUME LibraryInv, MoveBackFails
  PROVE  LibraryInv'
<1>1. TypeOK'
  BY DEF LibraryInv, TypeOK, Operation, Steps, MoveBackFails, Idle, disk
<1>2. BeforeResolves'
  BY DEF LibraryInv, BeforeResolves, MoveBackFails, Idle
<1>3. OpSound'
  BY DEF LibraryInv, OpSound, MoveBackFails, Idle
<1>4. ImportSound'
  BY DEF LibraryInv, ImportSound, MoveBackFails, Idle
<1>5. ReferencesResolve' /\ DirsSound' /\ NothingLost'
  BY DEF LibraryInv, ReferencesResolve, DirsSound, NothingLost, Referenced, MoveBackFails,
         disk
<1> QED
  BY <1>1, <1>2, <1>3, <1>4, <1>5 DEF LibraryInv

LEMMA RemoveQuarantineSound ==
  ASSUME LibraryInv, RemoveQuarantine
  PROVE  LibraryInv'
<1>1. TypeOK'
  <2>1. op' \in Operation
    BY DEF LibraryInv, TypeOK, Operation, Steps, RemoveQuarantine, Idle
  <2>2. op.dir \in Quarantines /\ dirs[op.dir] \in Quarantine
    BY DEF LibraryInv, TypeOK, OpSound, RemoveQuarantine
  <2>3. PICK r \in Quarantine : dirs' = [dirs EXCEPT ![op.dir] = r]
    BY <2>2, RemainsTyped DEF RemoveQuarantine, NoQuarantine, Quarantine
  <2>4. dirs' \in [Quarantines -> Quarantine]
    BY <2>2, <2>3 DEF LibraryInv, TypeOK
  <2> QED
    BY <2>1, <2>4 DEF LibraryInv, TypeOK, RemoveQuarantine
<1>2. BeforeResolves'
  BY DEF LibraryInv, BeforeResolves, RemoveQuarantine, Idle
<1>3. DirsSound'
  BY RemainsTyped DEF LibraryInv, TypeOK, DirsSound, OpSound, Quarantine, NoQuarantine,
         RemoveQuarantine, Idle
<1>4. OpSound'
  BY DEF LibraryInv, OpSound, RemoveQuarantine, Idle
<1>5. ImportSound'
  BY DEF LibraryInv, ImportSound, RemoveQuarantine, Idle
<1>6. NothingLost'
  BY RemainsTyped DEF LibraryInv, TypeOK, NothingLost, OpSound, NoQuarantine,
         RemoveQuarantine, Idle
<1>7. ReferencesResolve'
  BY DEF LibraryInv, ReferencesResolve, Referenced, RemoveQuarantine
<1> QED
  BY <1>1, <1>2, <1>3, <1>4, <1>5, <1>6, <1>7 DEF LibraryInv

LEMMA CrashSound ==
  ASSUME LibraryInv, Crash
  PROVE  LibraryInv'
<1>1. TypeOK'
  BY DEF LibraryInv, TypeOK, Operation, Steps, Crash, Idle, disk
<1>2. BeforeResolves'
  BY DEF LibraryInv, BeforeResolves, Crash, Idle
<1>3. OpSound'
  BY DEF LibraryInv, OpSound, Crash, Idle
<1>4. ImportSound'
  BY DEF LibraryInv, ImportSound, Crash, Idle
<1>5. ReferencesResolve' /\ DirsSound' /\ NothingLost'
  BY DEF LibraryInv, ReferencesResolve, DirsSound, NothingLost, Referenced, Crash, disk
<1> QED
  BY <1>1, <1>2, <1>3, <1>4, <1>5 DEF LibraryInv

LEMMA TornCrashSound ==
  ASSUME LibraryInv, TornCrash
  PROVE  LibraryInv'
<1>1. TypeOK'
  <2>1. op' \in Operation
    BY DEF LibraryInv, TypeOK, Operation, Steps, TornCrash, Idle
  <2>2. dirs' \in [Quarantines -> Quarantine]
    BY RemainsTyped DEF LibraryInv, TypeOK, OpSound, Operation, Quarantine, NoQuarantine,
           TornCrash, Idle
  <2> QED
    BY <2>1, <2>2 DEF LibraryInv, TypeOK, TornCrash, Idle
<1>2. BeforeResolves'
  BY DEF LibraryInv, BeforeResolves, TornCrash, Idle
<1>3. DirsSound'
  BY RemainsTyped DEF LibraryInv, TypeOK, DirsSound, OpSound, Quarantine, NoQuarantine,
         TornCrash, Idle
<1>4. OpSound'
  BY DEF LibraryInv, OpSound, TornCrash, Idle
<1>5. ImportSound'
  BY DEF LibraryInv, ImportSound, TornCrash, Idle
<1>6. NothingLost'
  BY RemainsTyped DEF LibraryInv, TypeOK, NothingLost, OpSound, NoQuarantine, TornCrash,
         Idle
<1>7. ReferencesResolve'
  BY DEF LibraryInv, ReferencesResolve, Referenced, TornCrash
<1> QED
  BY <1>1, <1>2, <1>3, <1>4, <1>5, <1>6, <1>7 DEF LibraryInv

LEMMA RecoverDirs ==
  ASSUME LibraryInv, NEW q \in Quarantines, RecoverQuarantine(q)
  PROVE  dirs' \in [Quarantines -> Quarantine] /\ DirsSound'
<1> DEFINE e == [dirs[q] EXCEPT !.holds = @ \ Restorable(dirs[q])]
<1>1. /\ e \in Quarantine
      /\ e.journal = "done" => e.holds \subseteq e.lists
  BY DEF LibraryInv, TypeOK, DirsSound, Quarantine
<1>2. dirs \in [Quarantines -> Quarantine] /\ DirsSound
  BY DEF LibraryInv, TypeOK
<1>3. CASE dirs' = [dirs EXCEPT ![q] = NoQuarantine]
  <2>1. /\ NoQuarantine \in Quarantine
        /\ NoQuarantine.journal # "done"
        /\ NoQuarantine.holds = {}
    BY DEF NoQuarantine, Quarantine
  <2>2. dirs' \in [Quarantines -> Quarantine]
    BY <1>2, <1>3, <2>1
  <2>3. \A s \in Quarantines : dirs'[s] = IF s = q THEN NoQuarantine ELSE dirs[s]
    BY <1>2, <1>3
  <2> QED
    BY <1>2, <2>1, <2>2, <2>3 DEF DirsSound
<1>4. CASE \E r \in Remains(e) : dirs' = [dirs EXCEPT ![q] = r]
  <2>1. PICK r \in Remains(e) : dirs' = [dirs EXCEPT ![q] = r]
    BY <1>4
  <2> HIDE DEF e
  <2>2. /\ r \in Quarantine
        /\ r.made
        /\ r.journal = "done" => r.holds \subseteq r.lists
    BY <1>1, RemainsTyped
  <2>3. dirs' \in [Quarantines -> Quarantine]
    BY <1>2, <2>1, <2>2
  <2>4. \A s \in Quarantines : dirs'[s] = IF s = q THEN r ELSE dirs[s]
    BY <1>2, <2>1
  <2> QED
    BY <1>2, <2>2, <2>3, <2>4 DEF DirsSound
<1> QED
  BY <1>3, <1>4 DEF RecoverQuarantine

LEMMA RecoverQuarantineSound ==
  ASSUME LibraryInv, NEW q \in Quarantines, RecoverQuarantine(q)
  PROVE  LibraryInv'
<1>1. TypeOK'
  <2>1. stored' \subseteq Artifacts
    BY DEF LibraryInv, TypeOK, RecoverQuarantine, Restorable
  <2>2. dirs' \in [Quarantines -> Quarantine]
    BY RecoverDirs
  <2> QED
    BY <2>1, <2>2 DEF LibraryInv, TypeOK, RecoverQuarantine
<1>2. DirsSound'
  BY RecoverDirs
<1>3. OpSound'
  BY DEF LibraryInv, TypeOK, OpSound, RecoverQuarantine
<1>4. ImportSound'
  BY DEF LibraryInv, OpSound, ImportSound, RecoverQuarantine
<1>5. NothingLost'
  BY DEF LibraryInv, NothingLost, DirsSound, TypeOK, Quarantine, RecoverQuarantine,
         Restorable, Refused
<1>6. ReferencesResolve' /\ BeforeResolves'
  BY DEF LibraryInv, ReferencesResolve, BeforeResolves, Referenced, RecoverQuarantine
<1> QED
  BY <1>1, <1>2, <1>3, <1>4, <1>5, <1>6 DEF LibraryInv

LEMMA RecoverPartSound ==
  ASSUME LibraryInv, NEW q \in Quarantines, RecoverPart(q)
  PROVE  LibraryInv'
<1>1. TypeOK'
  <2>1. PICK part \in SUBSET Restorable(dirs[q]) :
          /\ stored' = stored \cup part
          /\ dirs' = [dirs EXCEPT ![q].holds = @ \ part]
    BY DEF RecoverPart
  <2>2. [dirs[q] EXCEPT !.holds = @ \ part] \in Quarantine
    BY DEF LibraryInv, TypeOK, Quarantine
  <2>3. dirs' \in [Quarantines -> Quarantine]
    BY <2>1, <2>2 DEF LibraryInv, TypeOK
  <2>4. stored' \subseteq Artifacts
    BY <2>1 DEF LibraryInv, TypeOK, Restorable
  <2> QED
    BY <2>3, <2>4 DEF LibraryInv, TypeOK, RecoverPart
<1>2. DirsSound'
  BY DEF LibraryInv, DirsSound, RecoverPart
<1>3. OpSound'
  BY DEF LibraryInv, TypeOK, OpSound, RecoverPart
<1>4. ImportSound'
  BY DEF LibraryInv, OpSound, ImportSound, RecoverPart
<1>5. NothingLost'
  BY DEF LibraryInv, NothingLost, RecoverPart
<1>6. ReferencesResolve' /\ BeforeResolves'
  BY DEF LibraryInv, ReferencesResolve, BeforeResolves, Referenced, RecoverPart
<1> QED
  BY <1>1, <1>2, <1>3, <1>4, <1>5, <1>6 DEF LibraryInv

LEMMA FinishStartSound ==
  ASSUME LibraryInv, FinishStart
  PROVE  LibraryInv'
<1>1. TypeOK'
  BY DEF LibraryInv, TypeOK, FinishStart, disk
<1>2. OpSound'
  BY DEF LibraryInv, OpSound, FinishStart
<1>3. ReferencesResolve' /\ BeforeResolves' /\ DirsSound' /\ ImportSound' /\ NothingLost'
  BY DEF LibraryInv, ReferencesResolve, BeforeResolves, DirsSound, ImportSound,
         NothingLost, Referenced, FinishStart, disk
<1> QED
  BY <1>1, <1>2, <1>3 DEF LibraryInv

LEMMA StartAgainSound ==
  ASSUME LibraryInv, StartAgain
  PROVE  LibraryInv'
<1>1. TypeOK'
  BY DEF LibraryInv, TypeOK, StartAgain, disk
<1>2. OpSound'
  BY DEF LibraryInv, OpSound, StartAgain
<1>3. ReferencesResolve' /\ BeforeResolves' /\ DirsSound' /\ ImportSound' /\ NothingLost'
  BY DEF LibraryInv, ReferencesResolve, BeforeResolves, DirsSound, ImportSound,
         NothingLost, Referenced, StartAgain, disk
<1> QED
  BY <1>1, <1>2, <1>3 DEF LibraryInv
-----------------------------------------------------------------------------

\* LibraryInv holds at first.
LEMMA InitSound == ASSUME Init PROVE LibraryInv
<1>1. TypeOK
  BY LibraryConstants DEF Init, TypeOK, Profile, Quarantine, NoQuarantine, Operation,
        Idle, Steps
<1> QED
  BY <1>1 DEF Init, LibraryInv, ReferencesResolve, Referenced, BeforeResolves, DirsSound,
              OpSound, ImportSound, NothingLost, NoQuarantine, Idle

\* Every step preserves it.
LEMMA NextSound == ASSUME LibraryInv, [Next]_vars PROVE LibraryInv'
<1>1. CASE Library
  BY <1>1, SelectModSound, ActivateSound, AcceptArtifactSound, CommitImportSound,
        ImportFailsSound DEF Library
<1>2. CASE Deletion
  BY <1>2, DeleteArtifactSound, DeleteRecordSound, DeleteFailsSound,
        ApplyBulkDeleteSound, DeployWithoutSound, DeployFailsSound,
        RestoreSelectionsSound, UndoneSound, CheckReceiptSound DEF Deletion
<1>3. CASE Quarantining
  BY <1>3, MakeQuarantineSound, WriteJournalSound, MoveSound, MoveBackSound,
        DeleteRecordsSound, QuarantineFailsSound, MovedBackSound, MoveBackFailsSound,
        RemoveQuarantineSound DEF Quarantining
<1>4. CASE Restart
  BY <1>4, CrashSound, TornCrashSound, RecoverQuarantineSound, RecoverPartSound,
        FinishStartSound, StartAgainSound DEF Restart
<1>5. CASE UNCHANGED vars
  BY <1>5 DEF vars, disk, LibraryInv, TypeOK, ReferencesResolve, Referenced, BeforeResolves,
              DirsSound, OpSound, ImportSound, NothingLost
<1> QED
  BY <1>1, <1>2, <1>3, <1>4, <1>5 DEF Next

\* LibraryInv is inductive.
LEMMA LibrarySound == Spec => []LibraryInv
  BY InitSound, NextSound, PTL DEF Spec

\* Every variable keeps its type.
THEOREM LibraryTypes == Spec => []TypeOK
  BY LibrarySound, PTL DEF LibraryInv

\* No deletion, replacement, write-back or crash leaves a profile with a mod that is
\* not in the library.
THEOREM ReferencesAlwaysResolve == Spec => []ReferencesResolve
  BY LibrarySound, PTL DEF LibraryInv

\* No failure, however often and wherever it strikes, destroys the files of a mod
\* that is in the library.
THEOREM NothingIsLost == Spec => []NothingLost
  BY LibrarySound, PTL DEF LibraryInv
================================================================================
