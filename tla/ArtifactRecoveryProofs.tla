------------------------- MODULE ArtifactRecoveryProofs -------------------------
(***************************************************************************)
(* For every set of mods and profiles: crashes between two steps of a bulk *)
(* deletion or of a replacement never keep the application from starting,  *)
(* and no mod is deleted while its files are in the game.                  *)
(***************************************************************************)
EXTENDS ArtifactLibraryProofs

\* Mods that are being deleted have no files in the game, or a new revision.
RetiredSound ==
  /\ op.step \in {"deploy", "restore", "undone", "check"} => op.kind = "bulk"
  /\ op.step = "record" => op.set \cap receipt = {}
  /\ op.step \in {"mkdir", "journal", "move", "records"} =>
       \/ op.set \cap receipt = {}
       \/ /\ op.kind # "bulk"
          /\ \A a \in op.set : SameMod[a] \cap (records \ op.set) # {}

\* The steps of an operation that has a directory.
DirSteps == {"journal", "move", "records", "unmove", "remove"}

\* There is at most one directory, that of the operation under way or the one that a
\* crash left for the next start.
OneQuarantine ==
  /\ \A q \in Quarantines :
       dirs[q].made => up \in {"starting", "stopped"} \/ (op.step \in DirSteps /\ op.dir = q)
  /\ \A q, r \in Quarantines : dirs[q].made /\ dirs[r].made => q = r
  /\ \A q \in Quarantines : ~dirs[q].made => dirs[q] = NoQuarantine

\* Recovery would accept every directory.
NoneRefused == \A q \in Quarantines : dirs[q].made => ~Refused(dirs[q])

\* Where the files of the operation's mods are.
FilesSound ==
  /\ staged = {} \/ (op.step = "record" /\ staged = op.set)
  /\ op.step = "commit" => op.left \cap records = {}
  /\ op.step \in {"deploy", "restore", "undone", "check", "mkdir", "journal"} =>
       op.set \subseteq stored
  /\ op.step = "journal" => dirs[op.dir].journal = "none" /\ dirs[op.dir].lists = {}
  /\ op.step \in {"move", "records"} =>
       /\ dirs[op.dir].journal = "done"
       /\ dirs[op.dir].holds = op.set \ op.left
       /\ op.left \subseteq stored
       /\ dirs[op.dir].holds \cap stored = {}
  /\ op.step = "unmove" =>
       /\ dirs[op.dir].journal = "done"
       /\ dirs[op.dir].holds \cap stored = {}
       /\ dirs[op.dir].lists \subseteq dirs[op.dir].holds \cup stored

\* Unless recovery was put out of its depth, a start gets through.
CleanInv == ~damaged => up # "failed" /\ OneQuarantine /\ NoneRefused /\ FilesSound

\* With no operation under way and no directory in staging, every mod is in the store.
LEMMA AllInPlace ==
  ASSUME LibraryInv, OneQuarantine, FilesSound, op.step = "idle",
         \A q \in Quarantines : ~dirs[q].made
  PROVE  records \subseteq stored
<1>1. staged = {} /\ \A q \in Quarantines : dirs[q].holds = {}
  BY DEF LibraryInv, DirsSound, FilesSound
<1> QED
  BY <1>1 DEF LibraryInv, NothingLost

-----------------------------------------------------------------------------
(* RetiredSound and DeletesNothingDeployed. *)

\* The new revision is there when the old ones are to be deleted.
LEMMA CommitImportRetires ==
  ASSUME LibraryInv, RetiredSound, NEW a \in Artifacts, CommitImport(a)
  PROVE  RetiredSound'
<1> DEFINE old == records \cap SameMod[a]
<1>1. records' = records \cup {a} /\ (op' = Idle \/ op' = Do("supersede", "mkdir", old))
  BY DEF CommitImport
<1>2. \A b \in old : a \in SameMod[b] /\ a \notin old
  BY LibraryConstants
<1>3. \A b \in old : SameMod[b] \cap (records' \ old) # {}
  BY <1>1, <1>2
<1>4. CASE op' = Idle
  BY <1>4 DEF RetiredSound, Idle
<1>5. CASE op' = Do("supersede", "mkdir", old)
  <2>1. op'.step = "mkdir" /\ op'.kind = "supersede" /\ op'.set = old
    BY <1>5 DEF Do
  <2> HIDE DEF old
  <2> QED
    BY <1>3, <2>1 DEF RetiredSound
<1> QED
  BY <1>1, <1>4, <1>5

\* Whatever is deployed ends the deletion.
LEMMA CheckReceiptRetires ==
  ASSUME LibraryInv, RetiredSound, CheckReceipt
  PROVE  RetiredSound'
<1>1. receipt' = receipt /\ records' = records
  BY DEF CheckReceipt, disk
<1>2. CASE \E a \in op.set : Deployed(a)
  BY <1>1, <1>2 DEF RetiredSound, CheckReceipt, Idle
<1>3. CASE ~ \E a \in op.set : Deployed(a)
  <2>1. op.set \cap receipt = {}
    BY <1>3 DEF Deployed
  <2>2. op'.step = "mkdir" /\ op'.set = op.set
    BY <1>3 DEF CheckReceipt
  <2> QED
    BY <1>1, <2>1, <2>2 DEF RetiredSound
<1> QED
  BY <1>2, <1>3

\* RetiredSound is inductive, given LibraryInv.
LEMMA NextRetires ==
  ASSUME LibraryInv, RetiredSound, [Next]_vars
  PROVE  RetiredSound'
<1>1. CASE Library
  <2>1. ASSUME NEW p \in Profiles, NEW a \in Artifacts, NEW on \in BOOLEAN,
               SelectMod(p, a, on)
        PROVE  RetiredSound'
    BY <2>1 DEF RetiredSound, SelectMod
  <2>2. ASSUME Activate PROVE RetiredSound'
    BY <2>2 DEF RetiredSound, Activate, Free, Idle
  <2>3. ASSUME NEW a \in Artifacts, AcceptArtifact(a) PROVE RetiredSound'
    BY <2>3 DEF RetiredSound, AcceptArtifact, Do
  <2>4. ASSUME NEW a \in Artifacts, CommitImport(a) PROVE RetiredSound'
    BY <2>4, CommitImportRetires
  <2>5. ASSUME NEW a \in Artifacts, ImportFails(a) PROVE RetiredSound'
    BY <2>5 DEF RetiredSound, ImportFails, Idle
  <2> QED
    BY <1>1, <2>1, <2>2, <2>3, <2>4, <2>5 DEF Library
<1>2. CASE Deletion
  <2>1. ASSUME NEW a \in Artifacts, DeleteArtifact(a) PROVE RetiredSound'
    <3>1. {a} \cap receipt = {} /\ receipt' = receipt /\ op' = Do("delete", "record", {a})
      BY <2>1 DEF DeleteArtifact, Deployed
    <3> QED
      BY <3>1 DEF RetiredSound, Do
  <2>2. ASSUME NEW a \in Artifacts, DeleteRecord(a) PROVE RetiredSound'
    BY <2>2 DEF RetiredSound, DeleteRecord, Idle
  <2>3. ASSUME NEW a \in Artifacts, DeleteFails(a) PROVE RetiredSound'
    BY <2>3 DEF RetiredSound, DeleteFails, Idle
  <2>4. ASSUME NEW set \in SUBSET Artifacts, ApplyBulkDelete(set) PROVE RetiredSound'
    BY <2>4 DEF RetiredSound, ApplyBulkDelete, Do
  <2>5. ASSUME DeployWithout PROVE RetiredSound'
    BY <2>5 DEF RetiredSound, DeployWithout
  <2>6. ASSUME DeployFails PROVE RetiredSound'
    BY <2>6 DEF RetiredSound, DeployFails
  <2>7. ASSUME RestoreSelections PROVE RetiredSound'
    BY <2>7 DEF RetiredSound, RestoreSelections
  <2>8. ASSUME Undone PROVE RetiredSound'
    BY <2>8 DEF RetiredSound, Undone, Idle
  <2>9. ASSUME CheckReceipt PROVE RetiredSound'
    BY <2>9, CheckReceiptRetires
  <2> QED
    BY <1>2, <2>1, <2>2, <2>3, <2>4, <2>5, <2>6, <2>7, <2>8, <2>9 DEF Deletion
<1>3. CASE Quarantining
  <2>1. ASSUME NEW q \in Quarantines, MakeQuarantine(q) PROVE RetiredSound'
    BY <2>1 DEF RetiredSound, MakeQuarantine
  <2>2. ASSUME WriteJournal PROVE RetiredSound'
    BY <2>2 DEF RetiredSound, WriteJournal
  <2>3. ASSUME NEW a \in Artifacts, Move(a) PROVE RetiredSound'
    BY <2>3 DEF RetiredSound, Move
  <2>4. ASSUME NEW a \in Artifacts, MoveBack(a) PROVE RetiredSound'
    BY <2>4 DEF RetiredSound, MoveBack
  <2>5. ASSUME DeleteRecords PROVE RetiredSound'
    BY <2>5 DEF RetiredSound, DeleteRecords
  <2>6. ASSUME QuarantineFails PROVE RetiredSound'
    BY <2>6 DEF LibraryInv, TypeOK, RetiredSound, QuarantineFails, Idle, Operation
  <2>7. ASSUME MovedBack PROVE RetiredSound'
    BY <2>7 DEF LibraryInv, TypeOK, RetiredSound, MovedBack, Idle, Operation
  <2>8. ASSUME MoveBackFails PROVE RetiredSound'
    BY <2>8 DEF RetiredSound, MoveBackFails, Idle
  <2>9. ASSUME RemoveQuarantine PROVE RetiredSound'
    BY <2>9 DEF RetiredSound, RemoveQuarantine, Idle
  <2> QED
    BY <1>3, <2>1, <2>2, <2>3, <2>4, <2>5, <2>6, <2>7, <2>8, <2>9 DEF Quarantining
<1>4. CASE Restart
  <2>1. ASSUME Crash PROVE RetiredSound'
    BY <2>1 DEF RetiredSound, Crash, Idle
  <2>2. ASSUME TornCrash PROVE RetiredSound'
    BY <2>2 DEF RetiredSound, TornCrash, Idle
  <2>3. ASSUME NEW q \in Quarantines, RecoverQuarantine(q) PROVE RetiredSound'
    BY <2>3 DEF RetiredSound, RecoverQuarantine
  <2>4. ASSUME NEW q \in Quarantines, RecoverPart(q) PROVE RetiredSound'
    BY <2>4 DEF RetiredSound, RecoverPart
  <2>5. ASSUME FinishStart PROVE RetiredSound'
    BY <2>5 DEF RetiredSound, FinishStart, disk
  <2>6. ASSUME StartAgain PROVE RetiredSound'
    BY <2>6 DEF RetiredSound, StartAgain, disk
  <2> QED
    BY <1>4, <2>1, <2>2, <2>3, <2>4, <2>5, <2>6 DEF Restart
<1>5. CASE UNCHANGED vars
  BY <1>5 DEF vars, disk, RetiredSound
<1> QED
  BY <1>1, <1>2, <1>3, <1>4, <1>5 DEF Next

-----------------------------------------------------------------------------
(* CleanInv: first the steps on directories in staging and on what an operation holds, *)
(* one by one, and then all steps.                                                      *)

LEMMA AcceptArtifactRecovers ==
  ASSUME LibraryInv, CleanInv, NEW a \in Artifacts, AcceptArtifact(a)
  PROVE  CleanInv'
<1> SUFFICES ASSUME ~damaged'
             PROVE  (up # "failed" /\ OneQuarantine /\ NoneRefused /\ FilesSound)'
  BY DEF CleanInv
<1>1. ~damaged /\ up # "failed" /\ OneQuarantine /\ NoneRefused /\ FilesSound
  BY DEF CleanInv, AcceptArtifact
<1>2. (up # "failed" /\ OneQuarantine)'
  BY <1>1 DEF OneQuarantine, DirSteps, AcceptArtifact, Free, Idle
<1>3. NoneRefused'
  BY <1>1 DEF OneQuarantine, DirSteps, NoneRefused, AcceptArtifact, Free, Idle
<1>4. FilesSound'
  <2>1. records \subseteq stored
    BY <1>1, AllInPlace DEF OneQuarantine, DirSteps, AcceptArtifact, Free, Idle
  <2> QED
    BY <1>1, <2>1 DEF FilesSound, AcceptArtifact, Free, Do, Idle
<1> QED
  BY <1>2, <1>3, <1>4

LEMMA MakeQuarantineRecovers ==
  ASSUME LibraryInv, CleanInv, NEW q \in Quarantines, MakeQuarantine(q)
  PROVE  CleanInv'
<1> SUFFICES ASSUME ~damaged'
             PROVE  (up # "failed" /\ OneQuarantine /\ NoneRefused /\ FilesSound)'
  BY DEF CleanInv
<1>1. ~damaged /\ up # "failed" /\ OneQuarantine /\ NoneRefused /\ FilesSound
  BY DEF CleanInv, MakeQuarantine
<1>2. (up # "failed" /\ OneQuarantine)'
  <2>1. dirs'[q].made /\ op'.step = "journal" /\ op'.dir = q
    BY DEF LibraryInv, TypeOK, MakeQuarantine
  <2>2. \A r \in Quarantines : ~dirs[r].made /\ (r # q => dirs'[r] = dirs[r])
    BY <1>1 DEF LibraryInv, OneQuarantine, OpSound, DirSteps, MakeQuarantine
  <2> QED
    BY <1>1, <2>1, <2>2 DEF OneQuarantine, DirSteps, MakeQuarantine
<1>3. NoneRefused'
  BY <1>1 DEF OneQuarantine, NoneRefused, Refused, MakeQuarantine, NoQuarantine
<1>4. FilesSound'
  BY <1>1 DEF OneQuarantine, FilesSound, MakeQuarantine, NoQuarantine
<1> QED
  BY <1>2, <1>3, <1>4

LEMMA QuarantineFailsRecovers ==
  ASSUME LibraryInv, CleanInv, QuarantineFails
  PROVE  CleanInv'
<1> SUFFICES ASSUME ~damaged'
             PROVE  (up # "failed" /\ OneQuarantine /\ NoneRefused /\ FilesSound)'
  BY DEF CleanInv
<1>1. ~damaged /\ up # "failed" /\ OneQuarantine /\ NoneRefused /\ FilesSound
  BY DEF CleanInv, QuarantineFails
<1>2. (up # "failed" /\ OneQuarantine)'
  BY <1>1 DEF LibraryInv, TypeOK, Operation, OneQuarantine, DirSteps, QuarantineFails,
         disk
<1>3. NoneRefused'
  BY <1>1 DEF NoneRefused, Refused, QuarantineFails, disk
<1>4. FilesSound'
  <2>1. CASE op.step = "mkdir"
    BY <1>1, <2>1 DEF FilesSound, QuarantineFails, Idle, disk
  <2>2. CASE op.step = "journal"
    <3>1. op'.step = "remove"
      BY <2>2 DEF LibraryInv, TypeOK, Operation, QuarantineFails
    <3> QED
      BY <1>1, <2>2, <3>1 DEF FilesSound, QuarantineFails, disk
  <2>3. CASE op.step \in {"move", "records"}
    <3>1. op'.step = "unmove" /\ op'.dir = op.dir
      BY <2>3 DEF LibraryInv, TypeOK, Operation, QuarantineFails
    <3>2. dirs[op.dir].lists \subseteq dirs[op.dir].holds \cup stored
      BY <1>1, <2>3 DEF LibraryInv, OpSound, FilesSound
    <3> QED
      BY <1>1, <2>3, <3>1, <3>2 DEF FilesSound, QuarantineFails, disk
  <2> QED
    BY <2>1, <2>2, <2>3 DEF QuarantineFails
<1> QED
  BY <1>2, <1>3, <1>4

LEMMA MovedBackRecovers ==
  ASSUME LibraryInv, CleanInv, MovedBack
  PROVE  CleanInv'
<1> SUFFICES ASSUME ~damaged'
             PROVE  (up # "failed" /\ OneQuarantine /\ NoneRefused /\ FilesSound)'
  BY DEF CleanInv
<1>1. ~damaged /\ up # "failed" /\ OneQuarantine /\ NoneRefused /\ FilesSound
  BY DEF CleanInv, MovedBack
<1>2. (up # "failed" /\ OneQuarantine)'
  BY <1>1 DEF LibraryInv, TypeOK, Operation, OneQuarantine, DirSteps, MovedBack, disk
<1>3. NoneRefused'
  BY <1>1 DEF NoneRefused, Refused, MovedBack, disk
<1>4. FilesSound'
  BY <1>1 DEF LibraryInv, TypeOK, Operation, FilesSound, MovedBack, disk
<1> QED
  BY <1>2, <1>3, <1>4

LEMMA RemoveQuarantineRecovers ==
  ASSUME LibraryInv, CleanInv, RemoveQuarantine
  PROVE  CleanInv'
<1> SUFFICES ASSUME ~damaged'
             PROVE  (up # "failed" /\ OneQuarantine /\ NoneRefused /\ FilesSound)'
  BY DEF CleanInv
<1>1. ~damaged /\ up # "failed" /\ OneQuarantine /\ NoneRefused /\ FilesSound
  BY DEF CleanInv, RemoveQuarantine
<1>2. (up # "failed" /\ OneQuarantine)'
  <2>1. op.dir \in Quarantines /\ dirs' = [dirs EXCEPT ![op.dir] = NoQuarantine] /\ op' = Idle
    BY DEF LibraryInv, OpSound, RemoveQuarantine
  <2>2. \A q \in Quarantines : dirs'[q] = NoQuarantine
    BY <1>1, <2>1 DEF LibraryInv, TypeOK, OneQuarantine, OpSound, RemoveQuarantine
  <2>3. ~NoQuarantine.made
    BY DEF NoQuarantine
  <2> QED
    BY <1>1, <2>2, <2>3 DEF OneQuarantine, RemoveQuarantine
<1>3. NoneRefused'
  BY <1>1 DEF LibraryInv, TypeOK, NoneRefused, Refused, RemoveQuarantine, NoQuarantine
<1>4. FilesSound'
  BY <1>1 DEF FilesSound, RemoveQuarantine, Idle
<1> QED
  BY <1>2, <1>3, <1>4

LEMMA RecoverQuarantineRecovers ==
  ASSUME LibraryInv, CleanInv, NEW q \in Quarantines, RecoverQuarantine(q)
  PROVE  CleanInv'
<1> SUFFICES ASSUME ~damaged'
             PROVE  (up # "failed" /\ OneQuarantine /\ NoneRefused /\ FilesSound)'
  BY DEF CleanInv
<1>1. ~damaged /\ up # "failed" /\ OneQuarantine /\ NoneRefused /\ FilesSound
  BY DEF CleanInv, RecoverQuarantine
<1>2. (up # "failed" /\ OneQuarantine)'
  <2>1. \A s \in Quarantines : dirs'[s] = IF s = q THEN NoQuarantine ELSE dirs[s]
    BY DEF LibraryInv, TypeOK, RecoverQuarantine
  <2>2. ~NoQuarantine.made
    BY DEF NoQuarantine
  <2> QED
    BY <1>1, <2>1, <2>2 DEF OneQuarantine, RecoverQuarantine
<1>3. NoneRefused'
  BY <1>1 DEF LibraryInv, TypeOK, OneQuarantine, NoneRefused, RecoverQuarantine,
         NoQuarantine
<1>4. FilesSound'
  BY <1>1 DEF LibraryInv, OpSound, FilesSound, RecoverQuarantine
<1> QED
  BY <1>2, <1>3, <1>4

LEMMA RecoverPartRecovers ==
  ASSUME LibraryInv, CleanInv, NEW q \in Quarantines, RecoverPart(q)
  PROVE  CleanInv'
<1> SUFFICES ASSUME ~damaged'
             PROVE  (up # "failed" /\ OneQuarantine /\ NoneRefused /\ FilesSound)'
  BY DEF CleanInv
<1>1. ~damaged /\ up # "failed" /\ OneQuarantine /\ NoneRefused /\ FilesSound
  BY DEF CleanInv, RecoverPart
<1>2. (up # "failed" /\ OneQuarantine)'
  <2>1. ~Refused(dirs[q]) /\ up' \in {"starting", "stopped"} /\ op' = op
    BY <1>1 DEF NoneRefused, RecoverPart
  <2>2. \A s \in Quarantines : dirs'[s].made = dirs[s].made /\ (s # q => dirs'[s] = dirs[s])
    BY DEF RecoverPart
  <2>3. dirs[q].made
    BY DEF RecoverPart
  <2> QED
    BY <1>1, <2>1, <2>2, <2>3 DEF OneQuarantine
<1>3. NoneRefused'
  BY <1>1 DEF LibraryInv, TypeOK, OneQuarantine, NoneRefused, Refused, RecoverPart
<1>4. FilesSound'
  BY <1>1 DEF LibraryInv, OpSound, FilesSound, RecoverPart
<1> QED
  BY <1>2, <1>3, <1>4

LEMMA FinishStartRecovers ==
  ASSUME LibraryInv, CleanInv, FinishStart
  PROVE  CleanInv'
<1> SUFFICES ASSUME ~damaged'
             PROVE  (up # "failed" /\ OneQuarantine /\ NoneRefused /\ FilesSound)'
  BY DEF CleanInv
<1>1. ~damaged /\ up # "failed" /\ OneQuarantine /\ NoneRefused /\ FilesSound
  BY DEF CleanInv, FinishStart
<1>2. (up # "failed" /\ OneQuarantine)'
  <2>1. records \subseteq stored
    BY <1>1, AllInPlace DEF LibraryInv, OpSound, FinishStart
  <2> QED
    BY <1>1, <2>1 DEF OneQuarantine, FinishStart, disk
<1>3. NoneRefused'
  BY <1>1 DEF NoneRefused, FinishStart, disk
<1>4. FilesSound'
  BY <1>1 DEF FilesSound, FinishStart, disk
<1> QED
  BY <1>2, <1>3, <1>4

\* CleanInv is inductive, given LibraryInv.
LEMMA NextRecovers ==
  ASSUME LibraryInv, CleanInv, [Next]_vars
  PROVE  CleanInv'
<1>1. CASE Library
  <2>1. ASSUME NEW p \in Profiles, NEW a \in Artifacts, NEW on \in BOOLEAN,
               SelectMod(p, a, on)
        PROVE  CleanInv'
    BY <2>1 DEF CleanInv, OneQuarantine, NoneRefused, Refused, FilesSound, SelectMod
  <2>2. ASSUME Activate PROVE CleanInv'
    BY <2>2 DEF CleanInv, OneQuarantine, NoneRefused, Refused, FilesSound, Activate
  <2>3. ASSUME NEW a \in Artifacts, CommitImport(a) PROVE CleanInv'
    BY <2>3 DEF LibraryInv, OpSound, CleanInv, OneQuarantine, DirSteps, NoneRefused,
           FilesSound, CommitImport, Do, Idle
  <2>4. ASSUME NEW a \in Artifacts, ImportFails(a) PROVE CleanInv'
    BY <2>4 DEF CleanInv, OneQuarantine, DirSteps, NoneRefused, Refused, FilesSound,
           ImportFails, Idle
  <2> QED
    BY <1>1, <2>1, <2>2, AcceptArtifactRecovers, <2>3, <2>4 DEF Library
<1>2. CASE Deletion
  <2>1. ASSUME NEW a \in Artifacts, DeleteArtifact(a) PROVE CleanInv'
    BY <2>1 DEF CleanInv, OneQuarantine, DirSteps, NoneRefused, FilesSound,
           DeleteArtifact, Free, Do, Idle
  <2>2. ASSUME NEW a \in Artifacts, DeleteRecord(a) PROVE CleanInv'
    BY <2>2 DEF CleanInv, OneQuarantine, DirSteps, NoneRefused, Refused, FilesSound,
           DeleteRecord, Idle
  <2>3. ASSUME NEW a \in Artifacts, DeleteFails(a) PROVE CleanInv'
    BY <2>3 DEF LibraryInv, OpSound, CleanInv, OneQuarantine, DirSteps, NoneRefused,
           FilesSound, DeleteFails, Idle
  <2>4. ASSUME NEW set \in SUBSET Artifacts, ApplyBulkDelete(set) PROVE CleanInv'
    BY <2>4 DEF CleanInv, OneQuarantine, DirSteps, NoneRefused, FilesSound,
           ApplyBulkDelete, Free, Do, Idle, Deletable
  <2>5. ASSUME DeployWithout PROVE CleanInv'
    BY <2>5 DEF CleanInv, OneQuarantine, DirSteps, NoneRefused, Refused, FilesSound,
           DeployWithout
  <2>6. ASSUME DeployFails PROVE CleanInv'
    BY <2>6 DEF CleanInv, OneQuarantine, DirSteps, NoneRefused, Refused, FilesSound,
           DeployFails
  <2>7. ASSUME RestoreSelections PROVE CleanInv'
    BY <2>7 DEF CleanInv, OneQuarantine, DirSteps, NoneRefused, Refused, FilesSound,
           RestoreSelections
  <2>8. ASSUME Undone PROVE CleanInv'
    BY <2>8 DEF CleanInv, OneQuarantine, DirSteps, NoneRefused, Refused, FilesSound,
           Undone, Idle, disk
  <2>9. ASSUME CheckReceipt PROVE CleanInv'
    BY <2>9 DEF CleanInv, OneQuarantine, DirSteps, NoneRefused, Refused, FilesSound,
           CheckReceipt, Idle, disk
  <2> QED
    BY <1>2, <2>1, <2>2, <2>3, <2>4, <2>5, <2>6, <2>7, <2>8, <2>9 DEF Deletion
<1>3. CASE Quarantining
  <2>1. ASSUME WriteJournal PROVE CleanInv'
    BY <2>1 DEF LibraryInv, TypeOK, OpSound, CleanInv, OneQuarantine, DirSteps,
           NoneRefused, Refused, FilesSound, WriteJournal
  <2>2. ASSUME NEW a \in Artifacts, Move(a) PROVE CleanInv'
    BY <2>2 DEF LibraryInv, TypeOK, OpSound, CleanInv, OneQuarantine, DirSteps,
           NoneRefused, Refused, FilesSound, Move
  <2>3. ASSUME NEW a \in Artifacts, MoveBack(a) PROVE CleanInv'
    BY <2>3 DEF LibraryInv, TypeOK, OpSound, CleanInv, OneQuarantine, NoneRefused,
           Refused, FilesSound, MoveBack
  <2>4. ASSUME DeleteRecords PROVE CleanInv'
    BY <2>4 DEF CleanInv, OneQuarantine, DirSteps, NoneRefused, Refused, FilesSound,
           DeleteRecords
  <2>5. ASSUME MoveBackFails PROVE CleanInv'
    BY <2>5 DEF CleanInv, MoveBackFails
  <2> QED
    BY <1>3, MakeQuarantineRecovers, <2>1, <2>2, <2>3, <2>4, QuarantineFailsRecovers,
           MovedBackRecovers, <2>5, RemoveQuarantineRecovers DEF Quarantining
<1>4. CASE Restart
  <2>1. ASSUME Crash PROVE CleanInv'
    BY <2>1 DEF CleanInv, OneQuarantine, NoneRefused, Refused, FilesSound, Crash, Idle,
           disk
  <2>2. ASSUME TornCrash PROVE CleanInv'
    BY <2>2 DEF CleanInv, TornCrash
  <2>3. ASSUME StartAgain PROVE CleanInv'
    BY <2>3 DEF CleanInv, OneQuarantine, NoneRefused, Refused, FilesSound, StartAgain, disk
  <2> QED
    BY <1>4, <2>1, <2>2, RecoverQuarantineRecovers, RecoverPartRecovers,
           FinishStartRecovers, <2>3 DEF Restart
<1>5. CASE UNCHANGED vars
  BY <1>5 DEF vars, disk, CleanInv, OneQuarantine, NoneRefused, Refused, FilesSound
<1> QED
  BY <1>1, <1>2, <1>3, <1>4, <1>5 DEF Next

-----------------------------------------------------------------------------

\* Both hold at first.
LEMMA InitRecovers == ASSUME Init PROVE RetiredSound /\ CleanInv
<1>1. RetiredSound
  BY DEF Init, RetiredSound, Idle
<1>2. OneQuarantine /\ NoneRefused /\ FilesSound
  BY DEF Init, OneQuarantine, NoneRefused, FilesSound, Idle, NoQuarantine
<1> QED
  BY <1>1, <1>2 DEF Init, CleanInv

\* What leaves the table has left the game, or its new revision is in the table.
LEMMA NextDeletes ==
  ASSUME LibraryInv, RetiredSound, [Next]_vars
  PROVE  \A a \in records \ records' : a \in receipt => SameMod[a] \cap records' # {}
<1>1. CASE records \subseteq records'
  BY <1>1
<1>2. CASE \E a \in Artifacts : DeleteRecord(a)
  BY <1>2 DEF RetiredSound, DeleteRecord
<1>3. CASE DeleteRecords
  BY <1>3 DEF RetiredSound, DeleteRecords
<1>4. records \subseteq records' \/ (\E a \in Artifacts : DeleteRecord(a)) \/ DeleteRecords
  BY DEF Next, Library, Deletion, Quarantining, Restart, vars, disk, SelectMod,
         Activate, AcceptArtifact, CommitImport, ImportFails, DeleteArtifact,
         DeleteFails, ApplyBulkDelete, DeployWithout, DeployFails, RestoreSelections, Undone,
         CheckReceipt, MakeQuarantine, WriteJournal, Move, MoveBack, QuarantineFails, MovedBack,
         MoveBackFails, RemoveQuarantine, Crash, TornCrash, RecoverQuarantine,
         RecoverPart, FinishStart, StartAgain
<1> QED
  BY <1>1, <1>2, <1>3, <1>4

\* Both invariants rest on LibraryInv.
LEMMA RecoverySound == Spec => [](LibraryInv /\ RetiredSound /\ CleanInv)
  BY InitSound, NextSound, InitRecovers, NextRetires, NextRecovers, PTL DEF Spec

\* While nothing was damaged, a mod in the library has its files when nothing goes on.
LEMMA FilesInPlace == ASSUME LibraryInv, CleanInv PROVE RecordsHaveFiles
<1> SUFFICES ASSUME Free, ~damaged PROVE records \subseteq stored
  BY DEF RecordsHaveFiles
<1>1. OneQuarantine /\ FilesSound /\ op.step = "idle" /\ up = "running"
  BY DEF CleanInv, Free, Idle
<1>2. \A q \in Quarantines : ~dirs[q].made
  BY <1>1 DEF OneQuarantine, DirSteps
<1> QED
  BY <1>1, <1>2, AllInPlace

\* However often bulk deletions and replacements are interrupted between two steps, and
\* starts by errors, the next start refuses nothing it finds.
THEOREM StartsAfterCrashes == Spec => []StartsUnlessDamaged
<1>1. CleanInv => StartsUnlessDamaged
  BY DEF CleanInv, StartsUnlessDamaged
<1> QED
  BY <1>1, RecoverySound, PTL

\* Interrupted bulk deletions and replacements are undone or finished as a whole.
THEOREM FilesComeBack == Spec => []RecordsHaveFiles
  BY FilesInPlace, RecoverySound, PTL

\* Along every path through deletion and replacement, a mod leaves the library only
\* after its files left the game or its new revision has come.
THEOREM DeployedModsStay == Spec => DeletesNothingDeployed
  BY NextDeletes, RecoverySound, PTL DEF Spec, DeletesNothingDeployed
================================================================================
