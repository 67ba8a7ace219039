---------------------------- MODULE RecoveryProofs ----------------------------
(***************************************************************************)
(* Proofs about what a journal left behind finds in the game: where each   *)
(* file of an interrupted activation can be, that recovery gets past its   *)
(* checks, and that the user's files are in the game or in a backup.       *)
(* Where a receipt is replaced in two renames the code can get stuck in    *)
(* recovery and lose a file of the user; both theorems are about the other *)
(* platform.  The first also leaves out a commit marker that is created    *)
(* and then reported as failed, which can get it stuck too.                *)
(***************************************************************************)
EXTENDS SwitchProofs

----------------------------------------------------------------------------
(* Where the files are                                                     *)

\* The file at p is as before its change, as after it, or set aside.
AtPrev(p) ==
  /\ live[p] = tx.change[p].prev
  /\ tx.change[p].kind = "remove" => sib[p].old = Absent

AtNext(p) ==
  /\ live[p] = tx.change[p].next
  /\ tx.change[p].kind = "remove" => sib[p].old = tx.change[p].prev

SetAside(p) == live[p] = Absent /\ p \in BackupPaths(tx)

\* The worker is at the changes of the transaction, or past them.
Applying ==
  ~undoing /\ pc \in HoldLabels \cup {"apply", "receipt", "receipt_in", "marker"}

Copied == {"create", "replace_managed", "replace_unmanaged"}

\* The file in hand and its siblings, at each step of a change or a restoration.
InHand(p) ==
  /\ pc \in {"place", "swap", "placed"} => tx.change[p].kind \in Copied
  /\ pc \in {"place", "swap"} => sib[p].new = tx.change[p].next
  /\ pc = "place" => AtPrev(p)
  /\ pc = "swap" => SetAside(p) /\ sib[p].old = tx.change[p].prev
  /\ pc = "placed" => AtNext(p)
  /\ pc \in RestoreLabels => p \in BackupPaths(tx)
  /\ pc \in {"restore", "restore_out"} /\ ~undoing => AtPrev(p)
  /\ pc \in {"restore_out", "restore_in"} => sib[p].restore = RestoreContent(p)
  /\ pc = "restore_in" =>
       /\ sib[p].displaced \in {Absent, tx.change[p].prev, tx.change[p].next}
       /\ SetAside(p)
  /\ pc = "restore_done" => live[p] = RestoreContent(p)

Position(p) ==
  /\ AtPrev(p) \/ AtNext(p) \/ SetAside(p)
  /\ Applying /\ p \in todo \ cur => AtPrev(p)
  /\ Applying /\ p \notin todo => AtNext(p)
  /\ p \in cur => InHand(p)

\* While a journal is complete on disk, every file it names that the user left
\* alone is where the worker's step says; after the commit it is the new one.
FilesInv ==
  /\ journal # "durable" => \A p \in Paths : sib[p].old = Absent
  /\ journal = "durable" =>
       \A p \in ChangedPaths(tx) \ edited :
         IF marker THEN live[p] = tx.change[p].next ELSE Position(p)

\* A path keeps its position when it is not touched.
LEMMA PositionFrame ==
  ASSUME NEW p \in Paths, Position(p), UNCHANGED tx,
         live'[p] = live[p], sib'[p] = sib[p], p \notin cur \cup cur',
         Applying' => Applying /\ (p \in todo' <=> p \in todo)
  PROVE  Position(p)'
  BY DEF Position, AtPrev, AtNext, SetAside, BackupPaths

\* A step of a transaction that is not committed, with at most one path in hand.
OnePath(p) ==
  /\ journal = "durable" /\ ~marker
  /\ UNCHANGED <<journal, marker, tx, edited>>
  /\ \A q \in Paths \ {p} : live'[q] = live[q] /\ sib'[q] = sib[q]
  /\ cur \cup cur' \subseteq {p}
  /\ Applying' => Applying /\ todo' \in {todo, todo \ {p}}

\* Such a step leaves the other paths where they are.
LEMMA OnePathKeeps ==
  ASSUME FilesInv, NEW p \in Paths, OnePath(p), p \notin edited => Position(p)'
  PROVE  FilesInv'
<1>1. ASSUME NEW q \in ChangedPaths(tx) \ edited, q # p
      PROVE  Position(q)'
  <2>1. q \in Paths /\ Position(q)
    BY <1>1 DEF FilesInv, OnePath, ChangedPaths
  <2> QED
    BY <1>1, <2>1, PositionFrame DEF OnePath
<1> QED
  BY <1>1 DEF FilesInv, OnePath, ChangedPaths

\* A step that moves no file and has none in hand keeps the positions.
LEMMA StillKeeps ==
  ASSUME FilesInv, WorkerInv, UNCHANGED <<live, sib>>, cur' = {},
         (journal' = "durable") = (journal = "durable"),
         journal = "durable" => UNCHANGED <<tx, edited, marker>>,
         Applying' => Applying /\ cur = {} /\ todo' = todo
  PROVE  FilesInv'
<1>1. ASSUME journal = "durable", ~marker, NEW p \in ChangedPaths(tx) \ edited
      PROVE  Position(p)'
  <2>1. p \in Paths /\ Position(p)
    BY <1>1 DEF FilesInv, ChangedPaths
  <2> QED
    BY <1>1, <2>1 DEF Position, AtPrev, AtNext, SetAside, BackupPaths
<1> QED
  BY <1>1 DEF FilesInv, ChangedPaths

RecoveryIInv == SwitchIInv /\ FilesInv

\* What is known of a path about to be worked on.
LEMMA AtWork ==
  ASSUME SwitchIInv, FilesInv, NEW p \in todo \cup cur,
         pc \in HoldLabels \cup {"apply", "undo"}
  PROVE  /\ p \in ChangedPaths(tx) /\ p \in Paths
         /\ journal = "durable" /\ ~marker
         /\ SoundKind(tx, p) /\ tx.change[p].kind \in Kinds
         /\ p \notin edited => Position(p)
<1>1. p \in ChangedPaths(tx) /\ journal = "durable"
  BY DEF SwitchIInv, RollbackIInv, PhaseInv, JournaledLabels, Labels, HoldLabels, RestoreLabels
<1>2. ~marker
  BY DEF SwitchIInv, CommitInv, HoldLabels, RestoreLabels
<1> QED
  BY <1>1, <1>2, PlanFields
     DEF SwitchIInv, RollbackIInv, TypeOK, WorkerInv, ChangesInv, SoundChanges, FilesInv,
         ChangedPaths

\* A removal, or the first step of a copy or a restoration, keeps the positions.
LEMMA StartKeeps ==
  ASSUME RecoveryIInv, NEW p \in Paths, Quarantine(p) \/ CopyNew(p) \/ StartRestore(p)
  PROVE  FilesInv'
<1>0. TypeOK /\ FilesInv /\ WorkerInv
  BY DEF RecoveryIInv, SwitchIInv, RollbackIInv
<1>1. pc = "apply" /\ p \in todo /\ cur = {} /\ UNCHANGED <<journal, marker, tx, edited, undoing>>
  BY <1>0 DEF Quarantine, CopyNew, StartRestore, MayChange, Continue, Hold, disk, WorkerInv,
            HoldLabels, RestoreLabels
<1>2. /\ p \in ChangedPaths(tx) /\ journal = "durable" /\ ~marker /\ SoundKind(tx, p)
      /\ p \notin edited => AtPrev(p)
      /\ ~undoing
  BY <1>0, <1>1, AtWork DEF RecoveryIInv, Position, Applying, WorkerInv, RollbackLabels,
                            RestoreLabels, HoldLabels
<1>3. CASE Quarantine(p)
  <2>1. /\ live'[p] = Absent /\ sib'[p].old = live[p]
        /\ \A q \in Paths \ {p} : live'[q] = live[q] /\ sib'[q] = sib[q]
    BY <1>0, <1>3, MoveAsideEffect DEF Quarantine, Slots
  <2>2. pc' = "apply" /\ todo' = todo \ {p} /\ cur' = {} /\ tx.change[p].kind = "remove"
    BY <1>3 DEF Quarantine, Continue
  <2>3. p \notin edited => AtNext(p)'
    BY <1>1, <1>2, <2>1, <2>2 DEF AtPrev, AtNext, SoundKind
  <2>4. OnePath(p)
    BY <1>1, <1>2, <2>1, <2>2 DEF OnePath, Applying
  <2> QED
    BY <1>0, <2>2, <2>3, <2>4, OnePathKeeps DEF Position
<1>4. CASE CopyNew(p)
  <2>1. /\ live' = live /\ sib'[p].new = tx.change[p].next /\ sib'[p].old = sib[p].old
        /\ \A q \in Paths \ {p} : sib'[q] = sib[q]
    BY <1>0, <1>4 DEF CopyNew, SetSib, TypeOK, Slots
  <2>2. pc' = "place" /\ todo' = todo /\ cur' = {p} /\ tx.change[p].kind \in Copied
    BY <1>4 DEF CopyNew, Hold, Copied
  <2>3. p \notin edited => AtPrev(p)'
    BY <1>1, <1>2, <2>1 DEF AtPrev
  <2>4. OnePath(p)
    BY <1>1, <1>2, <2>1, <2>2 DEF OnePath, Applying, HoldLabels
  <2> QED
    BY <1>0, <1>1, <2>1, <2>2, <2>3, <2>4, OnePathKeeps DEF Position, InHand, RestoreLabels
<1>5. CASE StartRestore(p)
  <2>1. live' = live /\ sib' = sib /\ tx.change[p].kind = "restore"
        /\ pc' = "restore" /\ todo' = todo /\ cur' = {p}
    BY <1>5 DEF StartRestore, Hold, disk
  <2>2. p \notin edited => AtPrev(p)'
    BY <1>1, <1>2, <2>1 DEF AtPrev
  <2>3. p \in BackupPaths(tx)'
    BY <1>1, <2>1 DEF BackupPaths
  <2>4. OnePath(p)
    BY <1>1, <1>2, <2>1 DEF OnePath, Applying, HoldLabels, RestoreLabels
  <2> QED
    BY <1>0, <1>1, <2>1, <2>2, <2>3, <2>4, OnePathKeeps DEF Position, InHand, RestoreLabels
<1> QED
  BY <1>3, <1>4, <1>5

\* So does putting a copied file into place, or failing to.
LEMMA PlaceKeeps ==
  ASSUME RecoveryIInv, NEW p \in Paths,
         LinkNew(p) \/ SwapOut(p) \/ SwapIn(p) \/ SwapInFails(p) \/ PlaceDone(p)
  PROVE  FilesInv'
<1>0. TypeOK /\ FilesInv /\ WorkerInv
  BY DEF RecoveryIInv, SwitchIInv, RollbackIInv
<1>1. /\ pc \in {"place", "swap", "placed"} /\ p \in cur
      /\ UNCHANGED <<journal, marker, tx, edited>>
  BY DEF LinkNew, SwapOut, SwapIn, SwapInFails, PlaceDone
<1>2. /\ p \in ChangedPaths(tx) /\ journal = "durable" /\ ~marker /\ SoundKind(tx, p)
      /\ p \notin edited => InHand(p)
      /\ ~undoing /\ cur = {p} /\ Applying
  BY <1>0, <1>1, AtWork DEF RecoveryIInv, Position, Applying, WorkerInv, RollbackLabels,
                            RestoreLabels, HoldLabels
<1>3. ASSUME p \notin edited
      PROVE  tx.change[p].kind \in Copied
             /\ (tx.change[p].kind # "create" => p \in BackupPaths(tx)')
  BY <1>1, <1>2, <1>3 DEF InHand, Copied, BackupPaths, ChangedPaths
<1>4. CASE LinkNew(p)
  <2>1. /\ live'[p] = sib[p].new /\ sib' = sib
        /\ \A q \in Paths \ {p} : live'[q] = live[q]
        /\ pc = "place" /\ pc' = "placed" /\ todo' = todo /\ cur' = {p}
    BY <1>0, <1>4 DEF LinkNew, Hold, TypeOK
  <2>2. p \notin edited => AtNext(p)'
    BY <1>1, <1>2, <1>3, <2>1 DEF InHand, AtNext, Copied
  <2>3. OnePath(p)
    BY <1>1, <1>2, <2>1 DEF OnePath
  <2> QED
    BY <1>0, <1>1, <1>3, <2>1, <2>2, <2>3, OnePathKeeps DEF Position, InHand, RestoreLabels
<1>5. CASE SwapOut(p)
  <2>1. /\ live'[p] = Absent /\ sib'[p].old = live[p] /\ sib'[p].new = sib[p].new
        /\ \A q \in Paths \ {p} : live'[q] = live[q] /\ sib'[q] = sib[q]
    BY <1>0, <1>5, MoveAsideEffect DEF SwapOut, Slots
  <2>2. /\ pc = "place" /\ pc' = "swap" /\ todo' = todo /\ cur' = {p}
        /\ tx.change[p].kind # "create"
    BY <1>5 DEF SwapOut, Hold
  <2>3. OnePath(p)
    BY <1>1, <1>2, <2>1, <2>2 DEF OnePath
  <2>4. p \notin edited => SetAside(p)' /\ InHand(p)'
    BY <1>1, <1>2, <1>3, <2>1, <2>2 DEF SetAside, InHand, AtPrev, Copied, RestoreLabels
  <2> QED
    BY <1>0, <1>2, <2>2, <2>3, <2>4, OnePathKeeps DEF Position, WorkerInv
<1>6. CASE SwapIn(p)
  <2>1. /\ live'[p] = sib[p].new
        /\ \A q \in Paths \ {p} : live'[q] = live[q] /\ sib'[q] = sib[q]
    BY <1>0, <1>6, MoveInEffect DEF SwapIn, Slots
  <2>2. pc = "swap" /\ pc' = "placed" /\ todo' = todo /\ cur' = {p}
    BY <1>6 DEF SwapIn, Hold
  <2>3. OnePath(p)
    BY <1>1, <1>2, <2>1, <2>2 DEF OnePath
  <2>4. p \notin edited => AtNext(p)'
    BY <1>1, <1>2, <1>3, <2>1, <2>2 DEF InHand, AtNext, Copied
  <2> QED
    BY <1>0, <1>1, <1>2, <1>3, <2>2, <2>3, <2>4, OnePathKeeps
       DEF Position, InHand, RestoreLabels, WorkerInv
<1>7. CASE SwapInFails(p)
  <2>1. /\ live'[p] = sib[p].old
        /\ \A q \in Paths \ {p} : live'[q] = live[q] /\ sib'[q] = sib[q]
    BY <1>0, <1>7 DEF SwapInFails, TypeOK, Slots
  <2>2. pc = "swap" /\ pc' = "preflight" /\ cur' = {} /\ undoing' = TRUE
    BY <1>7 DEF SwapInFails, StartRollback
  <2>3. OnePath(p)
    BY <1>1, <1>2, <2>1, <2>2 DEF OnePath, Applying
  <2>4. p \notin edited => AtPrev(p)'
    BY <1>1, <1>2, <1>3, <2>1, <2>2 DEF InHand, AtPrev, Copied
  <2> QED
    BY <1>0, <2>2, <2>3, <2>4, OnePathKeeps DEF Position, Applying
<1>8. CASE PlaceDone(p)
  <2>1. live' = live /\ \A q \in Paths \ {p} : sib'[q] = sib[q]
    BY <1>0, <1>8 DEF PlaceDone, TypeOK, Slots
  <2>2. pc = "placed" /\ pc' = "apply" /\ todo' = todo \ {p} /\ cur' = {}
    BY <1>8 DEF PlaceDone, Continue
  <2>3. OnePath(p)
    BY <1>1, <1>2, <2>1, <2>2 DEF OnePath
  <2>4. p \notin edited => AtNext(p)'
    BY <1>1, <1>2, <1>3, <2>1, <2>2 DEF InHand, AtNext, Copied
  <2> QED
    BY <1>0, <2>2, <2>3, <2>4, OnePathKeeps DEF Position
<1> QED
  BY <1>4, <1>5, <1>6, <1>7, <1>8

\* So does each step of restore_file, for a change or in a rollback.
LEMMA RestoreKeeps ==
  ASSUME RecoveryIInv, NEW p \in Paths,
         RestoreCopy(p) \/ RestoreOut(p) \/ RestoreIn(p) \/ RestoreInFails(p) \/ RestoreDone(p)
  PROVE  FilesInv'
<1>0. TypeOK /\ FilesInv /\ WorkerInv
  BY DEF RecoveryIInv, SwitchIInv, RollbackIInv
<1>1. /\ pc \in RestoreLabels /\ p \in cur
      /\ UNCHANGED <<journal, marker, tx, edited>>
  BY DEF RestoreCopy, RestoreOut, RestoreIn, RestoreInFails, RestoreDone, RestoreLabels
<1>2. /\ p \in ChangedPaths(tx) /\ journal = "durable" /\ ~marker /\ SoundKind(tx, p)
      /\ p \notin edited => Position(p) /\ InHand(p)
      /\ cur = {p} /\ (~undoing => Applying)
  BY <1>0, <1>1, AtWork DEF RecoveryIInv, Position, Applying, WorkerInv, HoldLabels
<1>3. ASSUME p \notin edited
      PROVE  /\ p \in BackupPaths(tx) /\ p \in BackupPaths(tx)'
             /\ tx.change[p].kind # "remove"
             /\ live[p] \in {Absent, tx.change[p].prev, tx.change[p].next}
  BY <1>1, <1>2, <1>3 DEF InHand, BackupPaths, Position, AtPrev, AtNext, SetAside
<1>4. CASE RestoreCopy(p)
  <2>1. /\ live' = live /\ sib'[p].restore = RestoreContent(p) /\ sib'[p].old = sib[p].old
        /\ \A q \in Paths \ {p} : sib'[q] = sib[q]
    BY <1>0, <1>4, RestoreCopyEffect
  <2>2. /\ pc = "restore" /\ pc' = "restore_out" /\ UNCHANGED <<todo, undoing>> /\ cur' = {p}
    BY <1>4 DEF RestoreCopy, Hold
  <2>3. OnePath(p)
    BY <1>1, <1>2, <2>1, <2>2 DEF OnePath, Applying, HoldLabels, RestoreLabels
  <2>4. p \notin edited => InHand(p)'
    BY <1>1, <1>2, <1>3, <2>1, <2>2
       DEF InHand, AtPrev, RestoreContent, RestoreLabels
  <2>5. p \notin edited => (AtPrev(p) \/ AtNext(p) \/ SetAside(p))'
    BY <1>1, <1>2, <1>3, <2>1 DEF Position, AtPrev, AtNext, SetAside
  <2> QED
    BY <1>0, <1>2, <2>2, <2>3, <2>4, <2>5, OnePathKeeps DEF Position, WorkerInv
<1>5. CASE RestoreOut(p)
  <2>1. /\ live'[p] = Absent /\ sib'[p].displaced = live[p] /\ sib'[p].restore = sib[p].restore
        /\ \A q \in Paths \ {p} : live'[q] = live[q] /\ sib'[q] = sib[q]
    BY <1>0, <1>5, MoveAsideEffect DEF RestoreOut, Slots
  <2>2. pc = "restore_out" /\ pc' = "restore_in" /\ UNCHANGED <<todo, undoing>> /\ cur' = {p}
    BY <1>5 DEF RestoreOut, Hold
  <2>3. OnePath(p)
    BY <1>1, <1>2, <2>1, <2>2 DEF OnePath, Applying, HoldLabels, RestoreLabels
  <2>4. p \notin edited => SetAside(p)' /\ InHand(p)'
    BY <1>1, <1>2, <1>3, <2>1, <2>2
       DEF InHand, SetAside, RestoreContent, RestoreLabels
  <2> QED
    BY <1>0, <1>2, <2>2, <2>3, <2>4, OnePathKeeps DEF Position, WorkerInv
<1>6. CASE RestoreIn(p)
  <2>1. /\ live'[p] = sib[p].restore
        /\ \A q \in Paths \ {p} : live'[q] = live[q] /\ sib'[q] = sib[q]
    BY <1>0, <1>6, MoveInEffect DEF RestoreIn, Slots
  <2>2. pc = "restore_in" /\ pc' = "restore_done" /\ UNCHANGED <<todo, undoing>> /\ cur' = {p}
    BY <1>6 DEF RestoreIn, Hold
  <2>3. OnePath(p)
    BY <1>1, <1>2, <2>1, <2>2 DEF OnePath, Applying, HoldLabels, RestoreLabels
  <2>4. p \notin edited => live'[p] = RestoreContent(p) /\ RestoreContent(p)' = RestoreContent(p)
    BY <1>1, <1>2, <2>1, <2>2 DEF InHand, RestoreContent
  <2>5. p \notin edited => InHand(p)'
    BY <1>3, <2>2, <2>4 DEF InHand, RestoreLabels
  <2>6. p \notin edited => (AtPrev(p) \/ AtNext(p))'
    BY <1>1, <1>3, <2>4 DEF AtPrev, AtNext, RestoreContent
  <2> QED
    BY <1>0, <1>2, <2>2, <2>3, <2>5, <2>6, OnePathKeeps DEF Position, WorkerInv
<1>7. CASE RestoreInFails(p)
  <2>1. /\ live'[p] = sib[p].displaced
        /\ \A q \in Paths \ {p} : live'[q] = live[q] /\ sib'[q] = sib[q]
    BY <1>0, <1>7, MoveInEffect DEF RestoreInFails, Slots
  <2>2. pc = "restore_in" /\ pc' \in {"idle", "preflight"} /\ cur' = {}
    BY <1>7 DEF RestoreInFails, Release, StartRollback
  <2>3. OnePath(p)
    BY <1>1, <1>2, <2>1, <2>2 DEF OnePath, Applying, HoldLabels, RestoreLabels
  <2>4. p \notin edited => (AtPrev(p) \/ AtNext(p) \/ SetAside(p))'
    BY <1>1, <1>2, <1>3, <2>1, <2>2 DEF InHand, AtPrev, AtNext, SetAside
  <2> QED
    BY <1>0, <2>2, <2>3, <2>4, OnePathKeeps DEF Position, Applying, HoldLabels, RestoreLabels
<1>8. CASE RestoreDone(p)
  <2>1. live' = live /\ \A q \in Paths \ {p} : sib'[q] = sib[q]
    BY <1>0, <1>8, RestoreDoneEffect
  <2>2. /\ pc = "restore_done" /\ todo' = todo \ {p} /\ cur' = {} /\ undoing' = undoing
        /\ pc' = IF undoing THEN "undo" ELSE "apply"
    BY <1>8 DEF RestoreDone, Continue
  <2>3. OnePath(p)
    BY <1>1, <1>2, <2>1, <2>2 DEF OnePath, Applying
  <2>4. p \notin edited => (IF undoing THEN AtPrev(p)' ELSE AtNext(p)')
    BY <1>1, <1>2, <1>3, <2>1, <2>2 DEF InHand, AtPrev, AtNext, RestoreContent
  <2> QED
    BY <1>0, <2>2, <2>3, <2>4, OnePathKeeps DEF Position, Applying
<1> QED
  BY <1>4, <1>5, <1>6, <1>7, <1>8

\* So does rolling back a path, up to the restoration of its backup.
LEMMA UndoKeeps ==
  ASSUME RecoveryIInv, NEW p \in Paths,
         UndoQuarantine(p) \/ UndoReplace(p) \/ UndoCreate(p)
  PROVE  FilesInv'
<1>0. TypeOK /\ FilesInv /\ WorkerInv
  BY DEF RecoveryIInv, SwitchIInv, RollbackIInv
<1>1. pc = "undo" /\ p \in todo /\ undoing /\ cur = {}
      /\ UNCHANGED <<journal, marker, tx, edited, undoing>>
  BY <1>0 DEF UndoQuarantine, UndoReplace, UndoCreate, MayUndo, Continue, Hold, disk,
              WorkerInv, RollbackLabels, HoldLabels, RestoreLabels
<1>2. /\ p \in ChangedPaths(tx) /\ journal = "durable" /\ ~marker /\ SoundKind(tx, p)
      /\ tx.change[p].kind \in Kinds
      /\ p \notin edited => AtPrev(p) \/ AtNext(p) \/ SetAside(p)
  BY <1>1, AtWork DEF RecoveryIInv, Position
<1>3. CASE UndoQuarantine(p) \/ UndoCreate(p)
  <2>1. /\ live'[p] = IF Quarantined(p) THEN sib[p].old ELSE tx.change[p].prev
        /\ sib'[p].old = Absent
        /\ \A q \in Paths \ {p} : live'[q] = live[q] /\ sib'[q] = sib[q]
    BY <1>0, <1>3, UndoEffect
  <2>2. pc' = "undo" /\ cur' = {}
    BY <1>3 DEF UndoQuarantine, UndoCreate, Continue
  <2>3. OnePath(p)
    BY <1>1, <1>2, <2>1, <2>2 DEF OnePath, Applying
  <2>4. p \notin edited => AtPrev(p)'
    BY <1>1, <1>2, <2>1 DEF AtPrev, AtNext, SetAside, Quarantined, BackupPaths
  <2> QED
    BY <1>0, <1>1, <2>2, <2>3, <2>4, OnePathKeeps DEF Position, Applying
<1>4. CASE UndoReplace(p)
  <2>1. /\ live' = live /\ sib' = sib /\ ~Quarantined(p)
        /\ tx.change[p].prev \notin {Absent, live[p]}
        /\ pc' = "restore" /\ cur' = {p}
    BY <1>4 DEF UndoReplace, Hold, disk
  <2>2. OnePath(p)
    BY <1>1, <1>2, <2>1 DEF OnePath, Applying
  <2>3. p \notin edited => p \in BackupPaths(tx)'
    BY <1>1, <1>2, <2>1 DEF AtPrev, AtNext, SetAside, Quarantined, SoundKind, BackupPaths,
                            ChangedPaths, Kinds
  <2>4. p \notin edited => InHand(p)'
    BY <1>1, <2>1, <2>3 DEF InHand, RestoreLabels
  <2>5. p \notin edited => (AtPrev(p) \/ AtNext(p) \/ SetAside(p))'
    BY <1>1, <1>2, <2>1 DEF AtPrev, AtNext, SetAside, BackupPaths
  <2> QED
    BY <1>0, <1>1, <2>1, <2>2, <2>4, <2>5, OnePathKeeps DEF Position, Applying
<1> QED
  BY <1>3, <1>4

\* A journal is completed over files that are as the plan found them, but for
\* those noted as edited.
LEMMA JournalKeeps ==
  ASSUME RecoveryIInv, WriteJournal \/ JournalSyncFails
  PROVE  FilesInv'
<1>0. TypeOK /\ FilesInv
  BY DEF RecoveryIInv, SwitchIInv, RollbackIInv
<1>1. /\ pc = "journal" /\ journal = "torn" /\ journal' = "durable" /\ ~marker
      /\ UNCHANGED <<live, sib, marker, tx>> /\ edited' = Unobserved(tx)
      /\ cur' = {} /\ (Applying' => todo' = PayloadPaths(tx))
  BY DEF WriteJournal, JournalSyncFails, Continue, Release, RecoveryIInv, SwitchIInv,
         RollbackIInv, PhaseInv, CommitInv, Applying, HoldLabels, RestoreLabels
<1>2. ASSUME NEW p \in ChangedPaths(tx) \ edited'
      PROVE  Position(p)'
  <2>1. p \in Paths /\ live[p] = tx.change[p].prev /\ sib[p].old = Absent
    BY <1>0, <1>1, <1>2 DEF Unobserved, ChangedPaths, FilesInv
  <2>2. AtPrev(p)'
    BY <1>1, <2>1 DEF AtPrev
  <2>3. p \notin PayloadPaths(tx) => AtNext(p)'
    BY <1>1, <1>2, <2>1
       DEF AtNext, PayloadPaths, RecoveryIInv, SwitchIInv, ChangesInv, SoundChanges, SoundKind
  <2> QED
    BY <1>1, <2>2, <2>3 DEF Position
<1> QED
  BY <1>1, <1>2 DEF FilesInv, ChangedPaths

\* When the commit marker is written every change is done.
LEMMA MarkerKeeps ==
  ASSUME RecoveryIInv, CreateMarker
  PROVE  FilesInv'
<1>1. /\ pc = "marker" /\ journal = "durable" /\ ~marker /\ marker' = TRUE
      /\ UNCHANGED <<live, journal, tx, edited>> /\ todo = {} /\ Applying
  BY DEF CreateMarker, RecoveryIInv, SwitchIInv, RollbackIInv, PhaseInv, JournaledLabels, Labels,
         CommitInv, WorkerInv, RollbackLabels, RestoreLabels, Applying
<1>2. \A p \in ChangedPaths(tx) \ edited : live[p] = tx.change[p].next
  BY <1>1 DEF RecoveryIInv, FilesInv, Position, AtNext
<1> QED
  BY <1>1, <1>2 DEF FilesInv, ChangedPaths

\* An edit takes its path out of what is known.
LEMMA EditKeeps ==
  ASSUME RecoveryIInv, NEW e \in UserEdits, UserEdit(e[1], e[2])
  PROVE  FilesInv'
<1>0. FilesInv /\ live \in [Paths -> Content] /\ e[1] \in Paths
  BY DeploymentConstants DEF RecoveryIInv, SwitchIInv, RollbackIInv, TypeOK
<1>1. /\ pc = "idle" /\ live' = [live EXCEPT ![e[1]] = e[2]]
      /\ UNCHANGED <<sib, journal, marker, tx, pc, todo, cur, undoing>>
      /\ journal = "durable" => edited' = edited \cup {e[1]}
  BY DEF UserEdit, Idle, worker
<1>2. cur = {} /\ cur' = {} /\ ~Applying'
  BY <1>1 DEF RecoveryIInv, SwitchIInv, RollbackIInv, WorkerInv, HoldLabels, RestoreLabels, Applying
<1>3. ASSUME journal = "durable", NEW p \in ChangedPaths(tx) \ edited'
      PROVE  IF marker THEN live'[p] = tx.change[p].next ELSE Position(p)'
  <2>1. p \in Paths /\ p \notin edited /\ live'[p] = live[p]
    BY <1>0, <1>1, <1>3 DEF ChangedPaths
  <2>2. IF marker THEN live[p] = tx.change[p].next ELSE Position(p)
    BY <1>0, <1>3, <2>1 DEF FilesInv
  <2> QED
    BY <1>1, <1>2, <2>1, <2>2, PositionFrame
<1> QED
  BY <1>0, <1>1, <1>3 DEF FilesInv, ChangedPaths

\* Every step keeps the positions.
LEMMA FilesStep ==
  "sync" \notin Faults /\ RecoveryIInv /\ [Next]_vars => FilesInv'
<1> SUFFICES ASSUME "sync" \notin Faults, RecoveryIInv, [Next]_vars
             PROVE  FilesInv'
  OBVIOUS
<1>0. TypeOK /\ FilesInv /\ WorkerInv /\ PhaseInv /\ CommitInv
  BY DEF RecoveryIInv, SwitchIInv, RollbackIInv
<1> DEFINE Still == /\ UNCHANGED <<live, sib>> /\ cur' = {}
                    /\ (journal' = "durable") = (journal = "durable")
                    /\ journal = "durable" => UNCHANGED <<tx, edited, marker>>
                    /\ Applying' => Applying /\ cur = {} /\ todo' = todo
<1>1. ASSUME Still PROVE FilesInv'
  BY <1>0, <1>1, StillKeeps
<1> HIDE DEF Still
<1>2. CASE ApplyStep
  <2> USE DEF Still, PhaseInv, WorkerInv, Applying, JournaledLabels, Labels, RollbackLabels,
              RestoreLabels, HoldLabels, disk, Continue, Hold, Release, StartRollback, MayChange,
              Unappliable
  <2>1. CASE CreateJournal \/ Verify \/ WriteReceipt \/ GameInterrupts
    <3>1. Still
      BY <1>0, <2>1 DEF CreateJournal, Verify, WriteReceipt, ReplaceReceipt, GameInterrupts
    <3> QED
      BY <1>1, <3>1
  <2>2. ASSUME NEW p \in Paths, Backup(p) \/ BackupRefused(p) \/ ApplyRefused(p)
        PROVE  FilesInv'
    <3>1. Still
      BY <1>0, <2>2 DEF Backup, BackupRefused, ApplyRefused
    <3> QED
      BY <1>1, <3>1
  <2> QED
    BY <1>2, <2>1, <2>2, JournalKeeps, MarkerKeeps, StartKeeps, PlaceKeeps DEF ApplyStep
<1>3. CASE ResolveStep
  <2> USE DEF PhaseInv, WorkerInv, Applying, JournaledLabels, Labels, RollbackLabels,
              RestoreLabels, HoldLabels, disk, Continue, Hold, Release, StartRollback
  <2>1. CASE \/ Cleanup \/ CleanupRefused \/ RemoveMarker
             \/ Preflight \/ PreflightRefused \/ UndoReceipt
    <3>1. Still
      BY <1>0, <2>1 DEF Still, Cleanup, CleanupRefused, RemoveMarker, Preflight,
                        PreflightRefused, UndoReceipt, ReplaceReceipt
    <3> QED
      BY <1>1, <3>1
  <2>2. CASE RemoveJournal \/ DropJournal
    <3>1. journal' = "none" /\ sib' = NoSiblings
      BY <2>2 DEF RemoveJournal, DropJournal
    <3> QED
      BY <3>1 DEF FilesInv, NoSiblings, Slots
  <2>3. ASSUME NEW p \in Paths, SweepOld(p)
        PROVE  FilesInv'
    <3>1. journal = "durable" /\ marker /\ UNCHANGED <<journal, marker, live, tx, edited>>
      BY <1>0, <2>3 DEF SweepOld, CommitInv
    <3> QED
      BY <1>0, <3>1 DEF FilesInv, ChangedPaths
  <2> QED
    BY <1>3, <2>1, <2>2, <2>3, UndoKeeps, RestoreKeeps DEF ResolveStep
<1>4. CASE Fault
  <2> USE DEF Still, PhaseInv, Applying, disk, Release, StartRollback, HoldLabels, RestoreLabels
  <2>1. CASE Crash \/ JournalFails \/ ApplyFails \/ ReceiptFails \/ ResolveFails
    <3>1. Still
      BY <1>0, <2>1 DEF Crash, JournalFails, ApplyFails, ReceiptFails, ResolveFails
    <3> QED
      BY <1>1, <3>1
  <2>2. CASE MarkerFails
    BY <2>2 DEF MarkerFails
  <2> QED
    BY <1>4, <2>1, <2>2, JournalKeeps, PlaceKeeps, RestoreKeeps DEF Fault
<1>5. CASE GameStarts \/ GameStops \/ UNCHANGED vars
  <2>1. UNCHANGED <<live, sib, journal, marker, tx, edited, pc, todo, cur, undoing>>
    BY <1>5 DEF GameStarts, GameStops, vars, disk, worker
  <2> QED
    BY <1>0, <2>1 DEF FilesInv, Position, AtPrev, AtNext, SetAside, InHand, Applying,
                      BackupPaths, ChangedPaths, RestoreContent
<1>6. CASE Command
  <2>1. Still
    BY <1>0, <1>6 DEF Command, Preview, Begin, Discard, Recover, CollectBackups, Still,
       PhaseInv, WorkerInv, Applying, HoldLabels, RestoreLabels, disk, worker, Idle, Continue,
       StartRollback
  <2> QED
    BY <1>1, <2>1
<1> QED
  BY <1>2, <1>3, <1>4, <1>5, <1>6, EditKeeps DEF Next, Environment

----------------------------------------------------------------------------
(* Files that only change hands                                            *)

\* Paths whose file an activation leaves alone: kept, or taken over as it is.
LeftAlone == ChangedPaths(tx) \ PayloadPaths(tx)

\* Unless the user changed it, such a file is as the plan found it; a rollback
\* takes such a path in hand only where the user did.
LeftAloneInv ==
  /\ cur \cap LeftAlone \subseteq edited
  /\ journal = "durable" => \A p \in LeftAlone \ edited : live[p] = tx.change[p].prev

\* A step with no path in hand afterwards that moves no file.
LEMMA NoFileMoves ==
  ASSUME LeftAloneInv, cur' = {}, UNCHANGED live, journal' = "durable" => journal = "durable",
         journal = "durable" => UNCHANGED tx /\ edited \subseteq edited'
  PROVE  LeftAloneInv'
BY DEF LeftAloneInv, LeftAlone, ChangedPaths, PayloadPaths

\* A step on one path, that is not left alone.
LEMMA OneFileMoves ==
  ASSUME LeftAloneInv, UNCHANGED <<journal, tx, edited>>,
         NEW p \in PayloadPaths(tx) \cup edited, cur' \subseteq {p},
         \A q \in Paths \ {p} : live'[q] = live[q]
  PROVE  LeftAloneInv'
BY DEF LeftAloneInv, LeftAlone, ChangedPaths, PayloadPaths

\* Every step keeps hands off.
LEMMA LeftAloneStep == RollbackIInv /\ LeftAloneInv /\ [Next]_vars => LeftAloneInv'
<1> SUFFICES ASSUME RollbackIInv, LeftAloneInv, [Next]_vars PROVE LeftAloneInv'
  OBVIOUS
<1>0. TypeOK /\ PhaseInv /\ WorkerInv
  BY DEF RollbackIInv
<1>1. live \in [Paths -> Content] /\ cur \subseteq PayloadPaths(tx) \cup edited
  BY <1>0 DEF TypeOK, PhaseInv, LeftAloneInv, LeftAlone
<1> USE DEF Continue, Hold, Release, StartRollback, disk, worker
<1>2. ASSUME WriteJournal \/ JournalSyncFails PROVE LeftAloneInv'
  BY <1>2 DEF WriteJournal, JournalSyncFails, Unobserved, LeftAloneInv, LeftAlone, ChangedPaths
<1>3. ASSUME \/ CreateJournal \/ Verify \/ WriteReceipt \/ CreateMarker \/ GameInterrupts
             \/ \E p \in Paths : Backup(p) \/ BackupRefused(p) \/ PlaceDone(p) \/ ApplyRefused(p)
      PROVE  LeftAloneInv'
  <2>1. cur' = {} /\ UNCHANGED live
    BY <1>3 DEF CreateJournal, Verify, WriteReceipt, ReplaceReceipt, CreateMarker,
                GameInterrupts, Backup, BackupRefused, PlaceDone, ApplyRefused
  <2>2. /\ journal' = "durable" => journal = "durable"
        /\ journal = "durable" => UNCHANGED tx /\ edited \subseteq edited'
    BY <1>0, <1>3 DEF CreateJournal, Verify, WriteReceipt, ReplaceReceipt, CreateMarker,
                GameInterrupts, Backup, BackupRefused, PlaceDone, ApplyRefused, PhaseInv
  <2> QED
    BY <2>1, <2>2, NoFileMoves
<1>4. ASSUME NEW p \in Paths, Quarantine(p) \/ CopyNew(p) \/ StartRestore(p)
      PROVE  LeftAloneInv'
  <2>1. p \in PayloadPaths(tx)
    BY <1>4 DEF Quarantine, CopyNew, StartRestore, PayloadPaths, ChangedPaths
  <2>2. UNCHANGED <<journal, tx, edited>> /\ cur' \subseteq {p}
    BY <1>4 DEF Quarantine, CopyNew, StartRestore
  <2>3. \A q \in Paths \ {p} : live'[q] = live[q]
    BY <1>1, <1>4 DEF Quarantine, CopyNew, StartRestore, MoveAside
  <2> QED
    BY <2>1, <2>2, <2>3, OneFileMoves
<1>5. ASSUME NEW p \in Paths,
             LinkNew(p) \/ SwapOut(p) \/ SwapIn(p) \/ SwapInFails(p) \/ RestoreInFails(p)
             \/ RestoreCopy(p) \/ RestoreOut(p) \/ RestoreIn(p) \/ RestoreDone(p)
      PROVE  LeftAloneInv'
  <2>1. p \in PayloadPaths(tx) \cup edited
    BY <1>1, <1>5 DEF LinkNew, SwapOut, SwapIn, SwapInFails, RestoreInFails, RestoreCopy,
                      RestoreOut, RestoreIn, RestoreDone
  <2>2. UNCHANGED <<journal, tx, edited>> /\ cur' \subseteq {p}
    BY <1>5 DEF LinkNew, SwapOut, SwapIn, SwapInFails, RestoreInFails, RestoreCopy,
                RestoreOut, RestoreIn, RestoreDone
  <2>3. \A q \in Paths \ {p} : live'[q] = live[q]
    BY <1>1, <1>5 DEF LinkNew, SwapOut, SwapIn, SwapInFails, RestoreInFails, RestoreCopy,
                      RestoreOut, RestoreIn, RestoreDone, MoveAside, MoveIn
  <2> QED
    BY <2>1, <2>2, <2>3, OneFileMoves
<1>6. ASSUME NEW p \in Paths, UndoQuarantine(p) \/ UndoReplace(p) \/ UndoCreate(p)
      PROVE  LeftAloneInv'
  <2>1. /\ journal = "durable" /\ p \in ChangedPaths(tx)
        /\ UNCHANGED <<journal, tx, edited>> /\ cur' \subseteq {p}
        /\ \A q \in Paths \ {p} : live'[q] = live[q]
    BY <1>0, <1>1, <1>6 DEF UndoQuarantine, UndoReplace, UndoCreate, MayUndo, PhaseInv,
                            JournaledLabels, Labels
  <2>2. CASE p \in PayloadPaths(tx) \cup edited
    BY <2>1, <2>2, OneFileMoves
  <2>3. CASE p \in LeftAlone \ edited
    <3>1. live[p] = tx.change[p].prev /\ tx.change[p].kind # "remove"
      BY <2>1, <2>3 DEF LeftAloneInv, LeftAlone, PayloadPaths
    <3>2. UndoCreate(p)
      BY <1>6, <3>1 DEF UndoQuarantine, UndoReplace, Quarantined
    <3>3. UNCHANGED live /\ cur' = {}
      BY <1>1, <3>1, <3>2 DEF UndoCreate
    <3> QED
      BY <2>1, <3>3, NoFileMoves
  <2> QED
    BY <2>1, <2>2, <2>3 DEF LeftAlone
<1>7. ASSUME \/ Cleanup \/ CleanupRefused \/ RemoveJournal \/ RemoveMarker
             \/ Preflight \/ PreflightRefused \/ UndoReceipt \/ DropJournal
             \/ \E p \in Paths : SweepOld(p)
      PROVE  LeftAloneInv'
  <2>1. /\ cur' = {} /\ UNCHANGED live
        /\ journal' = "none" \/ UNCHANGED <<journal, tx, edited>>
    BY <1>7 DEF Cleanup, CleanupRefused, RemoveJournal, RemoveMarker, Preflight,
                PreflightRefused, UndoReceipt, ReplaceReceipt, DropJournal, SweepOld
  <2> QED
    BY <2>1, NoFileMoves DEF LeftAloneInv
<1>8. ASSUME \/ Crash \/ JournalFails \/ ApplyFails \/ MarkerFails \/ ReceiptFails
             \/ ResolveFails
      PROVE  LeftAloneInv'
  <2>1. cur' = {} /\ UNCHANGED live
    BY <1>8 DEF Crash, JournalFails, ApplyFails, MarkerFails, ReceiptFails, ResolveFails
  <2>2. /\ journal' = "durable" => journal = "durable"
        /\ journal = "durable" => UNCHANGED <<tx, edited>>
    BY <1>0, <1>8 DEF Crash, JournalFails, ApplyFails, MarkerFails, ReceiptFails,
                      ResolveFails, PhaseInv
  <2> QED
    BY <2>1, <2>2, NoFileMoves
<1>9. ASSUME GameStarts \/ GameStops \/ UNCHANGED vars PROVE LeftAloneInv'
  BY <1>9 DEF GameStarts, GameStops, vars, LeftAloneInv, LeftAlone, ChangedPaths, PayloadPaths
<1>10. ASSUME NEW p, NEW c, UserEdit(p, c) PROVE LeftAloneInv'
  BY <1>0, <1>1, <1>10 DEF UserEdit, LeftAloneInv, LeftAlone, ChangedPaths, PayloadPaths
<1>11. ASSUME Command PROVE LeftAloneInv'
  <2>1. cur = {}
    BY <1>0, <1>11 DEF Command, Preview, Begin, Discard, Recover, CollectBackups, Idle,
                       WorkerInv, HoldLabels, RestoreLabels
  <2>2. cur' = {} /\ UNCHANGED <<live, journal, edited>> /\ (journal = "durable" => UNCHANGED tx)
    BY <1>11, <2>1 DEF Command, Preview, Begin, Discard, Recover, CollectBackups
  <2> QED
    BY <2>2, NoFileMoves
<1> QED
  BY <1>2, <1>3, <1>4, <1>5, <1>6, <1>7, <1>8, <1>9, <1>10, <1>11
     DEF Next, ApplyStep, ResolveStep, Fault, Environment

----------------------------------------------------------------------------
(* Theorems                                                                *)

\* The positions hold in every reachable state.
LEMMA RecoveryInvariant ==
  ASSUME "sync" \notin Faults
  PROVE  Spec => []RecoveryIInv
<1>1. Init => FilesInv
  BY DEF Init, FilesInv, NoSiblings, Slots
<1>2. SwitchIInv /\ FilesInv /\ [Next]_vars => FilesInv'
  BY FilesStep DEF RecoveryIInv
<1> QED
  BY <1>1, <1>2, SwitchInvariant, PTL DEF Spec, RecoveryIInv

\* Where a receipt is replaced by one rename, the backups hold too.
LEMMA BackupInvariant ==
  ASSUME ~Windows
  PROVE  Spec => []BackupInv
<1>1. Inv /\ [Next]_vars => Inv'
  BY TypeStep, PhaseStep, PlansStep, BackupStep DEF Inv
<1>2. Inv => BackupInv
  BY DEF Inv
<1> QED
  BY InvInit, <1>1, <1>2, PTL DEF Spec

\* A file left where a worker may leave it can be rolled back.
LEMMA PositionMeets ==
  ASSUME TypeOK, ChangesInv, BackupInv, pc = "idle", journal = "durable",
         NEW p \in ChangedPaths(tx), AtPrev(p) \/ AtNext(p) \/ SetAside(p)
  PROVE  RollbackMeets(p)
<1>1. SoundKind(tx, p) /\ tx.change[p].kind \in Kinds \ {"none"}
  BY PlanFields DEF TypeOK, ChangesInv, SoundChanges, ChangedPaths
<1>2. p \in BackupPaths(tx) => tx.change[p].prev \in backups
  BY DEF BackupInv
<1>3. CASE p \in BackupPaths(tx)
  BY <1>1, <1>2, <1>3 DEF BackupPaths, RollbackMeets, AtPrev, AtNext, SetAside
<1>4. CASE p \notin BackupPaths(tx)
  <2>1. tx.change[p].kind \in {"unchanged", "adopt", "create", "remove"}
    BY <1>1, <1>4 DEF BackupPaths, Kinds, ChangedPaths
  <2> QED
    BY <1>1, <1>4, <2>1 DEF SoundKind, RollbackMeets, AtPrev, AtNext, SetAside
<1> QED
  BY <1>3, <1>4

\* Whatever was interrupted, and however often, recovery gets past its checks:
\* a rollback finds every file where it can deal with it, a clean-up finds the
\* committed files, unless somebody else changed a file the journal names.
THEOREM RecoveryGetsThrough ==
  ASSUME ~Windows, "sync" \notin Faults
  PROVE  Spec => []RecoveryNeverStuck
<1>1. RecoveryIInv /\ BackupInv => RecoveryNeverStuck
  <2> SUFFICES ASSUME RecoveryIInv, BackupInv, Idle, journal = "durable", edited = {}
               PROVE  IF marker THEN CommitIntact ELSE PreflightPasses
    BY DEF RecoveryNeverStuck
  <2>0. TypeOK /\ ChangesInv /\ CommitInv /\ FilesInv
    BY DEF RecoveryIInv, SwitchIInv, RollbackIInv
  <2>1. CASE marker
    <3>1. receipt = tx.target /\ \A p \in ChangedPaths(tx) : live[p] = tx.change[p].next
      BY <2>0, <2>1 DEF CommitInv, FilesInv
    <3>2. ASSUME NEW p \in OwnedPaths(tx.target) PROVE live[p] = tx.target[p].hash
      <4>1. p \in Paths
        BY <2>0, <3>2, PlanFields, ReceiptTyped DEF TypeOK
      <4> QED
        BY <2>0, <3>1, <3>2, <4>1 DEF ChangesInv, SoundChanges, SoundTarget, ChangedPaths
    <3> QED
      BY <2>1, <3>1, <3>2 DEF CommitIntact, ChangedPaths
  <2>2. CASE ~marker
    <3>1. \A p \in ChangedPaths(tx) : AtPrev(p) \/ AtNext(p) \/ SetAside(p)
      BY <2>0, <2>2 DEF FilesInv, Position
    <3>2. \A p \in ChangedPaths(tx) : RollbackMeets(p)
      BY <2>0, <3>1, PositionMeets DEF Idle
    <3> QED
      BY <2>2, <3>2 DEF PreflightPasses, BackupInv
  <2> QED
    BY <2>1, <2>2
<1> QED
  BY RecoveryInvariant, BackupInvariant, <1>1, PTL

\* What the plan at work does to each path, and which files it leaves alone.
LEMMA HandsOff == Spec => [](PlansInv /\ ChangesInv /\ LeftAloneInv)
<1>1. Init => PlansInv /\ ChangesInv /\ LeftAloneInv
  BY InvInit, EmptyPlanChanges DEF Inv, Init, ChangesInv, LeftAloneInv
<1>2. RollbackIInv /\ PlansInv /\ ChangesInv /\ LeftAloneInv /\ [Next]_vars
        => (PlansInv /\ ChangesInv /\ LeftAloneInv)'
  BY PlansStep, ChangesStep, LeftAloneStep DEF RollbackIInv
<1> QED
  BY <1>1, <1>2, RollbackInvariant, PTL DEF Spec

\* The user's own file is in the game or in a backup at every moment of a
\* switch, a rollback or a recovery, whatever fails, except at a path whose file
\* is not what the pending journal says was observed there (edited).
THEOREM UserFilesKept ==
  ASSUME ~Windows
  PROVE  Spec => []UserFilesSurvive
<1>1. RollbackIInv /\ PlansInv /\ ChangesInv /\ LeftAloneInv /\ BackupInv => UserFilesSurvive
  <2> SUFFICES ASSUME RollbackIInv, PlansInv, ChangesInv, LeftAloneInv, BackupInv,
                      NEW p \in Paths \ edited
               PROVE  Theirs(p) \in backups \cup {Absent, live[p]}
    BY DEF UserFilesSurvive
  <2>0. TypeOK /\ PhaseInv
    BY DEF RollbackIInv
  <2>1. CASE p \in OwnedPaths(InForce)
    BY <2>1 DEF Theirs, InForce, BackupInv, BackedUp
  <2>2. CASE p \notin OwnedPaths(InForce) /\ journal = "durable" /\ p \in ChangedPaths(tx)
    <3>1. SoundKind(tx, p) /\ tx.change[p].kind \in Kinds \ {"none"}
      BY <2>0, <2>2, PlanFields DEF TypeOK, ChangesInv, SoundChanges, ChangedPaths
    \* After the commit: what is put back was displaced under the previous receipt.
    <3>2. CASE marker
      <4>1. Theirs(p) = tx.change[p].next /\ p \notin OwnedPaths(tx.target)
        BY <2>2, <3>2 DEF Theirs, InForce
      <4>2. tx.change[p].kind \in {"remove", "restore"} /\ p \in OwnedPaths(tx.prev)
        BY <3>1, <4>1 DEF SoundKind, Kinds
      <4>3. tx.change[p].next = tx.prev[p].displaced
        BY <3>1, <4>1, <4>2 DEF PlansInv, SoundPlan
      <4> QED
        BY <2>2, <4>1, <4>2, <4>3 DEF BackupInv, BackedUp
    \* Before: what is replaced was backed up, what only changes hands is there.
    <3>3. CASE ~marker
      <4>1. Theirs(p) = tx.change[p].prev /\ p \notin OwnedPaths(tx.prev)
        BY <2>2, <3>3 DEF Theirs, InForce
      <4>2. p \in BackupPaths(tx) => tx.change[p].prev \in backups
        BY <2>0, <2>2 DEF BackupInv, PhaseInv
      <4>3. p \in BackupPaths(tx) \/ tx.change[p].kind \in {"unchanged", "adopt", "create"}
        BY <3>1, <4>1 DEF SoundKind, BackupPaths, Kinds
      <4>4. tx.change[p].kind \in {"unchanged", "adopt"} => live[p] = tx.change[p].prev
        BY <2>2 DEF LeftAloneInv, LeftAlone, PayloadPaths
      <4> QED
        BY <3>1, <4>1, <4>2, <4>3, <4>4 DEF SoundKind
    <3> QED
      BY <3>2, <3>3
  <2>3. CASE p \notin OwnedPaths(InForce) /\ ~(journal = "durable" /\ p \in ChangedPaths(tx))
    BY <2>3 DEF Theirs
  <2> QED
    BY <2>1, <2>2, <2>3
<1> QED
  BY RollbackInvariant, HandsOff, BackupInvariant, <1>1, PTL
===============================================================================
