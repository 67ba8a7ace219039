---------------------------- MODULE RollbackProofs ----------------------------
(***************************************************************************)
(* Proofs about rolling back: what preflight_rollback accepts is rolled    *)
(* back to the end, and rolled back completely, for any paths, files,      *)
(* profiles, faults and edits.                                             *)
(***************************************************************************)
EXTENDS DeploymentProofs

----------------------------------------------------------------------------
(* The worker                                                              *)

RestoreLabels == {"restore", "restore_out", "restore_in", "restore_done"}

\* Steps only a rollback takes.
RollbackLabels == {"preflight", "undo", "undo_receipt_in", "drop"}

\* Steps taken with a path in hand.
HoldLabels == RestoreLabels \cup {"place", "placed", "swap"}

\* The worker rolls back just where it takes a rollback's steps, has one path
\* in hand, and reaches the receipt when no path is left.
WorkerInv ==
  /\ undoing => pc \in RollbackLabels \cup RestoreLabels
  /\ pc \in RollbackLabels => undoing
  /\ pc \notin HoldLabels => cur = {}
  /\ cur \subseteq todo
  /\ \A p, q \in cur : p = q
  /\ pc \in {"receipt", "receipt_in", "marker", "preflight", "undo_receipt_in", "drop"}
       => todo = {}

\* Every step keeps the worker in order.
LEMMA WorkerStep == WorkerInv /\ [Next]_vars => WorkerInv'
<1> SUFFICES ASSUME WorkerInv, [Next]_vars PROVE WorkerInv'
  OBVIOUS
<1> USE DEF WorkerInv, RestoreLabels, RollbackLabels, HoldLabels, worker, Idle,
            Continue, Hold, Release, StartRollback
<1>1. CASE \/ CreateJournal \/ WriteJournal \/ Verify \/ WriteReceipt \/ CreateMarker
           \/ GameInterrupts
  BY <1>1 DEF CreateJournal, WriteJournal, Verify, WriteReceipt, ReplaceReceipt,
              CreateMarker, GameInterrupts
<1>2. ASSUME NEW p \in Paths, Backup(p) \/ BackupRefused(p) \/ Quarantine(p) \/ CopyNew(p)
      PROVE  WorkerInv'
  BY <1>2 DEF Backup, BackupRefused, Quarantine, CopyNew, MayChange
<1>3. ASSUME NEW p \in Paths, LinkNew(p) \/ SwapOut(p) \/ SwapIn(p) \/ PlaceDone(p)
      PROVE  WorkerInv'
  BY <1>3 DEF LinkNew, SwapOut, SwapIn, PlaceDone
<1>4. ASSUME NEW p \in Paths, StartRestore(p) \/ ApplyRefused(p)
      PROVE  WorkerInv'
  BY <1>4 DEF StartRestore, ApplyRefused, MayChange
<1>5. CASE \/ Cleanup \/ CleanupRefused \/ RemoveJournal \/ RemoveMarker
           \/ Preflight \/ PreflightRefused \/ UndoReceipt \/ DropJournal
  BY <1>5 DEF Cleanup, CleanupRefused, RemoveJournal, RemoveMarker, Preflight,
              PreflightRefused, UndoReceipt, ReplaceReceipt, DropJournal
<1>6. ASSUME NEW p \in Paths,
             SweepOld(p) \/ UndoQuarantine(p) \/ UndoReplace(p) \/ UndoCreate(p)
      PROVE  WorkerInv'
  BY <1>6 DEF SweepOld, UndoQuarantine, UndoReplace, UndoCreate, MayUndo
<1>7. ASSUME NEW p \in Paths,
             RestoreCopy(p) \/ RestoreOut(p) \/ RestoreIn(p) \/ RestoreDone(p)
      PROVE  WorkerInv'
  BY <1>7 DEF RestoreCopy, RestoreOut, RestoreIn, RestoreDone
<1>8. CASE \/ Crash \/ JournalFails \/ JournalSyncFails \/ ApplyFails \/ MarkerFails
           \/ ReceiptFails \/ ResolveFails
  BY <1>8 DEF Crash, JournalFails, JournalSyncFails, ApplyFails, MarkerFails,
              ReceiptFails, ResolveFails
<1>9. ASSUME NEW p \in Paths, SwapInFails(p) \/ RestoreInFails(p)
      PROVE  WorkerInv'
  BY <1>9 DEF SwapInFails, RestoreInFails
<1>10. CASE Environment \/ UNCHANGED vars
  BY <1>10 DEF Environment, GameStarts, GameStops, UserEdit, vars
<1>11. CASE Command
  BY <1>11 DEF Command, Preview, Begin, Discard, Recover, CollectBackups
<1> QED
  BY <1>1, <1>2, <1>3, <1>4, <1>5, <1>6, <1>7, <1>8, <1>9, <1>10, <1>11
     DEF Next, ApplyStep, ResolveStep, Fault

----------------------------------------------------------------------------
(* Files                                                                   *)

\* Renaming a game file to a sibling empties the path and touches no other.
LEMMA MoveAsideEffect ==
  ASSUME TypeOK, NEW p \in Paths, NEW slot \in Slots, MoveAside(p, slot)
  PROVE  /\ live'[p] = Absent
         /\ sib'[p][slot] = live[p]
         /\ \A s \in Slots \ {slot} : sib'[p][s] = sib[p][s]
         /\ \A q \in Paths \ {p} : live'[q] = live[q] /\ sib'[q] = sib[q]
  BY DEF TypeOK, MoveAside, SetSib

\* Renaming a sibling to the game file fills the path and touches no other.
LEMMA MoveInEffect ==
  ASSUME TypeOK, NEW p \in Paths, NEW slot \in Slots, MoveIn(p, slot)
  PROVE  /\ live'[p] = sib[p][slot]
         /\ sib'[p][slot] = Absent
         /\ \A s \in Slots \ {slot} : sib'[p][s] = sib[p][s]
         /\ \A q \in Paths \ {p} : live'[q] = live[q] /\ sib'[q] = sib[q]
  BY DEF TypeOK, MoveIn, SetSib

\* Putting the previous file back at one path touches no other.
LEMMA UndoEffect ==
  ASSUME TypeOK, NEW p \in Paths, UndoQuarantine(p) \/ UndoCreate(p)
  PROVE  /\ live'[p] = IF Quarantined(p) THEN sib[p].old ELSE tx.change[p].prev
         /\ sib'[p].old = Absent
         /\ \A q \in Paths \ {p} : live'[q] = live[q] /\ sib'[q] = sib[q]
  BY DEF TypeOK, UndoQuarantine, UndoCreate, Slots

\* The end of a restoration leaves the game alone, and the siblings of others.
LEMMA RestoreDoneEffect ==
  ASSUME TypeOK, NEW p \in Paths, RestoreDone(p)
  PROVE  /\ live' = live
         /\ undoing => sib'[p].old = Absent
         /\ ~undoing => sib'[p].old = sib[p].old
         /\ \A q \in Paths \ {p} : sib'[q] = sib[q]
  BY DEF TypeOK, RestoreDone, Slots

\* The copy of a backup beside the game file touches nothing else.
LEMMA RestoreCopyEffect ==
  ASSUME TypeOK, NEW p \in Paths, RestoreCopy(p)
  PROVE  /\ live' = live
         /\ sib'[p].restore = RestoreContent(p)
         /\ sib'[p].old = sib[p].old
         /\ \A q \in Paths \ {p} : sib'[q] = sib[q]
  BY DEF TypeOK, RestoreCopy, Slots

\* Whether a path can be rolled back depends on that path and its backup.
LEMMA MeetsFrame ==
  ASSUME NEW p \in Paths, RollbackMeets(p), UNCHANGED <<tx, backups>>,
         live'[p] = live[p], sib'[p] = sib[p]
  PROVE  RollbackMeets(p)'
  BY DEF RollbackMeets

----------------------------------------------------------------------------
(* Rolling back                                                            *)

\* From the preflight on, paths done hold their previous file, paths to come
\* can be rolled back, and the one in hand has its backup.
RollbackInv ==
  undoing /\ pc # "preflight" =>
    /\ \A p \in ChangedPaths(tx) \ todo : live[p] = tx.change[p].prev
    /\ \A p \in todo \ cur : RollbackMeets(p)
    /\ \A p \in cur :
         /\ tx.change[p].prev \in backups
         /\ pc \in {"restore_out", "restore_in"} => sib[p].restore = tx.change[p].prev
         /\ pc = "restore_done" => live[p] = tx.change[p].prev
    /\ pc = "drop" => receipt = tx.prev

RollbackIInv == TypeOK /\ PhaseInv /\ WorkerInv /\ RollbackInv

\* An activation enters a rollback through the preflight only.
LEMMA ApplyNotUndoing == WorkerInv /\ ApplyStep => ~undoing' \/ pc' = "preflight"
<1> SUFFICES ASSUME WorkerInv, ApplyStep PROVE ~undoing' \/ pc' = "preflight"
  OBVIOUS
<1> USE DEF WorkerInv, RestoreLabels, RollbackLabels, HoldLabels, MayChange, Unappliable,
            worker, Continue, Hold, Release, StartRollback
<1>1. CASE \/ CreateJournal \/ WriteJournal \/ Verify \/ WriteReceipt \/ CreateMarker
           \/ GameInterrupts
  BY <1>1 DEF CreateJournal, WriteJournal, Verify, WriteReceipt, ReplaceReceipt,
              CreateMarker, GameInterrupts
<1>2. ASSUME NEW p \in Paths,
             Backup(p) \/ BackupRefused(p) \/ Quarantine(p) \/ CopyNew(p) \/ LinkNew(p)
      PROVE  ~undoing' \/ pc' = "preflight"
  BY <1>2 DEF Backup, BackupRefused, Quarantine, CopyNew, LinkNew
<1>3. ASSUME NEW p \in Paths,
             SwapOut(p) \/ SwapIn(p) \/ PlaceDone(p) \/ StartRestore(p) \/ ApplyRefused(p)
      PROVE  ~undoing' \/ pc' = "preflight"
  BY <1>3 DEF SwapOut, SwapIn, PlaceDone, StartRestore, ApplyRefused
<1> QED
  BY <1>1, <1>2, <1>3 DEF ApplyStep

\* Every step keeps the rollback on its way.
LEMMA RollbackStep == RollbackIInv /\ [Next]_vars => RollbackInv'
<1> SUFFICES ASSUME TypeOK, PhaseInv, WorkerInv, RollbackInv, [Next]_vars,
                    undoing', pc' # "preflight"
             PROVE  RollbackInv'
  BY DEF RollbackIInv, RollbackInv
<1>0. ChangedPaths(tx) \subseteq Paths /\ todo \subseteq ChangedPaths(tx) /\ cur \subseteq todo
  BY DEF PhaseInv, WorkerInv, ChangedPaths
<1> USE DEF worker, disk, Continue, Hold, Release, StartRollback
<1>1. CASE ApplyStep
  BY <1>1, ApplyNotUndoing
<1>2. CASE Preflight
  BY <1>2 DEF Preflight, PreflightPasses, RollbackInv, ChangedPaths, WorkerInv,
              RollbackLabels, HoldLabels, RestoreLabels, RollbackMeets
<1>3. ASSUME NEW p \in Paths, UndoQuarantine(p) \/ UndoCreate(p)
      PROVE  RollbackInv'
  <2>1. /\ pc = "undo" /\ undoing /\ p \in todo /\ cur = {}
        /\ pc' = "undo" /\ todo' = todo \ {p} /\ cur' = {}
        /\ UNCHANGED <<tx, backups>>
    BY <1>3 DEF UndoQuarantine, UndoCreate, MayUndo, WorkerInv, RollbackLabels, HoldLabels,
                RestoreLabels
  <2>2. live'[p] = tx.change[p].prev
    BY <1>3, <2>1, UndoEffect DEF RollbackInv, RollbackMeets, Quarantined
  <2>3. \A q \in ChangedPaths(tx) \ todo' : live'[q] = tx.change[q].prev
    BY <1>0, <1>3, <2>1, <2>2, UndoEffect DEF RollbackInv
  <2>4. \A q \in todo' : RollbackMeets(q)'
    <3> SUFFICES ASSUME NEW q \in todo' PROVE RollbackMeets(q)'
      OBVIOUS
    <3>1. q \in Paths \ {p} /\ RollbackMeets(q)
      BY <1>0, <2>1 DEF RollbackInv
    <3> QED
      BY <1>3, <2>1, <3>1, UndoEffect, MeetsFrame
  <2> QED
    BY <2>1, <2>3, <2>4 DEF RollbackInv, ChangedPaths
<1>4. ASSUME NEW p \in Paths, UndoReplace(p)
      PROVE  RollbackInv'
  <2>1. /\ pc = "undo" /\ undoing /\ p \in todo /\ cur = {}
        /\ pc' = "restore" /\ todo' = todo /\ cur' = {p}
        /\ UNCHANGED <<tx, live, sib, backups>>
    BY <1>4 DEF UndoReplace, MayUndo, WorkerInv, RollbackLabels, HoldLabels, RestoreLabels
  <2>2. tx.change[p].prev \in backups
    BY <1>4, <2>1 DEF UndoReplace, Quarantined, RollbackInv, RollbackMeets
  <2> QED
    BY <2>1, <2>2 DEF RollbackInv, RollbackMeets, ChangedPaths
<1>5. ASSUME NEW p \in Paths, RestoreCopy(p) \/ RestoreOut(p) \/ RestoreIn(p)
      PROVE  RollbackInv'
  <2>1. /\ pc \in RestoreLabels /\ undoing /\ cur = {p}
        /\ pc' \in RestoreLabels \ {"restore"} /\ todo' = todo /\ cur' = {p}
        /\ UNCHANGED <<tx, backups>>
    BY <1>5 DEF RestoreCopy, RestoreOut, RestoreIn, RestoreLabels, WorkerInv
  <2>2. \A q \in Paths \ {p} : live'[q] = live[q] /\ sib'[q] = sib[q]
    BY <1>5, RestoreCopyEffect, MoveAsideEffect, MoveInEffect DEF RestoreOut, RestoreIn, Slots
  <2>3. pc' \in {"restore_out", "restore_in"} => sib'[p].restore = tx.change[p].prev
    BY <1>5, <2>1, RestoreCopyEffect, MoveAsideEffect
       DEF RestoreCopy, RestoreOut, RestoreIn, RestoreContent, RollbackInv, Slots
  <2>4. pc' = "restore_done" => live'[p] = tx.change[p].prev
    BY <1>5, <2>1, MoveInEffect DEF RestoreCopy, RestoreOut, RestoreIn, RollbackInv, Slots
  <2>5. \A q \in ChangedPaths(tx) \ todo' : live'[q] = tx.change[q].prev
    BY <1>0, <2>1, <2>2 DEF RollbackInv, RestoreLabels
  <2>6. \A q \in todo' \ cur' : RollbackMeets(q)'
    <3> SUFFICES ASSUME NEW q \in todo \ {p} PROVE RollbackMeets(q)'
      BY <2>1
    <3>1. q \in Paths \ {p} /\ RollbackMeets(q)
      BY <1>0, <2>1 DEF RollbackInv, RestoreLabels
    <3> QED
      BY <2>1, <2>2, <3>1, MeetsFrame
  <2> QED
    BY <2>1, <2>3, <2>4, <2>5, <2>6 DEF RollbackInv, ChangedPaths, RestoreLabels
<1>6. ASSUME NEW p \in Paths, RestoreDone(p)
      PROVE  RollbackInv'
  <2>1. /\ pc = "restore_done" /\ undoing /\ cur = {p}
        /\ pc' = "undo" /\ todo' = todo \ {p} /\ cur' = {}
        /\ UNCHANGED <<tx, backups>>
    BY <1>6 DEF RestoreDone, WorkerInv
  <2>2. \A q \in ChangedPaths(tx) \ todo' : live'[q] = tx.change[q].prev
    BY <1>0, <1>6, <2>1, RestoreDoneEffect DEF RollbackInv
  <2>3. \A q \in todo' : RollbackMeets(q)'
    <3> SUFFICES ASSUME NEW q \in todo' PROVE RollbackMeets(q)'
      OBVIOUS
    <3>1. q \in Paths \ {p} /\ RollbackMeets(q)
      BY <1>0, <2>1 DEF RollbackInv
    <3> QED
      BY <1>6, <2>1, <3>1, RestoreDoneEffect, MeetsFrame
  <2> QED
    BY <2>1, <2>2, <2>3 DEF RollbackInv, ChangedPaths
<1>7. CASE UndoReceipt
  BY <1>0, <1>7 DEF UndoReceipt, ReplaceReceipt, RollbackInv, RollbackMeets, ChangedPaths,
                    WorkerInv, RollbackLabels, HoldLabels, RestoreLabels
<1>8. CASE \/ Cleanup \/ CleanupRefused \/ RemoveJournal \/ RemoveMarker
           \/ PreflightRefused \/ DropJournal \/ \E p \in Paths : SweepOld(p)
  BY <1>8 DEF Cleanup, CleanupRefused, RemoveJournal, RemoveMarker, PreflightRefused,
              DropJournal, SweepOld, WorkerInv, RollbackLabels, RestoreLabels
<1>9. CASE Fault
  BY <1>9 DEF Fault, Crash, JournalFails, JournalSyncFails, ApplyFails, MarkerFails,
              ReceiptFails, ResolveFails, SwapInFails, RestoreInFails
<1>10. CASE Command \/ Environment \/ UNCHANGED vars
  BY <1>0, <1>10 DEF Command, Preview, Begin, Discard, Recover, CollectBackups, Environment, GameStarts,
               GameStops, UserEdit, vars, Idle, WorkerInv, RollbackInv, RollbackMeets,
               RollbackLabels, RestoreLabels, ChangedPaths
<1> QED
  BY <1>1, <1>2, <1>3, <1>4, <1>5, <1>6, <1>7, <1>8, <1>9, <1>10 DEF Next, ResolveStep

----------------------------------------------------------------------------
(* Theorems                                                                *)

\* The invariant of rollbacks holds in every reachable state, whatever fails.
LEMMA RollbackInvariant == Spec => []RollbackIInv
<1>1. Init => RollbackIInv
  BY InvInit DEF Inv, Init, RollbackIInv, WorkerInv, RollbackInv, RollbackLabels
<1>2. RollbackIInv /\ [Next]_vars => RollbackIInv'
  BY TypeStep, PhaseStep, WorkerStep, RollbackStep DEF RollbackIInv
<1> QED
  BY <1>1, <1>2, PTL DEF Spec

\* A rollback that gets to removing its journal has put back every file the
\* journal names, those the user edited included, and the previous receipt.
THEOREM RollbackRestores == Spec => []RollbackComplete
<1>1. RollbackIInv => RollbackComplete
  BY DEF RollbackIInv, WorkerInv, RollbackInv, RollbackComplete, RollbackLabels
<1> QED
  BY RollbackInvariant, <1>1, PTL

\* What preflight_rollback accepted never turns into drift on the way, so that
\* a rollback that started can go through to its end.
THEOREM RollbackMeetsNoDrift == Spec => []UndoNeverMeetsDrift
<1>1. RollbackIInv => UndoNeverMeetsDrift
  BY DEF RollbackIInv, WorkerInv, RollbackInv, UndoNeverMeetsDrift, RollbackLabels,
         HoldLabels, RestoreLabels
<1> QED
  BY RollbackInvariant, <1>1, PTL
===============================================================================
