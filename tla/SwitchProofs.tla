----------------------------- MODULE SwitchProofs -----------------------------
(***************************************************************************)
(* Proofs that an activation is atomic: the commit marker decides once and *)
(* for all, and the engine implements ProfileSwitch, for any paths, files, *)
(* profiles and edits, with crashes and errors, on either platform.  Only  *)
(* a commit marker that is created and then reported as failed is left     *)
(* out: the code rolls that transaction back although it counts as         *)
(* committed.                                                              *)
(***************************************************************************)
EXTENDS RollbackProofs

----------------------------------------------------------------------------
(* Plans                                                                   *)

\* What each kind of change starts from and ends in.
SoundKind(plan, p) ==
  LET c == plan.change[p] IN
    /\ c.kind \in {"unchanged", "adopt"} => c.prev = c.next
    /\ c.kind = "create" => c.prev = Absent
    /\ c.kind = "remove" => c.prev # Absent /\ c.next = Absent
    /\ c.kind \in {"remove", "restore"}
         => p \in OwnedPaths(plan.prev) \ OwnedPaths(plan.target)
    /\ c.kind \notin {"none", "remove", "restore"} => p \in OwnedPaths(plan.target)

\* A wanted path has a change that ends in the recorded file; if it is new, its
\* displaced file is the one observed, unless that is the wanted one.
SoundTarget(plan, p) ==
  LET c == plan.change[p] IN
    /\ c.kind \notin {"none", "remove", "restore"}
    /\ c.next = plan.target[p].hash
    /\ p \notin OwnedPaths(plan.prev) =>
         plan.target[p].displaced = IF c.prev = c.next THEN Absent ELSE c.prev

SoundChanges(plan) ==
  /\ \A p \in Paths : SoundKind(plan, p)
  /\ \A p \in OwnedPaths(plan.target) : SoundTarget(plan, p)

\* Every plan has sound changes; a plan at work has a target.
ChangesInv ==
  /\ \A plan \in previews \cup {tx} : SoundChanges(plan)
  /\ \A plan \in previews : plan.target # NoReceipt
  /\ journal = "durable" \/ pc \in {"backup", "journal"} => tx.target # NoReceipt

\* Outside a transaction there is no change.
LEMMA EmptyPlanChanges == SoundChanges(EmptyPlan)
  BY DEF SoundChanges, SoundKind, SoundTarget, EmptyPlan, NoChange, OwnedPaths

\* Every plan the planner makes has sound changes and a target.
LEMMA MakePlanChanges ==
  ASSUME NEW r \in Receipts, NEW lv \in [Paths -> Content], NEW want \in Profiles
  PROVE  SoundChanges(MakePlan(r, lv, want)) /\ MakePlan(r, lv, want).target # NoReceipt
<1> DEFINE plan == MakePlan(r, lv, want)
<1>1. /\ plan.prev = r
      /\ OwnedPaths(plan.target) = DOMAIN want
      /\ \A p \in DOMAIN want : plan.target[p].hash = want[p]
      /\ \A p \in DOMAIN want : plan.target[p].displaced = Displaced(r, lv, want, p)
      /\ \A p \in Paths : plan.change[p] = PlanChange(r, lv, want, p)
  BY TargetTyped DEF MakePlan, TargetReceipt
<1>2. /\ DOMAIN want \subseteq Paths /\ \A p \in DOMAIN want : want[p] \in Files
      /\ OwnedPaths(r) \subseteq Paths /\ \A p \in OwnedPaths(r) : r[p].hash \in Files
  BY ReceiptTyped DEF Profiles
<1>3. plan.target # NoReceipt
  BY TargetTyped, NoReceiptIsNoFunction DEF MakePlan
<1>4. ASSUME NEW p \in DOMAIN want
      PROVE  SoundKind(plan, p) /\ SoundTarget(plan, p)
  <2>1. plan.change[p] = [kind |-> DesiredKind(r, lv, want, p), prev |-> lv[p], next |-> want[p]]
    BY <1>1, <1>2, <1>4 DEF PlanChange
  <2>2. /\ DesiredKind(r, lv, want, p) \in {"create", "unchanged", "adopt",
                                            "replace_managed", "replace_unmanaged"}
        /\ DesiredKind(r, lv, want, p) \in {"unchanged", "adopt"} => lv[p] = want[p]
        /\ DesiredKind(r, lv, want, p) = "create" => lv[p] = Absent
    BY DEF DesiredKind
  <2>3. plan.target[p].hash = want[p]
        /\ plan.target[p].displaced = Displaced(r, lv, want, p)
    BY <1>1, <1>4
  <2> HIDE DEF plan
  <2>4. SoundKind(plan, p)
    BY <1>1, <1>4, <2>1, <2>2 DEF SoundKind
  <2>5. SoundTarget(plan, p)
    BY <1>1, <1>4, <2>1, <2>2, <2>3 DEF SoundTarget, Displaced
  <2> QED
    BY <2>4, <2>5
<1>5. ASSUME NEW p \in Paths \ DOMAIN want
      PROVE  SoundKind(plan, p)
  <2>1. plan.change[p] = NoChange
        \/ /\ p \in OwnedPaths(r)
           /\ plan.change[p] = [kind |-> IF r[p].displaced = Absent THEN "remove" ELSE "restore",
                                prev |-> r[p].hash, next |-> r[p].displaced]
    BY <1>1, <1>5 DEF PlanChange
  <2> QED
    BY <1>1, <1>2, <1>5, <2>1, AbsentIsNoFile DEF SoundKind, NoChange
<1> QED
  BY <1>1, <1>2, <1>3, <1>4, <1>5 DEF SoundChanges

\* The plans of a step are those of before, but for one just made.
LEMMA PlanOrigins ==
  ASSUME [Next]_vars
  PROVE  /\ tx' \in {tx, EmptyPlan} \cup previews
         /\ \/ previews' \subseteq previews
            \/ \E want \in Desired : previews' = previews \cup {MakePlan(receipt, live, want)}
<1>1. CASE ApplyStep
  BY <1>1 DEF ApplyStep, CreateJournal, WriteJournal, Verify, WriteReceipt, CreateMarker,
     GameInterrupts, Backup, BackupRefused, Quarantine, CopyNew, LinkNew, SwapOut, SwapIn,
     PlaceDone, StartRestore, ApplyRefused
<1>2. CASE ResolveStep
  BY <1>2 DEF ResolveStep, Cleanup, CleanupRefused, RemoveJournal, RemoveMarker, Preflight,
     PreflightRefused, UndoReceipt, DropJournal, SweepOld, UndoQuarantine, UndoReplace,
     UndoCreate, RestoreCopy, RestoreOut, RestoreIn, RestoreDone
<1>3. CASE Fault
  BY <1>3 DEF Fault, Crash, JournalFails, JournalSyncFails, ApplyFails, MarkerFails,
     ReceiptFails, ResolveFails, SwapInFails, RestoreInFails
<1>4. CASE Environment \/ UNCHANGED vars
  BY <1>4 DEF Environment, GameStarts, GameStops, UserEdit, vars
<1>5. CASE Command
  BY <1>5 DEF Command, Preview, Begin, Discard, Recover, CollectBackups
<1> QED
  BY <1>1, <1>2, <1>3, <1>4, <1>5 DEF Next

\* When a transaction is at work, it was before, or has just begun.
LEMMA WorkOrigins ==
  ASSUME PhaseInv, [Next]_vars, journal' = "durable" \/ pc' \in {"backup", "journal"}
  PROVE  \/ UNCHANGED tx /\ (journal = "durable" \/ pc \in {"backup", "journal"})
         \/ tx' \in previews
<1> USE DEF PhaseInv, JournaledLabels, Labels, worker, disk, Idle,
            Continue, Hold, Release, StartRollback
<1>1. CASE \/ CreateJournal \/ WriteJournal \/ Verify \/ WriteReceipt \/ CreateMarker
           \/ GameInterrupts
  BY <1>1 DEF CreateJournal, WriteJournal, Verify, WriteReceipt, ReplaceReceipt,
              CreateMarker, GameInterrupts
<1>2. ASSUME NEW p \in Paths,
             \/ Backup(p) \/ BackupRefused(p) \/ Quarantine(p) \/ CopyNew(p) \/ LinkNew(p)
             \/ SwapOut(p) \/ SwapIn(p) \/ PlaceDone(p) \/ StartRestore(p) \/ ApplyRefused(p)
      PROVE  UNCHANGED tx /\ (journal = "durable" \/ pc \in {"backup", "journal"})
  BY <1>2 DEF Backup, BackupRefused, Quarantine, CopyNew, LinkNew, SwapOut, SwapIn, PlaceDone,
              StartRestore, ApplyRefused, MayChange, Unappliable
<1>3. CASE \/ Cleanup \/ CleanupRefused \/ RemoveJournal \/ RemoveMarker
           \/ Preflight \/ PreflightRefused \/ UndoReceipt \/ DropJournal
  BY <1>3 DEF Cleanup, CleanupRefused, RemoveJournal, RemoveMarker, Preflight,
              PreflightRefused, UndoReceipt, ReplaceReceipt, DropJournal
<1>4. ASSUME NEW p \in Paths,
             \/ SweepOld(p) \/ UndoQuarantine(p) \/ UndoReplace(p) \/ UndoCreate(p)
             \/ RestoreCopy(p) \/ RestoreOut(p) \/ RestoreIn(p) \/ RestoreDone(p)
      PROVE  UNCHANGED tx /\ journal = "durable"
  BY <1>4 DEF SweepOld, UndoQuarantine, UndoReplace, UndoCreate, RestoreCopy, RestoreOut,
              RestoreIn, RestoreDone, MayUndo
<1>5. CASE Fault
  BY <1>5 DEF Fault, Crash, JournalFails, JournalSyncFails, ApplyFails, MarkerFails,
     ReceiptFails, ResolveFails, SwapInFails, RestoreInFails
<1>6. CASE Environment \/ UNCHANGED vars
  BY <1>6 DEF Environment, GameStarts, GameStops, UserEdit, vars
<1>7. CASE Command
  BY <1>7 DEF Command, Preview, Begin, Discard, Recover, CollectBackups
<1> QED
  BY <1>1, <1>2, <1>3, <1>4, <1>5, <1>6, <1>7 DEF Next, ApplyStep, ResolveStep

\* Every step keeps the changes sound.
LEMMA ChangesStep == TypeOK /\ PhaseInv /\ ChangesInv /\ [Next]_vars => ChangesInv'
<1> SUFFICES ASSUME TypeOK, PhaseInv, ChangesInv, [Next]_vars PROVE ChangesInv'
  OBVIOUS
<1>1. ASSUME NEW want \in Desired
      PROVE  SoundChanges(MakePlan(receipt, live, want))
             /\ MakePlan(receipt, live, want).target # NoReceipt
  BY <1>1, MakePlanChanges, DeploymentConstants DEF TypeOK
<1>2. \A plan \in previews' : SoundChanges(plan) /\ plan.target # NoReceipt
  BY <1>1, PlanOrigins DEF ChangesInv
<1>3. SoundChanges(tx')
  BY PlanOrigins, EmptyPlanChanges DEF ChangesInv
<1>4. journal' = "durable" \/ pc' \in {"backup", "journal"} => tx'.target # NoReceipt
  BY WorkOrigins DEF ChangesInv
<1> QED
  BY <1>2, <1>3, <1>4 DEF ChangesInv

----------------------------------------------------------------------------
(* Committing                                                              *)

\* What holds from the first check of a plan to the end of its clean-up: the
\* plan still fits the receipt and the files, the commit marker is written with
\* the target receipt in place, and from then on there is only cleaning up.
CommitInv ==
  /\ pc \in {"backup", "journal"} => receipt = tx.prev /\ WatchedUnchanged(tx)
  /\ pc \in {"receipt", "receipt_in", "marker"} => GivenUp(tx)
  /\ pc = "marker" => receipt = tx.target
  /\ marker => pc \in {"idle", "cleanup", "sweep", "unmark"}
  /\ pc \in {"cleanup", "sweep"} => marker
  /\ marker /\ journal = "durable" => receipt = tx.target
  /\ pc = "sweep" => CommitIntact

\* Every step keeps commits in order, unless a marker may fail once it exists.
LEMMA CommitStep ==
  "sync" \notin Faults /\ PhaseInv /\ WorkerInv /\ CommitInv /\ [Next]_vars => CommitInv'
<1> SUFFICES ASSUME "sync" \notin Faults, PhaseInv, WorkerInv, CommitInv, [Next]_vars
             PROVE  CommitInv'
  OBVIOUS
<1> USE DEF PhaseInv, JournaledLabels, Labels, WorkerInv, RollbackLabels, RestoreLabels,
            HoldLabels, CommitInv, worker, disk, Idle, Continue, Hold, Release, StartRollback
<1>1. CASE \/ CreateJournal \/ WriteJournal \/ CreateMarker \/ GameInterrupts
  BY <1>1 DEF CreateJournal, WriteJournal, CreateMarker, GameInterrupts, WatchedUnchanged
<1>2. CASE Verify \/ WriteReceipt
  BY <1>2 DEF Verify, TargetReached, GivenUp, WriteReceipt, ReplaceReceipt
<1>3. ASSUME NEW p \in Paths, Backup(p) \/ BackupRefused(p)
      PROVE  CommitInv'
  BY <1>3 DEF Backup, BackupRefused, WatchedUnchanged
<1>4. ASSUME NEW p \in Paths, Quarantine(p) \/ CopyNew(p) \/ LinkNew(p) \/ SwapOut(p) \/ SwapIn(p)
      PROVE  CommitInv'
  BY <1>4 DEF Quarantine, CopyNew, LinkNew, SwapOut, SwapIn, MayChange
<1>5. ASSUME NEW p \in Paths, PlaceDone(p) \/ StartRestore(p) \/ ApplyRefused(p)
      PROVE  CommitInv'
  BY <1>5 DEF PlaceDone, StartRestore, ApplyRefused, MayChange, Unappliable
<1>6. CASE \/ Cleanup \/ CleanupRefused \/ RemoveJournal \/ RemoveMarker
           \/ \E p \in Paths : SweepOld(p)
  BY <1>6 DEF Cleanup, CleanupRefused, RemoveJournal, RemoveMarker, SweepOld, CommitIntact
<1>7. CASE \/ Preflight \/ PreflightRefused \/ UndoReceipt \/ DropJournal
  BY <1>7 DEF Preflight, PreflightRefused, UndoReceipt, ReplaceReceipt, DropJournal
<1>8. ASSUME NEW p \in Paths, UndoQuarantine(p) \/ UndoReplace(p) \/ UndoCreate(p)
      PROVE  CommitInv'
  BY <1>8 DEF UndoQuarantine, UndoReplace, UndoCreate, MayUndo
<1>9. ASSUME NEW p \in Paths, RestoreCopy(p) \/ RestoreOut(p) \/ RestoreIn(p) \/ RestoreDone(p)
      PROVE  CommitInv'
  <2>1. pc \in RestoreLabels /\ pc' \in RestoreLabels \cup {"apply", "undo"} /\ ~marker'
    BY <1>9 DEF RestoreCopy, RestoreOut, RestoreIn, RestoreDone
  <2> QED
    BY <2>1
<1>10. CASE Fault
  <2>1. CASE Crash \/ ResolveFails
    BY <2>1 DEF Crash, ResolveFails
  <2>2. CASE JournalFails \/ JournalSyncFails \/ ApplyFails \/ MarkerFails
    BY <2>2 DEF JournalFails, JournalSyncFails, ApplyFails, MarkerFails
  <2>3. CASE ReceiptFails
    BY <2>3 DEF ReceiptFails
  <2>4. ASSUME NEW p \in Paths, SwapInFails(p) \/ RestoreInFails(p)
        PROVE  CommitInv'
    <3>1. pc' \in {"idle", "preflight"} /\ ~marker'
      BY <2>4 DEF SwapInFails, RestoreInFails
    <3> QED
      BY <3>1
  <2> QED
    BY <1>10, <2>1, <2>2, <2>3, <2>4 DEF Fault
<1>11. CASE Environment \/ UNCHANGED vars
  BY <1>11 DEF Environment, GameStarts, GameStops, UserEdit, vars, WatchedUnchanged,
               CommitIntact, GivenUp
<1>12. CASE Command
  BY <1>12 DEF Command, Preview, Begin, Discard, Recover, CollectBackups, WatchedUnchanged
<1> QED
  BY <1>1, <1>2, <1>3, <1>4, <1>5, <1>6, <1>7, <1>8, <1>9, <1>10, <1>11, <1>12
     DEF Next, ApplyStep, ResolveStep

SwitchIInv == RollbackIInv /\ PlansInv /\ ChangesInv /\ CommitInv

\* The invariant holds in every reachable state.
LEMMA SwitchInvariant ==
  ASSUME "sync" \notin Faults
  PROVE  Spec => []SwitchIInv
<1>1. Init => PlansInv /\ ChangesInv /\ CommitInv
  BY InvInit, EmptyPlanChanges DEF Inv, Init, ChangesInv, CommitInv
<1>2. RollbackIInv /\ PlansInv /\ ChangesInv /\ CommitInv /\ [Next]_vars
        => (PlansInv /\ ChangesInv /\ CommitInv)'
  BY PlansStep, ChangesStep, CommitStep DEF RollbackIInv
<1> QED
  BY <1>1, <1>2, RollbackInvariant, PTL DEF Spec, SwitchIInv

\* Once the commit marker is written, nothing the worker does touches the game
\* or the receipt.
THEOREM CommitStays ==
  ASSUME "sync" \notin Faults
  PROVE  Spec => CommitIsFinal
<1> DEFINE Final == ~Idle /\ marker /\ journal = "durable" => UNCHANGED <<live, receipt>>
<1>1. SwitchIInv /\ [Next]_vars => [Final]_vars
  <2> SUFFICES ASSUME SwitchIInv, Next, ~Idle, marker, journal = "durable"
               PROVE  UNCHANGED <<live, receipt>>
    OBVIOUS
  <2>1. pc \in {"cleanup", "sweep"}
    BY DEF SwitchIInv, RollbackIInv, PhaseInv, CommitInv, Idle
  <2> USE DEF disk, Idle, MayChange, Unappliable, MayUndo
  <2>2. CASE ApplyStep
    BY <2>1, <2>2 DEF ApplyStep, CreateJournal, WriteJournal, Verify, WriteReceipt,
       CreateMarker, GameInterrupts, Backup, BackupRefused, Quarantine, CopyNew, LinkNew,
       SwapOut, SwapIn, PlaceDone, StartRestore, ApplyRefused
  <2>3. CASE ResolveStep
    BY <2>1, <2>3 DEF ResolveStep, Cleanup, CleanupRefused, RemoveJournal, RemoveMarker,
       Preflight, PreflightRefused, UndoReceipt, DropJournal, SweepOld, UndoQuarantine,
       UndoReplace, UndoCreate, RestoreCopy, RestoreOut, RestoreIn, RestoreDone
  <2>4. CASE Fault
    BY <2>1, <2>4 DEF Fault, Crash, JournalFails, JournalSyncFails, ApplyFails, MarkerFails,
       ReceiptFails, ResolveFails, SwapInFails, RestoreInFails
  <2>5. CASE Environment \/ Command
    BY <2>1, <2>5 DEF Environment, GameStarts, GameStops, UserEdit, Command, Preview, Begin,
       Discard, Recover, CollectBackups
  <2> QED
    BY <2>2, <2>3, <2>4, <2>5 DEF Next
<1> QED
  BY SwitchInvariant, <1>1, PTL DEF Spec, CommitIsFinal

----------------------------------------------------------------------------
(* The engine implements ProfileSwitch                                     *)

theirs == [p \in Paths |-> Theirs(p)]

\* A step that is no step of ProfileSwitch: no journal is completed or removed,
\* no marker written, and only journaled files change.
Quiet ==
  /\ (journal' = "durable") = (journal = "durable")
  /\ journal = "durable" => UNCHANGED <<tx, marker>>
  /\ journal # "durable" => UNCHANGED receipt
  /\ \A p \in Paths : live'[p] # live[p] => journal = "durable" /\ p \in ChangedPaths(tx)

\* Such a step leaves the abstract state alone.
LEMMA QuietStutters == Quiet => UNCHANGED <<InForce, theirs>>
<1> SUFFICES ASSUME Quiet PROVE UNCHANGED <<InForce, theirs>>
  OBVIOUS
<1>1. UNCHANGED InForce
  BY DEF Quiet, InForce
<1>2. ASSUME NEW p \in Paths PROVE Theirs(p)' = Theirs(p)
  <2>1. CASE p \in OwnedPaths(InForce)
    BY <1>1, <2>1 DEF Theirs
  <2>2. CASE p \notin OwnedPaths(InForce) /\ journal = "durable" /\ p \in ChangedPaths(tx)
    BY <1>1, <2>2 DEF Theirs, Quiet
  <2>3. CASE p \notin OwnedPaths(InForce) /\ ~(journal = "durable" /\ p \in ChangedPaths(tx))
    BY <1>1, <2>3 DEF Theirs, Quiet
  <2> QED
    BY <2>1, <2>2, <2>3
<1> QED
  BY <1>1, <1>2 DEF theirs

\* The user's file at a path is a content.
LEMMA TheirsTyped ==
  ASSUME TypeOK, NEW p \in Paths
  PROVE  Theirs(p) \in Content
<1>1. InForce \in Receipts
  BY PlanFields DEF TypeOK, InForce
<1> QED
  BY <1>1, ReceiptTyped, PlanFields DEF TypeOK, Theirs, Content

\* Most steps are quiet.
LEMMA QuietStep ==
  ASSUME "sync" \notin Faults, TypeOK, PhaseInv, Next,
         ~WriteJournal, ~JournalSyncFails, ~CreateMarker, ~RemoveJournal, ~DropJournal,
         \A e \in UserEdits : ~UserEdit(e[1], e[2])
  PROVE  Quiet
<1> USE DEF PhaseInv, JournaledLabels, Labels, worker, disk, Idle, MayChange, MayUndo, Unappliable,
            Continue, Hold, Release, StartRollback
<1>1. \A p \in Paths : live'[p] # live[p] => journal = "durable" /\ p \in ChangedPaths(tx)
  <2>1. CASE Idle
    <3>1. UNCHANGED live
      BY <2>1
         DEF Next, ApplyStep, CreateJournal, Verify, WriteReceipt, GameInterrupts,
         Backup, BackupRefused, Quarantine, CopyNew, LinkNew, SwapOut, SwapIn, PlaceDone,
         StartRestore, ApplyRefused, ResolveStep, Cleanup, CleanupRefused, RemoveMarker,
         Preflight, PreflightRefused, UndoReceipt, SweepOld, UndoQuarantine, UndoReplace,
         UndoCreate, RestoreCopy, RestoreOut, RestoreIn, RestoreDone, Fault, Crash,
         JournalFails, ApplyFails, MarkerFails, ReceiptFails, ResolveFails, SwapInFails,
         RestoreInFails, Environment, GameStarts, GameStops, Command, Preview, Begin, Discard,
         Recover, CollectBackups
    <3> QED
      BY <3>1
  <2>2. CASE ~Idle
    BY <2>2, LiveStep DEF TypeOK
  <2> QED
    BY <2>1, <2>2
<1> DEFINE Still == /\ (journal' = "durable") = (journal = "durable")
                    /\ journal = "durable" => UNCHANGED <<tx, marker>>
                    /\ journal # "durable" => UNCHANGED receipt
<1>2. Still
  <2>1. CASE CreateJournal \/ Verify \/ WriteReceipt \/ GameInterrupts
    BY <2>1 DEF CreateJournal, Verify, WriteReceipt, GameInterrupts
  <2>2. ASSUME NEW p \in Paths,
               \/ Backup(p) \/ BackupRefused(p) \/ Quarantine(p) \/ CopyNew(p) \/ LinkNew(p)
               \/ SwapOut(p) \/ SwapIn(p) \/ PlaceDone(p) \/ StartRestore(p) \/ ApplyRefused(p)
        PROVE  Still
    BY <2>2 DEF Backup, BackupRefused, Quarantine, CopyNew, LinkNew, SwapOut, SwapIn, PlaceDone,
                StartRestore, ApplyRefused
  <2>3. CASE Cleanup \/ CleanupRefused \/ RemoveMarker \/ Preflight \/ PreflightRefused \/ UndoReceipt
    BY <2>3 DEF Cleanup, CleanupRefused, RemoveMarker, Preflight, PreflightRefused, UndoReceipt
  <2>4. ASSUME NEW p \in Paths,
               \/ SweepOld(p) \/ UndoQuarantine(p) \/ UndoReplace(p) \/ UndoCreate(p)
               \/ RestoreCopy(p) \/ RestoreOut(p) \/ RestoreIn(p) \/ RestoreDone(p)
        PROVE  Still
    BY <2>4 DEF SweepOld, UndoQuarantine, UndoReplace, UndoCreate, RestoreCopy, RestoreOut,
                RestoreIn, RestoreDone
  <2>5. CASE Crash \/ JournalFails \/ ApplyFails \/ MarkerFails \/ ReceiptFails \/ ResolveFails
    BY <2>5 DEF Crash, JournalFails, ApplyFails, MarkerFails, ReceiptFails, ResolveFails
  <2>6. ASSUME NEW p \in Paths, SwapInFails(p) \/ RestoreInFails(p)
        PROVE  Still
    BY <2>6 DEF SwapInFails, RestoreInFails
  <2>7. CASE GameStarts \/ GameStops \/ Command
    BY <2>7 DEF GameStarts, GameStops, Command, Preview, Begin, Discard, Recover, CollectBackups
  <2> QED
    BY <2>1, <2>2, <2>3, <2>4, <2>5, <2>6, <2>7
       DEF Next, ApplyStep, ResolveStep, Fault, Environment
<1> QED
  BY <1>1, <1>2 DEF Quiet

\* Completing the journal changes nothing: the plan still fits what is there.
LEMMA JournalStutters ==
  ASSUME SwitchIInv, WriteJournal \/ JournalSyncFails
  PROVE  UNCHANGED <<InForce, theirs>>
<1>1. /\ pc = "journal" /\ journal = "torn" /\ journal' = "durable"
      /\ UNCHANGED <<live, receipt, marker, tx>>
  BY DEF WriteJournal, JournalSyncFails, SwitchIInv, RollbackIInv, PhaseInv
<1>2. receipt = tx.prev /\ ~marker /\ marker \in BOOLEAN /\ WatchedUnchanged(tx)
  BY <1>1 DEF SwitchIInv, CommitInv, RollbackIInv, TypeOK
<1>3. InForce = tx.prev /\ InForce' = tx.prev
  BY <1>1, <1>2 DEF InForce
<1>4. ASSUME NEW p \in Paths PROVE Theirs(p)' = Theirs(p)
  <2>1. CASE p \notin OwnedPaths(tx.prev) /\ p \in ChangedPaths(tx)
    <3>1. p \in OwnedPaths(tx.target)
      BY <2>1 DEF SwitchIInv, ChangesInv, SoundChanges, SoundKind, ChangedPaths
    <3> QED
      BY <1>1, <1>2, <1>3, <2>1, <3>1 DEF Theirs, WatchedUnchanged
  <2>2. CASE ~(p \notin OwnedPaths(tx.prev) /\ p \in ChangedPaths(tx))
    BY <1>1, <1>3, <2>2 DEF Theirs
  <2> QED
    BY <2>1, <2>2
<1> QED
  BY <1>3, <1>4 DEF theirs

\* Removing the journal changes nothing: a commit was checked just before, and
\* a rollback was complete.
LEMMA ResolvedStutters ==
  ASSUME "sync" \notin Faults, SwitchIInv, RemoveJournal \/ DropJournal
  PROVE  UNCHANGED <<InForce, theirs>>
<1>1. journal = "durable" /\ journal' = "none" /\ UNCHANGED <<live, receipt>>
  BY DEF RemoveJournal, DropJournal, SwitchIInv, RollbackIInv, PhaseInv, JournaledLabels, Labels
<1>2. CASE RemoveJournal
  <2>1. marker /\ CommitIntact
    BY <1>2 DEF RemoveJournal, SwitchIInv, CommitInv
  <2>2. InForce = tx.target /\ InForce' = tx.target
    BY <1>1, <2>1 DEF InForce, CommitIntact
  <2>3. ASSUME NEW p \in Paths PROVE Theirs(p)' = Theirs(p)
    <3>1. CASE p \notin OwnedPaths(tx.target) /\ p \in ChangedPaths(tx)
      <4>1. live[p] = tx.change[p].next
        BY <2>1, <3>1 DEF SwitchIInv, ChangesInv, SoundChanges, SoundKind, ChangedPaths,
                          CommitIntact
      <4> QED
        BY <1>1, <2>1, <2>2, <3>1, <4>1 DEF Theirs
    <3>2. CASE ~(p \notin OwnedPaths(tx.target) /\ p \in ChangedPaths(tx))
      BY <1>1, <2>2, <3>2 DEF Theirs
    <3> QED
      BY <3>1, <3>2
  <2> QED
    BY <2>2, <2>3 DEF theirs
<1>3. CASE DropJournal
  <2>1. ~marker /\ marker \in BOOLEAN /\ receipt = tx.prev
        /\ \A p \in ChangedPaths(tx) : live[p] = tx.change[p].prev
    BY <1>3 DEF DropJournal, SwitchIInv, CommitInv, RollbackIInv, RollbackInv, WorkerInv,
                RollbackLabels, TypeOK
  <2>2. InForce = tx.prev /\ InForce' = tx.prev
    BY <1>1, <2>1 DEF InForce
  <2>3. ASSUME NEW p \in Paths PROVE Theirs(p)' = Theirs(p)
    BY <1>1, <2>1, <2>2 DEF Theirs
  <2> QED
    BY <2>2, <2>3 DEF theirs
<1> QED
  BY <1>2, <1>3

\* The commit marker is where the switch happens.
LEMMA MarkerSwitches ==
  ASSUME SwitchIInv, CreateMarker
  PROVE  Abstract!Switch
<1>1. /\ pc = "marker" /\ journal = "durable" /\ journal' = "durable"
      /\ marker' = TRUE /\ UNCHANGED <<live, tx>>
  BY DEF CreateMarker, SwitchIInv, RollbackIInv, PhaseInv, JournaledLabels, Labels
<1>2. ~marker /\ GivenUp(tx) /\ SoundPlan(tx) /\ SoundChanges(tx) /\ tx.target # NoReceipt
      /\ tx \in Plans
  BY <1>1 DEF SwitchIInv, RollbackIInv, TypeOK, CommitInv, PlansInv, ChangesInv
<1>3. InForce = tx.prev /\ InForce' = tx.target
  BY <1>1, <1>2 DEF InForce
<1>4. InForce' \in Abstract!ReceiptFiles
  <2>1. tx.target \in ReceiptFiles
    BY <1>2, PlanFields DEF Receipts
  <2> QED
    BY <1>3, <2>1 DEF ReceiptFiles, OwnedFile, Content, Abstract!ReceiptFiles,
                      Abstract!OwnedFile, Abstract!Content
<1>5. OwnedPaths(tx.prev) \subseteq Paths /\ OwnedPaths(tx.target) \subseteq Paths
  BY <1>2, PlanFields, ReceiptTyped
<1> DEFINE taken(p) == /\ p \in OwnedPaths(tx.target) \ OwnedPaths(tx.prev)
                       /\ Theirs(p) = tx.target[p].hash
<1>6. ASSUME NEW p \in Paths
      PROVE  /\ Theirs(p)' = IF taken(p) THEN Absent ELSE Theirs(p)
             /\ p \in OwnedPaths(tx.target) => tx.target[p].displaced = Theirs(p)'
  <2>1. CASE p \in OwnedPaths(tx.target) \cap OwnedPaths(tx.prev)
    BY <1>1, <1>2, <1>3, <2>1 DEF Theirs, SoundPlan
  <2>2. CASE p \in OwnedPaths(tx.target) \ OwnedPaths(tx.prev)
    <3>1. SoundTarget(tx, p) /\ p \in ChangedPaths(tx)
      BY <1>2, <2>2 DEF SoundChanges, SoundTarget, ChangedPaths
    <3>2. Theirs(p) = tx.change[p].prev /\ Theirs(p)' = tx.target[p].displaced
      BY <1>1, <1>2, <1>3, <2>2, <3>1 DEF Theirs
    <3> QED
      BY <2>2, <3>1, <3>2 DEF SoundTarget
  <2>3. CASE p \in OwnedPaths(tx.prev) \ OwnedPaths(tx.target)
    <3>1. p \in ChangedPaths(tx) /\ tx.change[p].next = tx.prev[p].displaced
      BY <1>2, <2>3 DEF GivenUp, SoundPlan, ChangedPaths
    <3> QED
      BY <1>1, <1>3, <2>3, <3>1 DEF Theirs
  <2>4. CASE p \notin OwnedPaths(tx.prev) \cup OwnedPaths(tx.target)
    <3>1. p \notin ChangedPaths(tx)
      BY <1>2, <2>4 DEF SoundChanges, SoundKind, ChangedPaths
    <3> QED
      BY <1>1, <1>3, <2>4, <3>1 DEF Theirs
  <2> QED
    BY <2>1, <2>2, <2>3, <2>4
<1>7. \A p \in Paths : Abstract!Adopted(p) <=> taken(p)
  BY <1>3 DEF Abstract!Adopted, Abstract!OwnedPaths, OwnedPaths
<1> QED
  BY <1>3, <1>4, <1>5, <1>6, <1>7 DEF Abstract!Switch, Abstract!OwnedPaths, OwnedPaths

\* An edit by the user is one of a file of the user's own, or has no effect on
\* the user's files as they will be.
LEMMA EditMaps ==
  ASSUME SwitchIInv, NEW e \in UserEdits, UserEdit(e[1], e[2])
  PROVE  Abstract!UserEdit(e[1]) \/ UNCHANGED <<InForce, theirs>>
<1> DEFINE p == e[1]
<1>1. p \in Paths /\ e[2] \in Content
  BY DeploymentConstants
<1>2. /\ live' = [live EXCEPT ![p] = e[2]]
      /\ UNCHANGED <<receipt, journal, marker, tx>>
      /\ live \in [Paths -> Content] /\ TypeOK
  BY DEF UserEdit, SwitchIInv, RollbackIInv, TypeOK
<1>3. UNCHANGED InForce
  BY <1>2 DEF InForce
<1>4. \A q \in Paths \ {p} : Theirs(q)' = Theirs(q)
  BY <1>2, <1>3 DEF Theirs
<1>5. CASE p \in OwnedPaths(InForce) \/ (journal = "durable" /\ p \in ChangedPaths(tx))
  <2>1. Theirs(p)' = Theirs(p)
    BY <1>2, <1>3, <1>5 DEF Theirs
  <2> QED
    BY <1>3, <1>4, <2>1 DEF theirs
<1>6. CASE p \notin OwnedPaths(InForce) /\ ~(journal = "durable" /\ p \in ChangedPaths(tx))
  <2>1. Theirs(p)' = e[2]
    BY <1>1, <1>2, <1>3, <1>6 DEF Theirs
  <2>2. \A q \in Paths : Theirs(q)' \in Content
    BY <1>1, <1>2, <1>4, <2>1, TheirsTyped
  <2> QED
    BY <1>1, <1>3, <1>4, <1>6, <2>2
       DEF Abstract!UserEdit, Abstract!OwnedPaths, OwnedPaths, Abstract!Content, Content
<1> QED
  BY <1>5, <1>6

\* A fresh installation is one where no profile was ever in force.
LEMMA InitMaps == Init => Abstract!Init
<1> SUFFICES ASSUME Init PROVE Abstract!Init
  OBVIOUS
<1>1. InForce = NoReceipt
  BY DEF Init, InForce
<1>2. \A p \in Paths : Theirs(p) \in Content
  BY TypeInit, TheirsTyped
<1> QED
  BY <1>1, <1>2 DEF Abstract!Init, Abstract!Content, Content

\* Every step maps to a switch, an edit, or nothing.
LEMMA StepMaps ==
  "sync" \notin Faults /\ SwitchIInv /\ [Next]_vars => [Abstract!Next]_<<InForce, theirs>>
<1> SUFFICES ASSUME "sync" \notin Faults, SwitchIInv, [Next]_vars
             PROVE  Abstract!Next \/ UNCHANGED <<InForce, theirs>>
  OBVIOUS
<1>1. CASE CreateMarker
  BY <1>1, MarkerSwitches DEF Abstract!Next
<1>2. CASE WriteJournal \/ JournalSyncFails
  BY <1>2, JournalStutters
<1>3. CASE RemoveJournal \/ DropJournal
  BY <1>3, ResolvedStutters
<1>4. ASSUME NEW e \in UserEdits, UserEdit(e[1], e[2])
      PROVE  Abstract!Next \/ UNCHANGED <<InForce, theirs>>
  <2>1. e[1] \in Paths
    BY DeploymentConstants
  <2> QED
    BY <1>4, <2>1, EditMaps DEF Abstract!Next
<1>5. CASE UNCHANGED vars
  BY <1>5, QuietStutters DEF vars, disk, Quiet
<1>6. CASE /\ Next
           /\ ~CreateMarker /\ ~WriteJournal /\ ~JournalSyncFails
           /\ ~RemoveJournal /\ ~DropJournal
           /\ \A e \in UserEdits : ~UserEdit(e[1], e[2])
  BY <1>6, QuietStep, QuietStutters DEF SwitchIInv, RollbackIInv
<1> QED
  BY <1>1, <1>2, <1>3, <1>4, <1>5, <1>6

\* An activation is a single step from one profile to the next or nothing at
\* all, and the user's files come through it unchanged, whatever crashes, fails
\* or is edited in between.
THEOREM ActivationIsAtomic ==
  ASSUME "sync" \notin Faults
  PROVE  Spec => SwitchesProfiles
<1>1. SwitchIInv /\ [Next]_vars => [Abstract!Next]_<<InForce, theirs>>
  BY StepMaps
<1> QED
  BY SwitchInvariant, <1>1, InitMaps, PTL DEF Spec, SwitchesProfiles, Abstract!Spec, theirs
===============================================================================
