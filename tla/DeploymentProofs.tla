--------------------------- MODULE DeploymentProofs ---------------------------
(***************************************************************************)
(* Proofs about the deployment engine, for any paths, files, profiles,     *)
(* faults and edits.                                                       *)
(***************************************************************************)
EXTENDS DeploymentSafety, TLAPS

----------------------------------------------------------------------------
(* Plans                                                                   *)

\* The value tx has outside a transaction is a plan.
LEMMA EmptyPlanTyped == EmptyPlan \in Plans
  BY DEF EmptyPlan, Plans, NoChange, Change, Kinds, Receipts, Content

\* The fields of a plan have their types.
LEMMA PlanFields ==
  ASSUME NEW plan \in Plans
  PROVE  /\ plan.prev \in Receipts /\ plan.target \in Receipts
         /\ \A p \in Paths : /\ plan.change[p].kind \in Kinds
                             /\ plan.change[p].prev \in Content
                             /\ plan.change[p].next \in Content
  BY DEF Plans, Change

\* A receipt is a function from the owned paths.
LEMMA ReceiptTyped ==
  ASSUME NEW r \in Receipts
  PROVE  /\ OwnedPaths(r) \subseteq Paths
         /\ \A p \in OwnedPaths(r) : r[p].hash \in Files /\ r[p].displaced \in Content
<1>1. CASE r = NoReceipt
  BY <1>1 DEF OwnedPaths
<1>2. ASSUME NEW D \in SUBSET Paths, r \in [D -> OwnedFile], r # NoReceipt
      PROVE  /\ OwnedPaths(r) \subseteq Paths
             /\ \A p \in OwnedPaths(r) : r[p].hash \in Files /\ r[p].displaced \in Content
  <2>1. OwnedPaths(r) = D /\ \A p \in D : r[p] \in OwnedFile
    BY <1>2 DEF OwnedPaths
  <2> QED
    BY <2>1 DEF OwnedFile
<1> QED
  BY <1>1, <1>2 DEF Receipts, ReceiptFiles

\* The target receipt of a plan is a receipt, and names the wanted paths.
LEMMA TargetTyped ==
  ASSUME NEW r \in Receipts, NEW lv \in [Paths -> Content], NEW want \in Profiles
  PROVE  /\ TargetReceipt(r, lv, want) \in ReceiptFiles
         /\ OwnedPaths(TargetReceipt(r, lv, want)) = DOMAIN want
<1>1. DOMAIN want \in SUBSET Paths /\ \A p \in DOMAIN want : want[p] \in Files
  BY DEF Profiles
<1>2. \A p \in DOMAIN want : Displaced(r, lv, want, p) \in Content
  BY <1>1, ReceiptTyped DEF Displaced, Content
<1>3. TargetReceipt(r, lv, want) \in [DOMAIN want -> OwnedFile]
  BY <1>1, <1>2 DEF TargetReceipt, OwnedFile
<1>4. TargetReceipt(r, lv, want) \in ReceiptFiles
  BY <1>1, <1>3 DEF ReceiptFiles
<1> QED
  BY <1>3, <1>4, NoReceiptIsNoFunction DEF OwnedPaths

\* plan_deployment_internal returns a plan.
LEMMA MakePlanTyped ==
  ASSUME NEW r \in Receipts, NEW lv \in [Paths -> Content], NEW want \in Profiles
  PROVE  MakePlan(r, lv, want) \in Plans
<1>1. DOMAIN want \in SUBSET Paths /\ \A p \in DOMAIN want : want[p] \in Files
  BY DEF Profiles
<1>2. ASSUME NEW p \in Paths
      PROVE  PlanChange(r, lv, want, p) \in Change
  <2>1. DesiredKind(r, lv, want, p) \in Kinds
    BY DEF DesiredKind, Kinds
  <2> QED
    BY <1>1, <2>1, ReceiptTyped DEF PlanChange, Change, NoChange, Kinds, Content
<1> QED
  BY <1>2, TargetTyped DEF MakePlan, Plans, Receipts

----------------------------------------------------------------------------
(* Files                                                                   *)

\* Whatever lies beside a game file is a file or nothing.
LEMMA SiblingTyped ==
  ASSUME TypeOK, NEW p \in Paths
  PROVE  sib[p].new \in Content /\ sib[p].old \in Content
         /\ sib[p].restore \in Content /\ sib[p].displaced \in Content
  BY DEF TypeOK, Slots

\* Writing a sibling keeps the types.
LEMMA SetSibTyped ==
  ASSUME TypeOK, NEW p \in Paths, NEW slot \in Slots, NEW c \in Content
  PROVE  SetSib(p, slot, c) \in [Paths -> [Slots -> Content]]
  BY DEF TypeOK, SetSib

\* A rename inside the game directory keeps the types.
LEMMA MoveTyped ==
  ASSUME TypeOK, NEW p \in Paths, NEW slot \in Slots,
         MoveAside(p, slot) \/ MoveIn(p, slot)
  PROVE  live' \in [Paths -> Content] /\ sib' \in [Paths -> [Slots -> Content]]
<1>1. live[p] \in Content /\ sib[p][slot] \in Content /\ Absent \in Content
  BY DEF TypeOK, Content
<1>2. CASE MoveAside(p, slot)
  BY <1>1, <1>2, SetSibTyped DEF TypeOK, MoveAside
<1>3. CASE MoveIn(p, slot)
  BY <1>1, <1>3, SetSibTyped DEF TypeOK, MoveIn
<1> QED
  BY <1>2, <1>3

----------------------------------------------------------------------------
(* Type correctness                                                        *)

\* The types hold of a fresh installation.
LEMMA TypeInit == Init => TypeOK
  BY EmptyPlanTyped, DeploymentConstants
     DEF Init, TypeOK, NoSiblings, Slots, Labels, Receipts, Content

\* Every step keeps the types.
LEMMA TypeStep == TypeOK /\ [Next]_vars => TypeOK'
<1> SUFFICES ASSUME TypeOK, [Next]_vars PROVE TypeOK'
  OBVIOUS
<1> USE DEF TypeOK, disk, worker, Continue, Hold, Release, StartRollback, Labels
<1>1. CASE CreateJournal
  BY <1>1 DEF CreateJournal
<1>2. CASE WriteJournal
  BY <1>2 DEF WriteJournal, Unobserved, ChangedPaths, PayloadPaths
<1>3. CASE Verify
  BY <1>3 DEF Verify
<1>4. CASE WriteReceipt
  BY <1>4, PlanFields DEF WriteReceipt, ReplaceReceipt, Receipts
<1>5. CASE CreateMarker
  BY <1>5 DEF CreateMarker
<1>6. CASE GameInterrupts
  BY <1>6 DEF GameInterrupts
<1>7. ASSUME NEW p \in Paths, Backup(p) PROVE TypeOK'
  BY <1>7, PlanFields DEF Backup, BackupPossible, Content
<1>8. ASSUME NEW p \in Paths, BackupRefused(p) PROVE TypeOK'
  BY <1>8, EmptyPlanTyped DEF BackupRefused
<1>9. ASSUME NEW p \in Paths, Quarantine(p) PROVE TypeOK'
  BY <1>9, MoveTyped DEF Quarantine, Slots
<1>10. ASSUME NEW p \in Paths, CopyNew(p) PROVE TypeOK'
  BY <1>10, SetSibTyped, PlanFields DEF CopyNew, Slots
<1>11. ASSUME NEW p \in Paths, LinkNew(p) PROVE TypeOK'
  BY <1>11, SiblingTyped DEF LinkNew
<1>12. ASSUME NEW p \in Paths, SwapOut(p) PROVE TypeOK'
  BY <1>12, MoveTyped DEF SwapOut, Slots
<1>13. ASSUME NEW p \in Paths, SwapIn(p) PROVE TypeOK'
  BY <1>13, MoveTyped DEF SwapIn, Slots
<1>14. ASSUME NEW p \in Paths, PlaceDone(p) PROVE TypeOK'
  BY <1>14 DEF PlaceDone, Slots, Content
<1>15. ASSUME NEW p \in Paths, StartRestore(p) PROVE TypeOK'
  BY <1>15 DEF StartRestore
<1>16. ASSUME NEW p \in Paths, ApplyRefused(p) PROVE TypeOK'
  BY <1>16 DEF ApplyRefused
<1>17. CASE Cleanup
  BY <1>17 DEF Cleanup, ChangedPaths
<1>18. CASE CleanupRefused
  BY <1>18 DEF CleanupRefused
<1>19. CASE RemoveJournal
  BY <1>19, EmptyPlanTyped DEF RemoveJournal, NoSiblings, Content
<1>20. CASE RemoveMarker
  BY <1>20 DEF RemoveMarker
<1>21. CASE Preflight
  BY <1>21 DEF Preflight, ChangedPaths
<1>22. CASE PreflightRefused
  BY <1>22 DEF PreflightRefused
<1>23. CASE UndoReceipt
  BY <1>23, PlanFields DEF UndoReceipt, ReplaceReceipt, Receipts
<1>24. CASE DropJournal
  BY <1>24, EmptyPlanTyped DEF DropJournal, NoSiblings, Content
<1>25. ASSUME NEW p \in Paths, SweepOld(p) PROVE TypeOK'
  BY <1>25, SetSibTyped DEF SweepOld, Slots, Content
<1>26. ASSUME NEW p \in Paths, UndoQuarantine(p) PROVE TypeOK'
  BY <1>26, SiblingTyped DEF UndoQuarantine, Slots, Content
<1>27. ASSUME NEW p \in Paths, UndoReplace(p) PROVE TypeOK'
  BY <1>27 DEF UndoReplace
<1>28. ASSUME NEW p \in Paths, UndoCreate(p) PROVE TypeOK'
  BY <1>28, PlanFields DEF UndoCreate, Slots, Content
<1>29. ASSUME NEW p \in Paths, RestoreCopy(p) PROVE TypeOK'
  BY <1>29, PlanFields DEF RestoreCopy, RestoreContent, Slots, Content
<1>30. ASSUME NEW p \in Paths, RestoreOut(p) PROVE TypeOK'
  BY <1>30, MoveTyped DEF RestoreOut, Slots
<1>31. ASSUME NEW p \in Paths, RestoreIn(p) PROVE TypeOK'
  BY <1>31, MoveTyped DEF RestoreIn, Slots
<1>32. ASSUME NEW p \in Paths, RestoreDone(p) PROVE TypeOK'
  BY <1>32 DEF RestoreDone, Slots, Content
<1>33. CASE Crash
  BY <1>33, EmptyPlanTyped DEF Crash
<1>34. CASE JournalFails
  BY <1>34, EmptyPlanTyped DEF JournalFails
<1>35. CASE JournalSyncFails
  BY <1>35 DEF JournalSyncFails, Unobserved, ChangedPaths
<1>36. CASE ApplyFails
  BY <1>36 DEF ApplyFails
<1>37. CASE MarkerFails
  BY <1>37 DEF MarkerFails
<1>38. CASE ReceiptFails
  BY <1>38 DEF ReceiptFails, Receipts
<1>39. CASE ResolveFails
  BY <1>39 DEF ResolveFails
<1>40. ASSUME NEW p \in Paths, SwapInFails(p) PROVE TypeOK'
  BY <1>40, SiblingTyped DEF SwapInFails, Slots, Content
<1>41. ASSUME NEW p \in Paths, RestoreInFails(p) PROVE TypeOK'
  BY <1>41, MoveTyped DEF RestoreInFails, Slots
<1>42. CASE GameStarts
  BY <1>42 DEF GameStarts
<1>43. CASE GameStops
  BY <1>43 DEF GameStops
<1>44. CASE Recover
  BY <1>44 DEF Recover
<1>45. CASE CollectBackups
  BY <1>45 DEF CollectBackups
<1>46. ASSUME NEW e \in UserEdits, UserEdit(e[1], e[2]) PROVE TypeOK'
  BY <1>46, DeploymentConstants DEF UserEdit
<1>47. ASSUME NEW want \in Desired, NEW allow \in BOOLEAN, NEW approved \in SUBSET Paths,
             Preview(want, allow, approved)
      PROVE  TypeOK'
  BY <1>47, MakePlanTyped, DeploymentConstants DEF Preview
<1>48. ASSUME NEW plan \in previews, Begin(plan) \/ Discard(plan) PROVE TypeOK'
  BY <1>48 DEF Begin, Discard, BackupPaths
<1>49. CASE UNCHANGED vars
  BY <1>49 DEF vars
<1> QED
  BY <1>1, <1>2, <1>3, <1>4, <1>5, <1>6, <1>7, <1>8, <1>9, <1>10, <1>11, <1>12, <1>13,
     <1>14, <1>15, <1>16, <1>17, <1>18, <1>19, <1>20, <1>21, <1>22, <1>23, <1>24, <1>25,
     <1>26, <1>27, <1>28, <1>29, <1>30, <1>31, <1>32, <1>33, <1>34, <1>35, <1>36, <1>37,
     <1>38, <1>39, <1>40, <1>41, <1>42, <1>43, <1>44, <1>45, <1>46, <1>47, <1>48, <1>49
     DEF Next, ApplyStep, ResolveStep, Fault, Environment, Command

\* No step of any activation, rollback, recovery or user leaves the declared
\* shapes: receipts name each path once and journals hold plans.
THEOREM Typing == Spec => []TypeOK
  BY TypeInit, TypeStep, PTL DEF Spec
----------------------------------------------------------------------------
(* The worker's position                                                   *)

\* Steps taken with the journal complete on disk.
JournaledLabels == Labels \ {"idle", "backup", "journal", "unmark"}

\* The program counter tells the state of the journal, and the paths in work
\* are paths of the plan.
PhaseInv ==
  /\ pc = "backup" => journal = "none"
  /\ pc = "journal" => journal = "torn"
  /\ pc \in JournaledLabels => journal = "durable"
  /\ pc = "unmark" => journal = "none"
  /\ todo \cup cur \subseteq ChangedPaths(tx)
  /\ ~Windows => pc \notin {"receipt_in", "undo_receipt_in"}

----------------------------------------------------------------------------
(* Displaced files and their backups                                       *)

\* A kept path keeps its displaced file; a new one displaces what was
\* observed; a change of a path given up has the displaced file as its result.
SoundPlan(plan) ==
  /\ \A p \in OwnedPaths(plan.target) \cap OwnedPaths(plan.prev) :
       plan.target[p].displaced = plan.prev[p].displaced
  /\ \A p \in OwnedPaths(plan.target) \ OwnedPaths(plan.prev) :
       plan.target[p].displaced # Absent
         => /\ plan.change[p].kind = "replace_unmanaged"
            /\ plan.change[p].prev = plan.target[p].displaced
  /\ \A p \in OwnedPaths(plan.prev) \ OwnedPaths(plan.target) :
       plan.change[p].kind # "none" => plan.change[p].next = plan.prev[p].displaced

\* Every path given up has a change.
GivenUp(plan) ==
  \A p \in OwnedPaths(plan.prev) \ OwnedPaths(plan.target) :
    plan.change[p].kind # "none"

BackedUp(r) == \A p \in OwnedPaths(r) : r[p].displaced \in backups \cup {Absent}

PlansInv == \A plan \in previews \cup {tx} : SoundPlan(plan)

\* The backups a transaction needs, and where the receipt stands in it.
BackupInv ==
  /\ BackedUp(receipt)
  /\ pc \in {"backup", "journal"} => receipt = tx.prev
  /\ pc \in {"backup", "journal"} \/ journal = "durable" =>
       \A p \in BackupPaths(tx) \ (IF pc = "backup" THEN todo ELSE {}) :
         tx.change[p].prev \in backups
  /\ journal = "durable" =>
       /\ BackedUp(tx.prev) /\ BackedUp(tx.target)
       /\ receipt \in {tx.prev, tx.target}
       /\ receipt # tx.prev \/ pc = "receipt" => GivenUp(tx)

Inv == TypeOK /\ PhaseInv /\ PlansInv /\ BackupInv

----------------------------------------------------------------------------
(* The invariant is inductive                                              *)

\* Outside a transaction there is nothing to displace.
LEMMA EmptyPlanSound == SoundPlan(EmptyPlan)
  BY DEF SoundPlan, EmptyPlan, OwnedPaths

\* Every plan the planner makes is sound.
LEMMA MakePlanSound ==
  ASSUME NEW r \in Receipts, NEW lv \in [Paths -> Content], NEW want \in Profiles
  PROVE  SoundPlan(MakePlan(r, lv, want))
<1> DEFINE plan == MakePlan(r, lv, want)
<1>1. /\ plan.prev = r
      /\ OwnedPaths(plan.target) = DOMAIN want
      /\ \A p \in DOMAIN want : plan.target[p].displaced = Displaced(r, lv, want, p)
      /\ \A p \in Paths : plan.change[p] = PlanChange(r, lv, want, p)
  BY TargetTyped DEF MakePlan, TargetReceipt
<1>2. DOMAIN want \subseteq Paths /\ OwnedPaths(r) \subseteq Paths
  BY ReceiptTyped DEF Profiles
<1>3. ASSUME NEW p \in DOMAIN want \ OwnedPaths(r), plan.target[p].displaced # Absent
      PROVE  plan.change[p].kind = "replace_unmanaged"
             /\ plan.change[p].prev = plan.target[p].displaced
  <2>1. lv[p] # want[p] /\ lv[p] # Absent /\ plan.target[p].displaced = lv[p]
    BY <1>1, <1>3 DEF Displaced
  <2>2. DesiredKind(r, lv, want, p) = "replace_unmanaged"
    BY <1>3, <2>1 DEF DesiredKind
  <2>3. PlanChange(r, lv, want, p)
          = [kind |-> "replace_unmanaged", prev |-> lv[p], next |-> want[p]]
    BY <1>3, <2>2 DEF PlanChange
  <2>4. plan.change[p] = PlanChange(r, lv, want, p)
    BY <1>1, <1>2, <1>3
  <2> QED
    BY <2>1, <2>3, <2>4
<1>4. ASSUME NEW p \in OwnedPaths(r) \ DOMAIN want, plan.change[p].kind # "none"
      PROVE  plan.change[p].next = r[p].displaced
  <2>1. plan.change[p] = PlanChange(r, lv, want, p)
    BY <1>1, <1>2, <1>4
  <2>2. lv[p] # Absent
    BY <1>4, <2>1 DEF PlanChange, NoChange
  <2>3. PlanChange(r, lv, want, p).next = r[p].displaced
    BY <1>4, <2>2 DEF PlanChange
  <2> QED
    BY <2>1, <2>3
<1>5. ASSUME NEW p \in DOMAIN want \cap OwnedPaths(r)
      PROVE  plan.target[p].displaced = r[p].displaced
  BY <1>1, <1>5 DEF Displaced
<1> QED
  BY <1>1, <1>3, <1>4, <1>5 DEF SoundPlan

\* With its backups made, a sound plan has every displaced file backed up.
LEMMA JournalBacked ==
  ASSUME TypeOK, SoundPlan(tx), BackedUp(tx.prev),
         \A p \in BackupPaths(tx) : tx.change[p].prev \in backups
  PROVE  BackedUp(tx.target)
<1> SUFFICES ASSUME NEW p \in OwnedPaths(tx.target)
             PROVE  tx.target[p].displaced \in backups \cup {Absent}
  BY DEF BackedUp
<1>1. p \in Paths
  BY PlanFields, ReceiptTyped DEF TypeOK
<1>2. CASE p \in OwnedPaths(tx.prev)
  BY <1>2 DEF SoundPlan, BackedUp
<1>3. CASE p \notin OwnedPaths(tx.prev)
  BY <1>1, <1>3 DEF SoundPlan, BackupPaths
<1> QED
  BY <1>2, <1>3

\* The collection of backups keeps what a receipt or the journal may restore.
LEMMA CollectKeeps ==
  ASSUME TypeOK, SoundPlan(tx), BackupInv, CollectBackups
  PROVE  BackupInv'
<1>1. UNCHANGED <<receipt, journal, tx, pc, todo>> /\ pc = "idle"
      /\ backups' = backups \ (Disposable \ Referenced)
  BY DEF CollectBackups, worker, Idle
<1>2. BackedUp(receipt)'
  BY <1>1 DEF BackupInv, BackedUp, Referenced
<1>3. ASSUME journal = "durable"
      PROVE  BackedUp(tx.prev)' /\ BackedUp(tx.target)'
             /\ \A p \in BackupPaths(tx) : tx.change[p].prev \in backups'
  <2>1. \A p \in ChangedPaths(tx) : {tx.change[p].prev, tx.change[p].next} \subseteq Referenced
    BY DEF Referenced
  <2>2. \A p \in OwnedPaths(receipt) : receipt[p].displaced \in Referenced
    BY DEF Referenced
  <2>3. BackupPaths(tx) \subseteq ChangedPaths(tx)
    BY DEF BackupPaths, ChangedPaths
  <2>4. OwnedPaths(tx.prev) \subseteq Paths /\ OwnedPaths(tx.target) \subseteq Paths
    BY PlanFields, ReceiptTyped DEF TypeOK
  <2>5. ASSUME NEW p \in OwnedPaths(tx.prev) PROVE tx.prev[p].displaced \in Referenced
    <3>1. CASE receipt = tx.prev
      BY <2>2, <2>5, <3>1
    <3>2. CASE receipt # tx.prev /\ p \in OwnedPaths(tx.target)
      BY <1>3, <2>2, <2>5, <3>2 DEF BackupInv, SoundPlan
    <3>3. CASE receipt # tx.prev /\ p \notin OwnedPaths(tx.target)
      <4>1. tx.change[p].kind # "none"
        BY <1>3, <2>5, <3>3 DEF BackupInv, GivenUp
      <4>2. tx.change[p].next = tx.prev[p].displaced
        BY <2>5, <3>3, <4>1 DEF SoundPlan
      <4> QED
        BY <2>1, <2>4, <2>5, <4>1, <4>2 DEF ChangedPaths
    <3> QED
      BY <3>1, <3>2, <3>3
  <2>6. ASSUME NEW p \in OwnedPaths(tx.target), tx.target[p].displaced # Absent
        PROVE  tx.target[p].displaced \in Referenced
    <3>1. CASE p \in OwnedPaths(tx.prev)
      BY <2>5, <2>6, <3>1 DEF SoundPlan
    <3>2. CASE p \notin OwnedPaths(tx.prev)
      BY <2>1, <2>4, <2>6, <3>2 DEF SoundPlan, ChangedPaths
    <3> QED
      BY <3>1, <3>2
  <2> QED
    BY <1>1, <1>3, <2>1, <2>3, <2>5, <2>6 DEF BackupInv, BackedUp
<1> QED
  BY <1>1, <1>2, <1>3 DEF BackupInv, GivenUp

\* Every step keeps the worker and the journal in phase.
LEMMA PhaseStep == TypeOK /\ PhaseInv /\ [Next]_vars => PhaseInv'
<1> SUFFICES ASSUME TypeOK, PhaseInv, [Next]_vars PROVE PhaseInv'
  OBVIOUS
<1> USE DEF PhaseInv, JournaledLabels, Labels, disk, worker, Continue, Hold, Release,
            StartRollback, Idle, MayChange, MayUndo, Unappliable
<1>1. CASE CreateJournal
  BY <1>1 DEF CreateJournal
<1>2. CASE WriteJournal
  BY <1>2 DEF WriteJournal, PayloadPaths
<1>3. CASE Verify
  BY <1>3 DEF Verify
<1>4. CASE WriteReceipt
  BY <1>4 DEF WriteReceipt, ReplaceReceipt
<1>5. CASE CreateMarker
  BY <1>5 DEF CreateMarker
<1>6. CASE GameInterrupts
  BY <1>6 DEF GameInterrupts
<1>7. ASSUME NEW p \in Paths, Backup(p) PROVE PhaseInv'
  BY <1>7 DEF Backup
<1>8. ASSUME NEW p \in Paths, BackupRefused(p) PROVE PhaseInv'
  BY <1>8 DEF BackupRefused
<1>9. ASSUME NEW p \in Paths, Quarantine(p) PROVE PhaseInv'
  BY <1>9 DEF Quarantine
<1>10. ASSUME NEW p \in Paths, CopyNew(p) PROVE PhaseInv'
  BY <1>10 DEF CopyNew
<1>11. ASSUME NEW p \in Paths, LinkNew(p) PROVE PhaseInv'
  BY <1>11 DEF LinkNew
<1>12. ASSUME NEW p \in Paths, SwapOut(p) PROVE PhaseInv'
  BY <1>12 DEF SwapOut
<1>13. ASSUME NEW p \in Paths, SwapIn(p) PROVE PhaseInv'
  BY <1>13 DEF SwapIn
<1>14. ASSUME NEW p \in Paths, PlaceDone(p) PROVE PhaseInv'
  BY <1>14 DEF PlaceDone
<1>15. ASSUME NEW p \in Paths, StartRestore(p) PROVE PhaseInv'
  BY <1>15 DEF StartRestore
<1>16. ASSUME NEW p \in Paths, ApplyRefused(p) PROVE PhaseInv'
  BY <1>16 DEF ApplyRefused
<1>17. CASE Cleanup
  BY <1>17 DEF Cleanup
<1>18. CASE CleanupRefused
  BY <1>18 DEF CleanupRefused
<1>19. CASE RemoveJournal
  BY <1>19 DEF RemoveJournal
<1>20. CASE RemoveMarker
  BY <1>20 DEF RemoveMarker
<1>21. CASE Preflight
  BY <1>21 DEF Preflight
<1>22. CASE PreflightRefused
  BY <1>22 DEF PreflightRefused
<1>23. CASE UndoReceipt
  BY <1>23 DEF UndoReceipt, ReplaceReceipt
<1>24. CASE DropJournal
  BY <1>24 DEF DropJournal
<1>25. ASSUME NEW p \in Paths, SweepOld(p) PROVE PhaseInv'
  BY <1>25 DEF SweepOld
<1>26. ASSUME NEW p \in Paths, UndoQuarantine(p) PROVE PhaseInv'
  BY <1>26 DEF UndoQuarantine
<1>27. ASSUME NEW p \in Paths, UndoReplace(p) PROVE PhaseInv'
  BY <1>27 DEF UndoReplace
<1>28. ASSUME NEW p \in Paths, UndoCreate(p) PROVE PhaseInv'
  BY <1>28 DEF UndoCreate
<1>29. ASSUME NEW p \in Paths, RestoreCopy(p) PROVE PhaseInv'
  BY <1>29 DEF RestoreCopy
<1>30. ASSUME NEW p \in Paths, RestoreOut(p) PROVE PhaseInv'
  BY <1>30 DEF RestoreOut
<1>31. ASSUME NEW p \in Paths, RestoreIn(p) PROVE PhaseInv'
  BY <1>31 DEF RestoreIn
<1>32. ASSUME NEW p \in Paths, RestoreDone(p) PROVE PhaseInv'
  BY <1>32 DEF RestoreDone
<1>33. CASE Crash
  BY <1>33 DEF Crash
<1>34. CASE JournalFails
  BY <1>34 DEF JournalFails
<1>35. CASE JournalSyncFails
  BY <1>35 DEF JournalSyncFails
<1>36. CASE ApplyFails
  BY <1>36 DEF ApplyFails
<1>37. CASE MarkerFails
  BY <1>37 DEF MarkerFails
<1>38. CASE ReceiptFails
  BY <1>38 DEF ReceiptFails
<1>39. CASE ResolveFails
  BY <1>39 DEF ResolveFails
<1>40. ASSUME NEW p \in Paths, SwapInFails(p) PROVE PhaseInv'
  BY <1>40 DEF SwapInFails
<1>41. ASSUME NEW p \in Paths, RestoreInFails(p) PROVE PhaseInv'
  BY <1>41 DEF RestoreInFails
<1>42. CASE GameStarts
  BY <1>42 DEF GameStarts
<1>43. CASE GameStops
  BY <1>43 DEF GameStops
<1>44. CASE Recover
  BY <1>44 DEF Recover
<1>45. CASE CollectBackups
  BY <1>45 DEF CollectBackups
<1>46. ASSUME NEW e \in UserEdits, UserEdit(e[1], e[2]) PROVE PhaseInv'
  BY <1>46 DEF UserEdit
<1>47. ASSUME NEW want \in Desired, NEW allow \in BOOLEAN, NEW approved \in SUBSET Paths,
             Preview(want, allow, approved)
      PROVE  PhaseInv'
  BY <1>47 DEF Preview
<1>48. ASSUME NEW plan \in previews, Begin(plan) \/ Discard(plan) PROVE PhaseInv'
  BY <1>48 DEF Begin, Discard, BackupPaths, ChangedPaths
<1>49. CASE UNCHANGED vars
  BY <1>49 DEF vars
<1> QED
  BY <1>1, <1>2, <1>3, <1>4, <1>5, <1>6, <1>7, <1>8, <1>9, <1>10, <1>11, <1>12, <1>13,
     <1>14, <1>15, <1>16, <1>17, <1>18, <1>19, <1>20, <1>21, <1>22, <1>23, <1>24, <1>25,
     <1>26, <1>27, <1>28, <1>29, <1>30, <1>31, <1>32, <1>33, <1>34, <1>35, <1>36, <1>37,
     <1>38, <1>39, <1>40, <1>41, <1>42, <1>43, <1>44, <1>45, <1>46, <1>47, <1>48, <1>49
     DEF Next, ApplyStep, ResolveStep, Fault, Environment, Command

\* Every plan previewed or under way stays sound.
LEMMA PlansStep == TypeOK /\ PlansInv /\ [Next]_vars => PlansInv'
<1> SUFFICES ASSUME TypeOK, PlansInv, [Next]_vars PROVE PlansInv'
  OBVIOUS
<1>1. CASE ApplyStep
  <2>1. tx' \in {tx, EmptyPlan} /\ previews' = previews
    BY <1>1 DEF ApplyStep, CreateJournal, WriteJournal, Verify, WriteReceipt, CreateMarker,
       GameInterrupts, Backup, BackupRefused, Quarantine, CopyNew, LinkNew, SwapOut, SwapIn,
       PlaceDone, StartRestore, ApplyRefused
  <2> QED
    BY <2>1, EmptyPlanSound DEF PlansInv
<1>2. CASE ResolveStep
  <2>1. tx' \in {tx, EmptyPlan} /\ previews' = previews
    BY <1>2 DEF ResolveStep, Cleanup, CleanupRefused, RemoveJournal, RemoveMarker, Preflight,
       PreflightRefused, UndoReceipt, DropJournal, SweepOld, UndoQuarantine, UndoReplace,
       UndoCreate, RestoreCopy, RestoreOut, RestoreIn, RestoreDone
  <2> QED
    BY <2>1, EmptyPlanSound DEF PlansInv
<1>3. CASE Fault
  <2>1. tx' \in {tx, EmptyPlan} /\ previews' \in {previews, {}}
    BY <1>3 DEF Fault, Crash, JournalFails, JournalSyncFails, ApplyFails, MarkerFails,
       ReceiptFails, ResolveFails, SwapInFails, RestoreInFails
  <2> QED
    BY <2>1, EmptyPlanSound DEF PlansInv
<1>4. CASE Environment \/ UNCHANGED vars
  BY <1>4 DEF Environment, GameStarts, GameStops, UserEdit, PlansInv, vars
<1>5. ASSUME NEW want \in Desired, NEW allow \in BOOLEAN, NEW approved \in SUBSET Paths,
             Preview(want, allow, approved)
      PROVE  PlansInv'
  BY <1>5, MakePlanSound, DeploymentConstants DEF Preview, PlansInv, TypeOK
<1>6. ASSUME NEW plan \in previews, Begin(plan) \/ Discard(plan) PROVE PlansInv'
  BY <1>6 DEF Begin, Discard, PlansInv
<1>7. CASE Recover \/ CollectBackups
  BY <1>7 DEF Recover, CollectBackups, PlansInv
<1> QED
  BY <1>1, <1>2, <1>3, <1>4, <1>5, <1>6, <1>7 DEF Next, Command

\* Every step keeps the backups that receipts and journals rely on, where the
\* receipt is replaced in one rename.
LEMMA BackupStep ==
  ~Windows /\ TypeOK /\ PhaseInv /\ PlansInv /\ BackupInv /\ [Next]_vars => BackupInv'
<1> SUFFICES ASSUME ~Windows, TypeOK, PhaseInv, PlansInv, BackupInv, [Next]_vars
             PROVE  BackupInv'
  OBVIOUS
<1> USE DEF TypeOK, PhaseInv, JournaledLabels, Labels, PlansInv, BackupInv, BackedUp,
            disk, worker, Continue, Hold, Release, StartRollback, Idle
<1>1. CASE CreateJournal
  BY <1>1 DEF CreateJournal
<1>2. CASE WriteJournal
  BY <1>2, JournalBacked DEF WriteJournal, BackupPaths
<1>3. CASE Verify
  BY <1>3 DEF Verify, TargetReached, GivenUp
<1>4. CASE WriteReceipt
  BY <1>4 DEF WriteReceipt, ReplaceReceipt
<1>5. CASE CreateMarker
  BY <1>5 DEF CreateMarker
<1>6. CASE GameInterrupts
  BY <1>6 DEF GameInterrupts
<1>7. ASSUME NEW p \in Paths, Backup(p) PROVE BackupInv'
  BY <1>7 DEF Backup, BackupPaths
<1>8. ASSUME NEW p \in Paths, BackupRefused(p) PROVE BackupInv'
  BY <1>8 DEF BackupRefused
<1>9. ASSUME NEW p \in Paths, Quarantine(p) PROVE BackupInv'
  BY <1>9 DEF Quarantine
<1>10. ASSUME NEW p \in Paths, CopyNew(p) PROVE BackupInv'
  BY <1>10 DEF CopyNew
<1>11. ASSUME NEW p \in Paths, LinkNew(p) PROVE BackupInv'
  BY <1>11 DEF LinkNew
<1>12. ASSUME NEW p \in Paths, SwapOut(p) PROVE BackupInv'
  BY <1>12 DEF SwapOut
<1>13. ASSUME NEW p \in Paths, SwapIn(p) PROVE BackupInv'
  BY <1>13 DEF SwapIn
<1>14. ASSUME NEW p \in Paths, PlaceDone(p) PROVE BackupInv'
  BY <1>14 DEF PlaceDone
<1>15. ASSUME NEW p \in Paths, StartRestore(p) PROVE BackupInv'
  BY <1>15 DEF StartRestore
<1>16. ASSUME NEW p \in Paths, ApplyRefused(p) PROVE BackupInv'
  BY <1>16 DEF ApplyRefused
<1>17. CASE Cleanup
  BY <1>17 DEF Cleanup
<1>18. CASE CleanupRefused
  BY <1>18 DEF CleanupRefused
<1>19. CASE RemoveJournal
  BY <1>19 DEF RemoveJournal
<1>20. CASE RemoveMarker
  BY <1>20 DEF RemoveMarker
<1>21. CASE Preflight
  BY <1>21 DEF Preflight
<1>22. CASE PreflightRefused
  BY <1>22 DEF PreflightRefused
<1>23. CASE UndoReceipt
  BY <1>23 DEF UndoReceipt, ReplaceReceipt
<1>24. CASE DropJournal
  BY <1>24 DEF DropJournal
<1>25. ASSUME NEW p \in Paths, SweepOld(p) PROVE BackupInv'
  BY <1>25 DEF SweepOld
<1>26. ASSUME NEW p \in Paths, UndoQuarantine(p) PROVE BackupInv'
  BY <1>26 DEF UndoQuarantine
<1>27. ASSUME NEW p \in Paths, UndoReplace(p) PROVE BackupInv'
  BY <1>27 DEF UndoReplace
<1>28. ASSUME NEW p \in Paths, UndoCreate(p) PROVE BackupInv'
  BY <1>28 DEF UndoCreate
<1>29. ASSUME NEW p \in Paths, RestoreCopy(p) PROVE BackupInv'
  BY <1>29 DEF RestoreCopy
<1>30. ASSUME NEW p \in Paths, RestoreOut(p) PROVE BackupInv'
  BY <1>30 DEF RestoreOut
<1>31. ASSUME NEW p \in Paths, RestoreIn(p) PROVE BackupInv'
  BY <1>31 DEF RestoreIn
<1>32. ASSUME NEW p \in Paths, RestoreDone(p) PROVE BackupInv'
  BY <1>32 DEF RestoreDone
<1>33. CASE Crash
  BY <1>33 DEF Crash
<1>34. CASE JournalFails
  BY <1>34 DEF JournalFails
<1>35. CASE JournalSyncFails
  BY <1>35, JournalBacked DEF JournalSyncFails, BackupPaths
<1>36. CASE ApplyFails
  BY <1>36 DEF ApplyFails
<1>37. CASE MarkerFails
  BY <1>37 DEF MarkerFails
<1>38. CASE ReceiptFails
  BY <1>38 DEF ReceiptFails
<1>39. CASE ResolveFails
  BY <1>39 DEF ResolveFails
<1>40. ASSUME NEW p \in Paths, SwapInFails(p) PROVE BackupInv'
  BY <1>40 DEF SwapInFails
<1>41. ASSUME NEW p \in Paths, RestoreInFails(p) PROVE BackupInv'
  BY <1>41 DEF RestoreInFails
<1>42. CASE GameStarts
  BY <1>42 DEF GameStarts
<1>43. CASE GameStops
  BY <1>43 DEF GameStops
<1>44. CASE Recover
  BY <1>44 DEF Recover
<1>45. CASE CollectBackups
  BY <1>45, CollectKeeps DEF CollectBackups, Idle
<1>46. ASSUME NEW e \in UserEdits, UserEdit(e[1], e[2]) PROVE BackupInv'
  BY <1>46 DEF UserEdit
<1>47. ASSUME NEW want \in Desired, NEW allow \in BOOLEAN, NEW approved \in SUBSET Paths,
             Preview(want, allow, approved)
      PROVE  BackupInv'
  BY <1>47 DEF Preview
<1>48. ASSUME NEW plan \in previews, Begin(plan) \/ Discard(plan) PROVE BackupInv'
  BY <1>48 DEF Begin, Discard, BackupPaths
<1>49. CASE UNCHANGED vars
  BY <1>49 DEF vars
<1> QED
  BY <1>1, <1>2, <1>3, <1>4, <1>5, <1>6, <1>7, <1>8, <1>9, <1>10, <1>11, <1>12, <1>13,
     <1>14, <1>15, <1>16, <1>17, <1>18, <1>19, <1>20, <1>21, <1>22, <1>23, <1>24, <1>25,
     <1>26, <1>27, <1>28, <1>29, <1>30, <1>31, <1>32, <1>33, <1>34, <1>35, <1>36, <1>37,
     <1>38, <1>39, <1>40, <1>41, <1>42, <1>43, <1>44, <1>45, <1>46, <1>47, <1>48, <1>49
     DEF Next, ApplyStep, ResolveStep, Fault, Environment, Command

----------------------------------------------------------------------------
(* Theorems                                                                *)

\* The inductive invariant holds of a fresh installation.
LEMMA InvInit == Init => Inv
<1> SUFFICES ASSUME Init PROVE Inv
  OBVIOUS
<1>1. TypeOK
  BY TypeInit
<1>2. PhaseInv
  BY DEF Init, PhaseInv, JournaledLabels, Labels
<1>3. PlansInv
  BY EmptyPlanSound DEF Init, PlansInv
<1>4. BackupInv
  BY DEF Init, BackupInv, BackedUp, OwnedPaths
<1> QED
  BY <1>1, <1>2, <1>3, <1>4 DEF Inv

\* The inductive invariant implies that displaced files are backed up.
LEMMA InvBacksUp == Inv => DisplacedBackedUp
  BY DEF Inv, BackupInv, BackedUp, DisplacedBackedUp, InForce

\* Where a receipt is replaced by one rename, every unmanaged file that a
\* profile displaced keeps its backup through switches, failures, rollbacks,
\* crashes and the collection of backups.
THEOREM DisplacedFilesKept ==
  ASSUME ~Windows
  PROVE  Spec => []DisplacedBackedUp
<1>1. Inv /\ [Next]_vars => Inv'
  BY TypeStep, PhaseStep, PlansStep, BackupStep DEF Inv
<1> QED
  BY InvInit, <1>1, InvBacksUp, PTL DEF Spec

\* What a step of the worker may do to the game.
LEMMA LiveStep ==
  ASSUME PhaseInv, Next, ~Idle, NEW p \in Paths, live'[p] # live[p], live \in [Paths -> Content]
  PROVE  journal = "durable" /\ p \in ChangedPaths(tx)
<1> USE DEF PhaseInv, JournaledLabels, Labels, disk, MayChange, MayUndo
<1>1. ASSUME NEW q \in Paths, Quarantine(q) \/ LinkNew(q) \/ SwapOut(q) \/ SwapIn(q) \/ SwapInFails(q)
      PROVE  journal = "durable" /\ p \in ChangedPaths(tx)
  BY <1>1 DEF Quarantine, LinkNew, SwapOut, SwapIn, SwapInFails, MoveAside, MoveIn
<1>2. ASSUME NEW q \in Paths, RestoreOut(q) \/ RestoreIn(q) \/ RestoreInFails(q)
      PROVE  journal = "durable" /\ p \in ChangedPaths(tx)
  BY <1>2 DEF RestoreOut, RestoreIn, RestoreInFails, MoveAside, MoveIn
<1>3. ASSUME NEW q \in Paths, UndoQuarantine(q) \/ UndoCreate(q)
      PROVE  journal = "durable" /\ p \in ChangedPaths(tx)
  BY <1>3 DEF UndoQuarantine, UndoCreate
<1>4. ASSUME NEW q \in Paths,
             \/ Backup(q) \/ BackupRefused(q) \/ CopyNew(q) \/ PlaceDone(q)
             \/ StartRestore(q) \/ ApplyRefused(q) \/ SweepOld(q)
             \/ UndoReplace(q) \/ RestoreCopy(q) \/ RestoreDone(q)
      PROVE  UNCHANGED live
  BY <1>4 DEF Backup, BackupRefused, CopyNew, PlaceDone, StartRestore, ApplyRefused,
              SweepOld, UndoReplace, RestoreCopy, RestoreDone
<1>5. CASE \/ CreateJournal \/ WriteJournal \/ Verify \/ WriteReceipt \/ CreateMarker
           \/ GameInterrupts \/ Cleanup \/ CleanupRefused \/ RemoveJournal
           \/ RemoveMarker \/ Preflight \/ PreflightRefused \/ UndoReceipt \/ DropJournal
  BY <1>5 DEF CreateJournal, WriteJournal, Verify, WriteReceipt, CreateMarker,
              GameInterrupts, Cleanup, CleanupRefused, RemoveJournal, RemoveMarker,
              Preflight, PreflightRefused, UndoReceipt, DropJournal
<1>6. CASE \/ Crash \/ JournalFails \/ JournalSyncFails \/ ApplyFails
           \/ MarkerFails \/ ReceiptFails \/ ResolveFails \/ GameStarts \/ GameStops
  BY <1>6 DEF Crash, JournalFails, JournalSyncFails, ApplyFails, MarkerFails,
              ReceiptFails, ResolveFails, GameStarts, GameStops
<1>7. ASSUME NEW e \in UserEdits, UserEdit(e[1], e[2])
      PROVE  FALSE
  BY <1>7 DEF UserEdit
<1>8. CASE Command
  BY <1>8 DEF Command, Preview, Begin, Discard, Recover, CollectBackups
<1> QED
  BY <1>1, <1>2, <1>3, <1>4, <1>5, <1>6, <1>7, <1>8
     DEF Next, ApplyStep, ResolveStep, Fault, Environment

\* No game file changes under the worker without a complete journal that names
\* it, so recovery knows of every file an interrupted activation touched.
THEOREM ChangesAreJournaled == Spec => LiveChangesAreJournaled
<1> DEFINE Journaled == ~Idle => \A p \in Paths :
             live'[p] # live[p] => journal = "durable" /\ p \in ChangedPaths(tx)
<1>1. Init => TypeOK /\ PhaseInv
  BY InvInit DEF Inv
<1>2. TypeOK /\ PhaseInv /\ [Next]_vars => (TypeOK /\ PhaseInv)'
  BY TypeStep, PhaseStep
<1>3. TypeOK /\ PhaseInv /\ [Next]_vars => [Journaled]_vars
  BY LiveStep DEF TypeOK
<1> QED
  BY <1>1, <1>2, <1>3, PTL DEF Spec, LiveChangesAreJournaled
===============================================================================
