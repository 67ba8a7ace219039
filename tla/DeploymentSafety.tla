--------------------------- MODULE DeploymentSafety ---------------------------
(***************************************************************************)
(* The properties of the deployment engine.                                *)
(***************************************************************************)
EXTENDS Deployment

\* Every variable keeps its shape; in particular a receipt records contents for
\* the paths it names, never Absent, and backups are contents.
TypeOK ==
  /\ live \in [Paths -> Content]
  /\ sib \in [Paths -> [Slots -> Content]]
  /\ backups \subseteq Files
  /\ receipt \in Receipts /\ aside \in Receipts
  /\ journal \in {"none", "torn", "durable"} /\ marker \in BOOLEAN
  /\ tx \in Plans
  /\ previews \subseteq Plans
  /\ gameRunning \in BOOLEAN
  /\ pc \in Labels /\ todo \subseteq Paths /\ cur \subseteq Paths
  /\ undoing \in BOOLEAN
  /\ edited \subseteq Paths

----------------------------------------------------------------------------
(* The abstract state                                                      *)

\* The receipt in force: while a transaction is pending the commit marker
\* decides, not the receipt file (recover_incomplete).
InForce ==
  IF journal # "durable" THEN receipt
  ELSE IF marker THEN tx.target ELSE tx.prev

\* The user's own file at a path: displaced by the profile in force, under a
\* change of the journaled transaction, or simply there.
Theirs(p) ==
  IF p \in OwnedPaths(InForce) THEN InForce[p].displaced
  ELSE IF journal = "durable" /\ p \in ChangedPaths(tx)
  THEN IF marker THEN tx.change[p].next ELSE tx.change[p].prev
  ELSE live[p]

Abstract == INSTANCE ProfileSwitch
              WITH active <- InForce, theirs <- [p \in Paths |-> Theirs(p)]

\* Whatever is interrupted, an activation is a single step from one profile to
\* the next or nothing at all, and the files that are not the manager's come
\* through it unchanged (activate_prepared_with_failpoint, recover_incomplete).
SwitchesProfiles == Abstract!Spec

----------------------------------------------------------------------------
(* Safety                                                                  *)

\* After a crash or an error at any step, recover_incomplete gets past its
\* checks: a journal left behind never blocks the application for good, unless
\* somebody else changed a file the journal names.
RecoveryNeverStuck ==
  Idle /\ journal = "durable" /\ edited = {}
    => IF marker THEN CommitIntact ELSE PreflightPasses

\* Once preflight_rollback has accepted, every path still to be rolled back
\* meets its conditions, however often the rollback was interrupted before:
\* a rollback never stops half-way on RecoveryDrift.
UndoNeverMeetsDrift == pc = "undo" => \A p \in todo : RollbackMeets(p)

\* A rollback that reaches the removal of the journal has put back every file
\* and the receipt (rollback_journal).
RollbackComplete ==
  pc = "drop" => /\ receipt = tx.prev
                 /\ \A p \in ChangedPaths(tx) : live[p] = tx.change[p].prev

\* Every unmanaged file the manager displaced has its backup, as long as a
\* receipt or a plan under way may have to restore it: neither a switch, nor a
\* rollback, nor the collection of backups at start-up drops it.
DisplacedBackedUp ==
  \A r \in {receipt, InForce} : \A p \in OwnedPaths(r) :
    r[p].displaced \in backups \cup {Absent}

\* The user's own file is in the game or in a backup, except at the paths a pending
\* journal describes wrongly: the user changed the file while it was pending, or
\* before it was written and after the preview, unseen by the snapshots.
UserFilesSurvive ==
  \A p \in Paths \ edited : Theirs(p) \in backups \cup {Absent, live[p]}

\* The worker changes a game file only while its journal is complete on disk,
\* and never a file that the journal does not name.
LiveChangesAreJournaled ==
  [][~Idle => \A p \in Paths :
       live'[p] # live[p] => journal = "durable" /\ p \in ChangedPaths(tx)]_vars

\* Once the commit marker is written nothing the worker does touches the game
\* or the receipt: recovery only cleans up.
CommitIsFinal ==
  [][~Idle /\ marker /\ journal = "durable" => UNCHANGED <<live, receipt>>]_vars

----------------------------------------------------------------------------
(* Expectations of the documents and tests that the code does not meet     *)

\* Managed drift is detected when a removal is applied, at the latest: a
\* committed transaction took away the file the receipt records and no other
\* (the test removal_defers_managed_drift_detection_until_apply).
DriftSeenAtApply ==
  journal = "durable" /\ marker =>
    \A p \in Paths : Quarantined(p) => sib[p].old = tx.change[p].prev

\* Start-up recovery finds every journal readable: an interruption leaves a
\* complete journal or none (README.md, "durable journals").
JournalReadable == Idle => journal # "torn"

\* A plan without blockers that met no obstacle reaches its target
\* (DeploymentPlan::ready, verify_target_state).
ReadyPlanApplies == pc = "apply" /\ todo = {} => TargetReached

----------------------------------------------------------------------------
(* Liveness                                                                *)

\* Commands run to their end, recovery runs again after an error or a restart,
\* and the game is closed some day.
Fairness ==
  /\ WF_vars(ApplyStep) /\ WF_vars(ResolveStep)
  /\ WF_vars(Recover) /\ WF_vars(GameStops)

FairSpec == Spec /\ Fairness

\* deployment.lock is always released again.
LockReleased == ~Idle ~> Idle

Disturbance ==
  \/ Fault \/ GameStarts
  \/ \E e \in UserEdits : UserEdit(e[1], e[2])

\* Once crashes, errors and interference stop, a pending transaction is resolved,
\* unless it is one somebody else's edit or a torn journal has blocked.
RecoveryCompletes ==
  <>[][~Disturbance]_vars
    => []<>(journal # "durable" \/ edited # {})
=============================================================================
