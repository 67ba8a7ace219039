---------------------------- MODULE DeploymentPlan ----------------------------
(***************************************************************************)
(* The deployment planner of rrmm-deploy (plan_deployment_internal) as     *)
(* pure operators: what an activation will do to every game path, given    *)
(* the active receipt, the files found in the game and the files the       *)
(* profile wants.                                                          *)
(*                                                                         *)
(* A file is identified with its content (the code compares SHA-256), and  *)
(* Absent stands for "no such file".  A receipt is a function from the     *)
(* paths the manager owns to the recorded content and to the unmanaged     *)
(* file it displaced, Absent if none.                                      *)
(***************************************************************************)
CONSTANTS
  Paths,     \* game-relative paths
  Files,     \* file contents
  Absent,    \* no file
  NoReceipt  \* no receipts/<installation>.json on disk

ASSUME AbsentIsNoFile == Absent \notin Files

Content == Files \cup {Absent}

OwnedFile == [hash : Files, displaced : Content]

ReceiptFiles == UNION {[D -> OwnedFile] : D \in SUBSET Paths}

ASSUME NoReceiptIsNoFunction == NoReceipt \notin ReceiptFiles

Receipts == ReceiptFiles \cup {NoReceipt}

\* What a profile wants deployed: content per path.
Profiles == UNION {[D -> Files] : D \in SUBSET Paths}

OwnedPaths(r) == IF r = NoReceipt THEN {} ELSE DOMAIN r

----------------------------------------------------------------------------
(* Changes                                                                 *)

Kinds == {"none", "unchanged", "adopt", "create", "replace_managed",
          "replace_unmanaged", "remove", "restore"}

Change == [kind : Kinds, prev : Content, next : Content]

NoChange == [kind |-> "none", prev |-> Absent, next |-> Absent]

\* The kind of change for a path the profile wants.
DesiredKind(r, live, want, p) ==
  CASE live[p] = Absent                              -> "create"
    [] p \in OwnedPaths(r) /\ live[p] = want[p]      -> "unchanged"
    [] p \in OwnedPaths(r) /\ live[p] # want[p]      -> "replace_managed"
    [] p \notin OwnedPaths(r) /\ live[p] = want[p]   -> "adopt"
    [] OTHER                                         -> "replace_unmanaged"

\* A wanted path records the content observed; a path only the receipt names
\* records the receipt's content, whatever the file holds now.
PlanChange(r, live, want, p) ==
  IF p \in DOMAIN want
  THEN [kind |-> DesiredKind(r, live, want, p),
        prev |-> live[p], next |-> want[p]]
  ELSE IF p \in OwnedPaths(r) /\ live[p] # Absent
  THEN [kind |-> IF r[p].displaced = Absent THEN "remove" ELSE "restore",
        prev |-> r[p].hash, next |-> r[p].displaced]
  ELSE NoChange

\* Mistake: a file of the manager's own counts as displaced.
DisplacedObserved(r, live, want, p) ==
  IF live[p] = want[p] THEN Absent ELSE live[p]

\* The unmanaged file a wanted path displaces: carried over while the manager
\* keeps the path, none for an identical file, which is adopted.
Displaced(r, live, want, p) ==
  IF p \in OwnedPaths(r) THEN r[p].displaced
  ELSE IF live[p] = want[p] THEN Absent
  ELSE live[p]

\* Mistake: the receipt records the file observed, not the one to deploy.
ObservedReceipt(r, live, want) ==
  [p \in DOMAIN want |->
     [hash |-> live[p], displaced |-> Displaced(r, live, want, p)]]

TargetReceipt(r, live, want) ==
  [p \in DOMAIN want |->
     [hash |-> want[p], displaced |-> Displaced(r, live, want, p)]]

----------------------------------------------------------------------------
(* Blockers                                                                *)

\* Owned, wanted, and neither what the receipt records nor what is wanted:
\* ManagedFileMissing or ManagedFileDrifted unless exactly approved.
NeedsApproval(r, live, want) ==
  {p \in OwnedPaths(r) \cap DOMAIN want :
     live[p] # r[p].hash /\ live[p] # want[p]}

\* Paths that hold somebody else's different file (UnmanagedPath).
Collisions(r, live, want) ==
  {p \in DOMAIN want \ OwnedPaths(r) : live[p] \notin {Absent, want[p]}}

\* No blocker, and no approval left unconsumed.
PlanReady(r, live, want, allowUnmanaged, approved) ==
  /\ approved = NeedsApproval(r, live, want)
  /\ allowUnmanaged \/ Collisions(r, live, want) = {}

----------------------------------------------------------------------------
(* Plans                                                                   *)

Plans == [prev : Receipts, target : Receipts, change : [Paths -> Change]]

EmptyPlan == [prev   |-> NoReceipt,
              target |-> NoReceipt,
              change |-> [p \in Paths |-> NoChange]]

MakePlan(r, live, want) ==
  [prev   |-> r,
   target |-> TargetReceipt(r, live, want),
   change |-> [p \in Paths |-> PlanChange(r, live, want, p)]]

ChangedPaths(plan) == {p \in Paths : plan.change[p].kind # "none"}

\* Changes that touch a file: the others only move ownership.
PayloadPaths(plan) ==
  {p \in ChangedPaths(plan) :
     plan.change[p].kind \notin {"unchanged", "adopt"}}

\* Mistake: only the manager's own files are backed up.
ManagedBackupPaths(plan) ==
  {p \in Paths : plan.change[p].kind \in {"replace_managed", "restore"}}

BackupPaths(plan) ==
  {p \in Paths : plan.change[p].kind \in
     {"replace_managed", "replace_unmanaged", "restore"}}
=============================================================================
