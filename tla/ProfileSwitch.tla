----------------------------- MODULE ProfileSwitch -----------------------------
(***************************************************************************)
(* What the deployment engine promises: switching profiles is atomic, and  *)
(* the files that are not the manager's stay the user's.                   *)
(***************************************************************************)
EXTENDS DeploymentPlan

VARIABLES
  active,  \* the receipt of the profile in force
  theirs   \* the user's own file at each path, visible or displaced

Init ==
  /\ active = NoReceipt
  /\ theirs \in [Paths -> Content]

\* A path taken over with the very file the user has there: nothing is displaced.
Adopted(p) ==
  /\ p \in OwnedPaths(active') \ OwnedPaths(active)
  /\ theirs[p] = active'[p].hash

\* Another profile comes into force; its receipt remembers the user's files.
Switch ==
  /\ active' \in ReceiptFiles
  /\ theirs' = [p \in Paths |-> IF Adopted(p) THEN Absent ELSE theirs[p]]
  /\ \A p \in OwnedPaths(active') : active'[p].displaced = theirs'[p]

\* The user changes a file of their own that no profile covers.
UserEdit(p) ==
  /\ p \notin OwnedPaths(active)
  /\ theirs' \in [Paths -> Content]
  /\ \A q \in Paths \ {p} : theirs'[q] = theirs[q]
  /\ UNCHANGED active

Next == Switch \/ \E p \in Paths : UserEdit(p)

Spec == Init /\ [][Next]_<<active, theirs>>
=============================================================================
