----------------------------- MODULE MCDeployment -----------------------------
(***************************************************************************)
(* Instances of Deployment for TLC.                                        *)
(***************************************************************************)
EXTENDS DeploymentSafety, TLC

CONSTANTS p1, p2, m1, m2, u

\* Nothing, one mod, and two mods that replace the first and add a file.
MCDesired == {[p \in {} |-> m1], p1 :> m1, (p1 :> m2) @@ (p2 :> m1)}

\* One file, of one mod or of another.
MCOneFile == {[p \in {} |-> m1], p1 :> m1, p1 :> m2}

\* The user deletes the first file, or puts a copy of a mod there.
MCEdits == {<<p1, m1>>, <<p1, Absent>>}
===============================================================================
