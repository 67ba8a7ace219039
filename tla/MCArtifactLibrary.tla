--------------------------- MODULE MCArtifactLibrary ---------------------------
(***************************************************************************)
(* Instances of ArtifactLibrary for TLC.                                   *)
(***************************************************************************)
EXTENDS ArtifactLibrary

CONSTANTS x1, x2, y, p1, p2, q1, q2

\* Two revisions of a mod, of one authored package, and another mod.
MCSameMod == [a \in Artifacts |-> IF a = y THEN {} ELSE {x1, x2} \ {a}]

\* The other mod has a file in common with the second revision.
MCSameBytes == [a \in Artifacts |-> IF a = y THEN {x2} \cap Artifacts
                                    ELSE IF a = x2 THEN {y} \cap Artifacts ELSE {}]
================================================================================
