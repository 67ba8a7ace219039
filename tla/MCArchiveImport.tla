---------------------------- MODULE MCArchiveImport ----------------------------
(***************************************************************************)
(* Instances of ArchiveImport for TLC.                                     *)
(***************************************************************************)
EXTENDS ArchiveImport, TLC

CONSTANTS a, e, f, b1, b2, l1

\* Two archives; then one of them again, or more archives than are accepted.
MCTwice == (b1 :> {{a, e}}) @@ (b2 :> {{e}, {a, e, f}})
================================================================================
