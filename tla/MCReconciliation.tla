-------------------------- MODULE MCReconciliation --------------------------
(* Instances of Reconciliation for TLC.                                    *)
EXTENDS Reconciliation

DefPaths == {1, 2}
DefIds == 1..5
DefNotes == {1}
DefWritten == [p \in {1} |-> {1}]
DefEdits == 1..4
DefClash == {{2, 3}}
=============================================================================
