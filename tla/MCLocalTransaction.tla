---------------------- MODULE MCLocalTransaction ----------------------
(* A small instance of LocalTransaction: three edits of the user and      *)
(* three crashes and three failing calls.                                 *)
EXTENDS LocalTransaction, TLC

CONSTANTS edit1, edit2, edit3

ThreeEdits == {edit1, edit2, edit3}
=======================================================================
