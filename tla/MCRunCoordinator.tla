-------------------------- MODULE MCRunCoordinator --------------------------
(***************************************************************************)
(* Two realms that have the same vault open, each with its automatic drain *)
(* and one plan the user executes.                                         *)
(***************************************************************************)
EXTENDS RunCoordinator

CONSTANTS desktop, window, drain, click, none

TwoRealms == {desktop, window}
TwoCallers == {drain, click}
=============================================================================
