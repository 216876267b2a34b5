--------------------------- MODULE MCAutomaticSync ---------------------------
(***************************************************************************)
(* One window with its automatic drain and one plan the user executes.     *)
(***************************************************************************)
EXTENDS AutomaticSync

CONSTANTS window, drain, click, none

OneRealm == {window}
TwoCallers == {drain, click}
Watching == {{"startup-resume", "local-change"}}
Everything == {Triggers, {"local-change", "periodic"}}
=============================================================================
