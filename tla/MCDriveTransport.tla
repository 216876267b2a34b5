-------------------------- MODULE MCDriveTransport --------------------------
(***************************************************************************)
(* Instances of DriveTransport: requests that share one slot.              *)
(***************************************************************************)
EXTENDS DriveTransport

CONSTANTS list, upload

TwoRequests == {list, upload}
=============================================================================
