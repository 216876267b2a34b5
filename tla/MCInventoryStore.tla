-------------------------- MODULE MCInventoryStore --------------------------
(***************************************************************************)
(* Two contexts on one inventory.                                          *)
(***************************************************************************)
EXTENDS InventoryStore

CONSTANTS window, worker, note

TwoContexts == {window, worker}
OneWriter == {window}
OneObject == {note}
OneReader == {worker}
=============================================================================
