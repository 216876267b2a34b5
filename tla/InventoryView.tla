--------------------------- MODULE InventoryView ---------------------------
(***************************************************************************)
(* What the verified inventory promises its readers: one value, the remote *)
(* account as of the canonical cursor, that appears and disappears as a    *)
(* whole, and a cursor that moves over a change only by taking the change  *)
(* into custody or by seeing the whole account anew.                       *)
(***************************************************************************)
EXTENDS Naturals, Sequences

CONSTANT Contents   \* what the account may hold

VARIABLES
    history,    \* the account's content at cursor 1, 2, ... so far
    at,         \* the canonical cursor; 0 before there is one
    owed,       \* changes the cursor has passed that are not reduced yet
    view        \* what readers are shown: a content, read whole or patched; or nothing

viewVars == <<history, at, owed, view>>

Shown(k, made) == view' = {[content |-> history[k], made |-> made]}
Hidden == view' = {}

ViewInit == Len(history) = 1 /\ at = 0 /\ owed = {} /\ view = {}

AccountChanges == /\ history' # history
                  /\ \E content \in Contents : history' = Append(history, content)
                  /\ UNCHANGED <<at, owed, view>>

\* the whole account is read again while nothing is owed
Rebase == \E k \in DOMAIN history :
    /\ at' = k /\ owed = {} /\ owed' = {} /\ Shown(k, "whole")
    /\ UNCHANGED history

\* the cursor moves on; what it passes is owed
LearnUpTo == \E k \in DOMAIN history :
    /\ k > at /\ at' = k /\ owed' = owed \cup ((at + 1)..k)
    /\ Shown(k, "patched") \/ Hidden
    /\ UNCHANGED history

Reduce == owed' \subseteq owed /\ UNCHANGED <<history, at, view>>

ViewNext == AccountChanges \/ Rebase \/ LearnUpTo \/ Reduce
ViewSpec == ViewInit /\ [][ViewNext]_viewVars
=============================================================================
