------------------------- MODULE OperationContract -------------------------
(***************************************************************************)
(* What the plugin promises about one planned operation, whatever the      *)
(* durable machinery behind it looks like.  An operation is opened before  *)
(* it touches a file, its physical effects happen only while it is open,   *)
(* it enters the canonical BASE when all of its effects have happened, it  *)
(* is closed after that, and it is dropped only if it has done nothing.    *)
(* EffectLifecycle is shown to implement this module.                      *)
(***************************************************************************)
CONSTANTS Op, Effect

VARIABLES
    status,     \* [Op -> Status]
    applied     \* the physical effects that have happened

vars == <<status, applied>>

Status == {"unopened", "open", "committed", "closed"}

OwnEffects(o) == {e \in Effect : e[1] = o}

Init == /\ status = [o \in Op |-> "unopened"]
        /\ applied = {}

Open(o) == /\ status[o] = "unopened"
           /\ status' = [status EXCEPT ![o] = "open"]
           /\ UNCHANGED applied

Apply(e) == /\ status[e[1]] = "open"
            /\ e \notin applied
            /\ applied' = applied \cup {e}
            /\ UNCHANGED status

Drop(o) == /\ status[o] = "open"
           /\ OwnEffects(o) \cap applied = {}
           /\ status' = [status EXCEPT ![o] = "unopened"]
           /\ UNCHANGED applied

Commit(o) == /\ status[o] = "open"
             /\ OwnEffects(o) \subseteq applied
             /\ status' = [status EXCEPT ![o] = "committed"]
             /\ UNCHANGED applied

Close(o) == /\ status[o] = "committed"
            /\ status' = [status EXCEPT ![o] = "closed"]
            /\ UNCHANGED applied

Next == \/ \E o \in Op : Open(o) \/ Drop(o) \/ Commit(o) \/ Close(o)
        \/ \E e \in Effect : Apply(e)

Spec == Init /\ [][Next]_vars
=============================================================================
