-------------------------- MODULE EffectLifecycle --------------------------
(***************************************************************************)
(* The durable life of a physical effect: how an operation of a plan is    *)
(* authorized, dispatched, verified, committed to the canonical BASE and   *)
(* finalized, and how a later planning pass recovers what a crash, a lost  *)
(* answer or a failed write left behind.                                   *)
(*                                                                         *)
(* One document holds the semantic generation, the operation intents with  *)
(* the stage of each effect, and the canonical journal.  A client is an    *)
(* asynchronous chain of awaits over that document: an automatic pass, a   *)
(* manual preview or run, a pass of another window.  All of them plan, and *)
(* therefore recover, outside the run lease; only while it executes does a *)
(* client hold it, and only then do the others not execute.  Each read of  *)
(* the document and each write are separate steps, and a write succeeds    *)
(* only if nobody has written since its read (persistenceRevision          *)
(* compare-and-swap).                                                      *)
(***************************************************************************)
EXTENDS Naturals, FiniteSets

CONSTANTS
    Op,                 \* operations that plans may contain
    Merge,              \* the clean text merges: a LOCAL effect, then a REMOTE one
    Remote,             \* effects whose port may answer verified-not-applied
    Glanced,            \*   those it answers for after one look: moves and trashes
    Provable,           \* effects whose absence recovery takes for proved by a look
    Lingering,          \* effects whose request may outlive the caller
    Client,             \* asynchronous chains that read and write the document
    Automatic,          \* the client whose passes the scheduler starts
    MaxDisturbances     \* bound on crashes, failures and unforced choices

Effect == {e \in Op \X {1, 2} : e[2] = 1 \/ e[1] \in Merge}

ASSUME ConstantsAssumption ==
    /\ Op # {}
    /\ Merge \subseteq Op
    /\ Remote \subseteq Effect
    /\ Glanced \subseteq Remote
    /\ Provable \subseteq Effect
    /\ Lingering \subseteq Effect
    /\ Automatic \in Client
    /\ MaxDisturbances \in Nat

VARIABLES
    doc,            \* the authority document
    view,           \* [Client -> "none", "current" or "stale"]: the snapshot held
    snap,           \* [Client -> Document]: its contents
    applied,        \* the effects that have happened to files
    inflight,       \* the effects whose request is under way
    planned,        \* operations of the plan the controller retains
    ctl,            \* [Client -> Control]: where each chain of awaits stands
    disturbances    \* how much of the bound is spent

vars == <<doc, view, snap, applied, inflight, planned, ctl, disturbances>>
world == <<applied, inflight>>
----------------------------------------------------------------------------
(* The document *)

Stage == {"intent-persisted", "dispatch-authorized", "outcome-unknown",
          "effect-verified", "state-committed"}
Reference == [by : {"none", "receipt", "recovery"}, gen : Nat]
Unreferenced == [by |-> "none", gen |-> 0]

\* an operation outside "intents" has its effects at the first stage
Document == [gen : Nat,
             intents : SUBSET Op,
             born : [Op -> Nat],
             stage : [Effect -> Stage],
             journal : [Op -> Reference]]
InitialDocument == [gen |-> 0,
                    intents |-> {},
                    born |-> [o \in Op |-> 0],
                    stage |-> [e \in Effect |-> "intent-persisted"],
                    journal |-> [o \in Op |-> Unreferenced]]

OwnEffects(o) == {e \in Effect : e[1] = o}
UnresolvedForgetsUnknown == {"dispatch-authorized"}
Unresolved == {"dispatch-authorized", "outcome-unknown"}
Verified == {"effect-verified", "state-committed"}

\* every effect of o is at one of the stages S
SomeAt(d, o, S) == \E e \in OwnEffects(o) : d.stage[e] \in S
AllAt(d, o, S) == \A e \in OwnEffects(o) : d.stage[e] \in S
Complete(d, o) == o \in d.intents /\ AllAt(d, o, {"state-committed"})
PartlyUnattempted(d, o) == SomeAt(d, o, {"intent-persisted"})
Unattempted(d, o) == AllAt(d, o, {"intent-persisted"})
Progressed(d, o) == AllAt(d, o, Stage \ {"intent-persisted"})
Committed(d, o) == d.journal[o] # Unreferenced

\* an intent recovery accepts: born in the current generation, and not
\* stopped between the effects of a merge
Valid(d, o) == /\ d.born[o] = d.gen
               /\ Unattempted(d, o) \/ Progressed(d, o)

WithStage(d, e, s) == [d EXCEPT !.stage[e] = s]
WithIntent(d, o, generation) ==
    [d EXCEPT !.intents = @ \cup {o}, !.born[o] = generation]
WithoutIntent(d, o) ==
    [d EXCEPT !.intents = @ \ {o},
              !.born[o] = 0,
              !.stage = [e \in Effect |-> IF e[1] = o THEN "intent-persisted"
                                                      ELSE d.stage[e]]]
Advanced(d) == [d EXCEPT !.gen = @ + 1]
JournaledNowhere(d, o, reference) == d
Journaled(d, o, reference) == [d EXCEPT !.journal[o] = reference]

\* a physical result may still be recorded for e
RecordableAnyStage(d, o, e) == o \in d.intents
Recordable(d, o, e) == o \in d.intents /\ d.stage[e] \in Unresolved
\* no sibling of e has crossed dispatch
AlwaysAlone(d, o, e) == TRUE
Alone(d, o, e) ==
    \A x \in OwnEffects(o) \ {e} : d.stage[x] = "intent-persisted"
\* the run may commit o
CommitReadyWhenFinalized(d, o) == o \in d.intents /\ AllAt(d, o, Verified)
CommitReady(d, o) == o \in d.intents /\ AllAt(d, o, {"effect-verified"})

RebasedEvery(d) == [d EXCEPT !.born = [o \in Op |-> IF o \in d.intents THEN d.gen
                                                        ELSE d.born[o]]]
\* the adapter realigns the intents that are wholly state-committed
Rebased(d) ==
    [d EXCEPT !.born = [o \in Op |-> IF Complete(d, o) THEN d.gen
                                                       ELSE d.born[o]]]
----------------------------------------------------------------------------
(* The chains of awaits *)

Outcome == {"none", "verified-effect", "verified-not-applied", "refused",
            "outcome-unknown", "state-committed"}
Reading == {"learn", "mirror", "preflight", "recover", "retire", "record",
            "verify", "canonical", "ready", "commit", "finalize", "run",
            "check", "persist", "authorize", "cursor"}
Control == [pc : Reading \cup {"idle", "observe", "guard", "await"},
            mode : {"recover", "matching", "dispatch"},
            again : BOOLEAN,        \* second round of one planning pass
            changed : BOOLEAN,      \* recovery changed the document
            partial : BOOLEAN,      \* the run skipped an operation
            todo : SUBSET Op,       \* operations still to recover or to run
            plan : SUBSET Op,       \* operations of the plan being built
            job : Op,
            left : SUBSET Effect,   \* effects of job still to be settled
            res : Outcome,
            gen : Nat,              \* generation the commit must still find
            born : Nat,             \* generation an intent is prepared in
            ref : Reference]

Idle == [pc |-> "idle", mode |-> "recover", again |-> FALSE,
         changed |-> FALSE, partial |-> FALSE, todo |-> {}, plan |-> {},
         job |-> CHOOSE o \in Op : TRUE, left |-> {}, res |-> "none",
         gen |-> 0, born |-> 0, ref |-> Unreferenced]

At(c, label) == ctl[c].pc = label
Goto(c, r) == ctl' = [ctl EXCEPT ![c] = r]
Stop(c) == Goto(c, Idle)
First(S) == CHOOSE e \in S : \A d \in S : e[2] <= d[2]

\* beginRun: whoever plans does not hold the run lease
LeaseFree(c) == \A x \in Client \ {c} : ctl[x].mode = "recover"

Calm == UNCHANGED disturbances
Disturb == /\ disturbances < MaxDisturbances
           /\ disturbances' = disturbances + 1

\* loadAuthority: the snapshot that the next decision of c is taken on
Load(c) ==
    /\ ctl[c].pc \in Reading
    /\ ctl[c].pc \in {"recover", "run"} => ctl[c].todo # {}
    /\ view[c] = "none"
    /\ view' = [view EXCEPT ![c] = "current"]
    /\ snap' = [snap EXCEPT ![c] = doc]
    /\ UNCHANGED <<doc, world, planned, ctl, disturbances>>

Holding(c, label) == At(c, label) /\ view[c] # "none"
Drop(c) == /\ view' = [view EXCEPT ![c] = "none"]
           /\ snap' = [snap EXCEPT ![c] = InitialDocument]
NoWrite(c) == Drop(c) /\ UNCHANGED doc

\* saveAuthority of a candidate derived from the snapshot of c
Save(c, candidate) ==
    /\ view[c] = "current"
    /\ doc' = Rebased(candidate)
    /\ view' = [x \in Client |-> IF x = c THEN "none"
                                 ELSE IF view[x] = "current" THEN "stale"
                                 ELSE view[x]]
    /\ snap' = [snap EXCEPT ![c] = InitialDocument]
\* the same write when another client wrote first
SaveRefused(c) == view[c] = "stale" /\ NoWrite(c)

NextEffect(c, e) ==
    LET rest == ctl[c].left \ {e}
    IN  [ctl[c] EXCEPT !.left = rest,
                       !.res = "none",
                       !.pc = IF rest = {} THEN "verify"
                              ELSE IF ctl[c].mode = "dispatch" THEN "authorize"
                              ELSE "observe"]
\* recovery goes on with its queue, a run with its plan
Pass(c) == [Idle EXCEPT !.pc = "recover", !.again = ctl[c].again,
                        !.changed = ctl[c].changed, !.plan = ctl[c].plan,
                        !.todo = ctl[c].todo \ {ctl[c].job}]
Recovered(c) == [Pass(c) EXCEPT !.changed = TRUE]
Run(todo, partial) == [Idle EXCEPT !.pc = "run", !.mode = "dispatch",
                                   !.todo = todo, !.partial = partial]
Ran(c) == Run(ctl[c].todo, ctl[c].partial)
Skipped(c) == Run(ctl[c].todo, TRUE)
Finished(c) == IF ctl[c].mode = "recover" THEN Recovered(c) ELSE Ran(c)
----------------------------------------------------------------------------
(* Planning: assemble, learn the remote feed, recover, keep the plan *)

\* the feed may hold a batch that is not learned yet
AssembleRound(c, again) ==
    \/ /\ Goto(c, [Idle EXCEPT !.pc = "preflight", !.again = again])
       /\ IF c = Automatic THEN Calm ELSE Disturb
    \/ /\ Goto(c, [Idle EXCEPT !.pc = "learn", !.again = again])
       /\ Disturb

BeginPlanning(c) ==
    /\ At(c, "idle")
    /\ AssembleRound(c, FALSE)
    /\ UNCHANGED <<doc, view, snap, world, planned>>

\* append the batch; a lost race fails the pass
Learn(c) ==
    /\ Holding(c, "learn")
    /\ \/ Save(c, Advanced(snap[c])) /\ Goto(c, [ctl[c] EXCEPT !.pc = "mirror"])
       \/ SaveRefused(c) /\ Stop(c)
    /\ UNCHANGED <<world, planned, disturbances>>

\* move the cursor mirror; three races fail the pass
Mirror(c) ==
    /\ Holding(c, "mirror")
    /\ \/ /\ Save(c, Advanced(snap[c]))
          /\ Goto(c, [ctl[c] EXCEPT !.pc = "preflight"])
       \/ SaveRefused(c) /\ (Stop(c) \/ UNCHANGED ctl)
    /\ UNCHANGED <<world, planned, disturbances>>

\* every intent must be valid, and what it verified must still be true
Preflight(c) ==
    /\ Holding(c, "preflight")
    /\ NoWrite(c)
    /\ LET d == snap[c] IN
       \/ /\ \A o \in d.intents : Valid(d, o)
          /\ Goto(c, [ctl[c] EXCEPT !.pc = "recover",
                                    !.todo = d.intents,
                                    !.plan = {o \in Op : ~Committed(d, o)}])
          /\ Calm
       \/ /\ \E o \in d.intents : ~Valid(d, o)
          /\ Stop(c) /\ Calm
       \/ Stop(c) /\ Disturb
    /\ UNCHANGED <<world, planned>>

SelectIntent(c, o) ==
    /\ Holding(c, "recover")
    /\ o \in ctl[c].todo
    /\ NoWrite(c)
    /\ LET d == snap[c]
           left == {e \in OwnEffects(o) : d.stage[e] \in Unresolved}
           work == [ctl[c] EXCEPT !.job = o, !.left = left]
       IN  \/ /\ o \notin d.intents \/ (Valid(d, o) /\ Complete(d, o))
              /\ Goto(c, [ctl[c] EXCEPT !.todo = @ \ {o}])
           \/ /\ o \in d.intents /\ ~Valid(d, o)
              /\ Stop(c)
           \/ /\ o \in d.intents /\ Valid(d, o) /\ ~Complete(d, o)
              /\ Goto(c, [work EXCEPT !.pc = IF Unattempted(d, o) THEN "retire"
                                             ELSE IF left = {} THEN "verify"
                                             ELSE "observe"])
    /\ UNCHANGED <<world, planned, disturbances>>

\* an intent that was never authorized is removed
RetireUnattempted(c) ==
    /\ Holding(c, "retire")
    /\ LET o == ctl[c].job
           d == snap[c]
           retirable == o \in d.intents /\ d.born[o] = d.gen /\ Unattempted(d, o)
       IN  \/ /\ retirable
              /\ Save(c, WithoutIntent(d, o))
              /\ IF ctl[c].mode = "recover" THEN Goto(c, Recovered(c)) ELSE Stop(c)
           \/ retirable /\ SaveRefused(c) /\ Stop(c)
           \/ ~retirable /\ NoWrite(c) /\ Stop(c)
    /\ UNCHANGED <<world, planned, disturbances>>

\* what a look at the file shows
ConvergedOnceSent(e) == e \in applied \cup inflight
Converged(e) == e \in applied

\* look at the file: it may prove the effect, prove its absence, or neither
Observe(c) ==
    /\ At(c, "observe")
    /\ LET e == First(ctl[c].left)
           sees(outcome) == Goto(c, [ctl[c] EXCEPT !.pc = "record", !.res = outcome])
       IN  \/ Converged(e) /\ sees("verified-effect") /\ Calm
           \/ ~Converged(e) /\ e \in Provable /\ sees("verified-not-applied") /\ Calm
           \/ ~Converged(e) /\ e \notin Provable /\ sees("outcome-unknown") /\ Calm
           \/ sees("outcome-unknown") /\ Disturb
    /\ UNCHANGED <<doc, view, snap, world, planned>>

\* recordPhysicalResult, and what its caller makes of the answer
Record(c) ==
    /\ Holding(c, "record")
    /\ LET o == ctl[c].job
           e == First(ctl[c].left)
           d == snap[c]
           res == ctl[c].res
           recordable == Recordable(d, o, e)
           alone == Alone(d, o, e)
           absent == res \in {"verified-not-applied", "refused"}
           refused == IF res = "refused" THEN Goto(c, Skipped(c)) ELSE Stop(c)
       IN  \/ /\ recordable /\ res = "verified-effect"
              /\ Save(c, WithStage(d, e, "effect-verified"))
              /\ \/ Goto(c, NextEffect(c, e)) /\ Calm
                 \/ ctl[c].mode = "dispatch" /\ Stop(c) /\ Disturb
           \/ /\ recordable /\ absent /\ alone
              /\ Save(c, WithoutIntent(d, o))
              /\ IF ctl[c].mode = "recover" THEN Goto(c, Recovered(c)) ELSE refused
              /\ Calm
           \/ /\ recordable /\ res # "verified-effect" /\ ~(absent /\ alone)
              /\ Save(c, WithStage(d, e, "outcome-unknown"))
              /\ refused /\ Calm
           \/ recordable /\ SaveRefused(c) /\ Stop(c) /\ Calm
           \/ /\ o \in d.intents /\ d.stage[e] \in Verified /\ ctl[c].mode # "dispatch"
              /\ NoWrite(c) /\ Goto(c, NextEffect(c, e)) /\ Calm
           \/ /\ ~recordable
              /\ o \in d.intents /\ d.stage[e] \in Verified => ctl[c].mode = "dispatch"
              /\ NoWrite(c) /\ Stop(c) /\ Calm
    /\ UNCHANGED <<world, planned>>

\* every effect must be durably verified before a receipt exists
Verify(c) ==
    /\ Holding(c, "verify")
    /\ NoWrite(c)
    /\ LET o == ctl[c].job
           d == snap[c]
           live == ctl[c].mode = "dispatch"
           ready == /\ o \in d.intents
                    /\ AllAt(d, o, IF live THEN {"effect-verified"} ELSE Verified)
                    /\ live \/ Valid(d, o)
       IN  \/ /\ ready
              /\ Goto(c, [ctl[c] EXCEPT
                    !.pc = "canonical",
                    !.res = IF AllAt(d, o, {"effect-verified"}) THEN "verified-effect"
                                                                ELSE "state-committed",
                    !.ref = IF live THEN [by |-> "receipt", gen |-> 0]
                                    ELSE [by |-> "recovery", gen |-> d.born[o]]])
           \/ ~ready /\ Stop(c)
    /\ UNCHANGED <<world, planned, disturbances>>

\* a prior commit counts only with the very same evidence reference
Canonical(c) ==
    /\ Holding(c, "canonical")
    /\ NoWrite(c)
    /\ LET d == snap[c]
           prior == d.journal[ctl[c].job] = ctl[c].ref
       IN  \/ prior /\ Goto(c, [ctl[c] EXCEPT !.pc = "finalize"])
           \/ /\ ~prior /\ ctl[c].mode # "recover"
              /\ Goto(c, [ctl[c] EXCEPT !.pc = "ready"])
           \/ /\ ~prior /\ ctl[c].mode = "recover" /\ ctl[c].res = "verified-effect"
              /\ Goto(c, [ctl[c] EXCEPT !.pc = "commit", !.gen = d.gen])
           \/ /\ ~prior /\ ctl[c].mode = "recover" /\ ctl[c].res # "verified-effect"
              /\ Stop(c)
    /\ UNCHANGED <<world, planned, disturbances>>

\* the run looks once more before it commits
Ready(c) ==
    /\ Holding(c, "ready")
    /\ NoWrite(c)
    /\ LET o == ctl[c].job
           ready == CommitReady(snap[c], o)
       IN  \/ ready /\ Goto(c, [ctl[c] EXCEPT !.pc = "commit"])
           \/ ~ready /\ Stop(c)
    /\ UNCHANGED <<world, planned, disturbances>>

\* BASE, mapping and journal change, and with them the semantic generation;
\* repeating a commit may find BASE as it should be and leave it alone
Commit(c) ==
    /\ Holding(c, "commit")
    /\ LET o == ctl[c].job
           d == snap[c]
           journaled == Journaled(d, o, ctl[c].ref)
           current == d.gen = ctl[c].gen
       IN  \/ /\ current
              /\ \/ Save(c, Advanced(journaled))
                 \/ Committed(d, o) /\ Save(c, journaled)
              /\ Goto(c, [ctl[c] EXCEPT !.pc = "finalize"])
           \/ current /\ SaveRefused(c) /\ Stop(c)
           \/ ~current /\ NoWrite(c) /\ Stop(c)
    /\ UNCHANGED <<world, planned, disturbances>>

\* markEffectStateCommitted, effect after effect
Finalize(c) ==
    /\ Holding(c, "finalize")
    /\ LET o == ctl[c].job
           d == snap[c]
           rest == {e \in OwnEffects(o) : d.stage[e] # "state-committed"}
           e == First(rest)
           due == o \in d.intents /\ rest # {}
       IN  \/ /\ o \in d.intents /\ rest = {}
              /\ NoWrite(c) /\ Goto(c, Finished(c))
           \/ /\ due /\ d.stage[e] = "effect-verified"
              /\ Save(c, WithStage(d, e, "state-committed"))
              /\ UNCHANGED ctl
           \/ /\ due /\ d.stage[e] = "effect-verified"
              /\ SaveRefused(c) /\ Stop(c)
           \/ /\ o \notin d.intents \/ (due /\ d.stage[e] # "effect-verified")
              /\ NoWrite(c) /\ Stop(c)
    /\ UNCHANGED <<world, planned, disturbances>>

\* one bounded refresh, then the plan is retained and executed at once, if the
\* lease can be had and it is not a preview
EndPlanning(c) ==
    /\ At(c, "recover")
    /\ ctl[c].todo = {}
    /\ \/ /\ ctl[c].changed /\ ~ctl[c].again
          /\ AssembleRound(c, TRUE)
          /\ UNCHANGED planned
       \/ /\ ctl[c].changed /\ ctl[c].again
          /\ Stop(c) /\ UNCHANGED <<planned, disturbances>>
       \/ /\ ~ctl[c].changed
          /\ planned' = ctl[c].plan
          /\ \/ LeaseFree(c) /\ Goto(c, Run(ctl[c].plan, FALSE))
             \/ Stop(c)
          /\ Calm
    /\ UNCHANGED <<doc, view, snap, world>>
----------------------------------------------------------------------------
(* Executing: one operation of the plan after another *)

\* the user executes the retained plan, however old it is
ExecuteReviewed(c) ==
    /\ At(c, "idle") /\ LeaseFree(c)
    /\ planned # {}
    /\ Goto(c, Run(planned, FALSE))
    /\ Disturb
    /\ UNCHANGED <<doc, view, snap, world, planned>>

BeginOperation(c, o) ==
    /\ Holding(c, "run")
    /\ o \in ctl[c].todo
    /\ NoWrite(c)
    /\ Goto(c, [ctl[c] EXCEPT !.pc = "check", !.todo = @ \ {o}, !.job = o,
                              !.gen = snap[c].gen])
    /\ UNCHANGED <<world, planned, disturbances>>

\* an operation that depends on a skipped one is skipped
SkipDependent(c, o) ==
    /\ At(c, "run") /\ view[c] = "none"
    /\ ctl[c].partial /\ o \in ctl[c].todo
    /\ Goto(c, [ctl[c] EXCEPT !.todo = @ \ {o}])
    /\ UNCHANGED <<doc, view, snap, world, planned, disturbances>>

\* an outstanding intent is recovered, never replaced; new work is validated
CheckIntent(c) ==
    /\ Holding(c, "check")
    /\ NoWrite(c)
    /\ LET o == ctl[c].job
           d == snap[c]
           left == {e \in OwnEffects(o) : d.stage[e] \in Unresolved}
           unchanged == OwnEffects(o) \cap applied = {}
       IN  \/ /\ o \in d.intents /\ ~Valid(d, o)
              /\ Stop(c) /\ Calm
           \/ /\ o \in d.intents /\ Valid(d, o)
              /\ Goto(c, [ctl[c] EXCEPT !.mode = "matching", !.left = left,
                                        !.pc = IF Unattempted(d, o) THEN "retire"
                                               ELSE IF left = {} THEN "verify"
                                               ELSE "observe"])
              /\ Calm
           \/ /\ o \notin d.intents /\ unchanged
              /\ Goto(c, [ctl[c] EXCEPT !.pc = "persist", !.born = d.gen])
              /\ Calm
           \/ o \notin d.intents /\ ~unchanged /\ Goto(c, Skipped(c)) /\ Calm
           \/ o \notin d.intents /\ Goto(c, Skipped(c)) /\ Disturb
    /\ UNCHANGED <<world, planned>>

\* the intent carries the generation it was prepared in
PersistIntent(c) ==
    /\ Holding(c, "persist")
    /\ LET o == ctl[c].job
           d == snap[c]
       IN  \/ /\ o \notin d.intents
              /\ Save(c, WithIntent(d, o, ctl[c].born))
              /\ Goto(c, [ctl[c] EXCEPT !.pc = "authorize", !.left = OwnEffects(o)])
           \/ o \notin d.intents /\ SaveRefused(c) /\ Stop(c)
           \/ o \in d.intents /\ NoWrite(c) /\ Stop(c)
    /\ UNCHANGED <<world, planned, disturbances>>

AuthorizeUnsaved(c) ==
    /\ Holding(c, "authorize")
    /\ NoWrite(c) /\ Goto(c, [ctl[c] EXCEPT !.pc = "guard"])
    /\ UNCHANGED <<world, planned, disturbances>>
\* dispatch-authorized is durable before the descriptor is handed out
Authorize(c) ==
    /\ Holding(c, "authorize")
    /\ LET o == ctl[c].job
           e == First(ctl[c].left)
           d == snap[c]
           authorizable == /\ o \in d.intents
                           /\ d.born[o] = d.gen
                           /\ d.stage[e] = "intent-persisted"
       IN  \/ /\ authorizable
              /\ Save(c, WithStage(d, e, "dispatch-authorized"))
              /\ Goto(c, [ctl[c] EXCEPT !.pc = "guard"])
           \/ authorizable /\ SaveRefused(c) /\ Stop(c)
           \/ ~authorizable /\ NoWrite(c) /\ Stop(c)
    /\ UNCHANGED <<world, planned, disturbances>>

\* last validation of the files themselves, then the request leaves
Guard(c) ==
    /\ At(c, "guard")
    /\ LET e == First(ctl[c].left)
           refuse == Goto(c, [ctl[c] EXCEPT !.pc = "record", !.res = "refused"])
       IN  \/ /\ e \notin applied
              /\ inflight' = inflight \cup {e}
              /\ Goto(c, [ctl[c] EXCEPT !.pc = "await"])
              /\ Calm
           \/ e \in applied /\ refuse /\ Calm /\ UNCHANGED inflight
           \/ refuse /\ Disturb /\ UNCHANGED inflight
    /\ UNCHANGED <<doc, view, snap, applied, planned>>

\* the call returns what it could verify, or gives up, or throws; moveExisting
\* and trashExisting take what one look does not show for not applied, though
\* the request that failed may still be executed
Respond(c) ==
    /\ At(c, "await")
    /\ LET e == First(ctl[c].left)
           answer(outcome) ==
               Goto(c, [ctl[c] EXCEPT !.pc = "record", !.res = outcome])
       IN  /\ e \notin inflight \/ e \in Lingering
           /\ \/ Converged(e) /\ answer("verified-effect") /\ Calm
              \/ /\ ~Converged(e) /\ e \in Remote
                 /\ e \notin inflight \/ e \in Glanced
                 /\ answer("verified-not-applied") /\ Calm
              \/ e \notin applied \cup inflight /\ answer("outcome-unknown") /\ Calm
              \/ answer("outcome-unknown") /\ Disturb
              \/ Stop(c) /\ Disturb
    /\ UNCHANGED <<doc, view, snap, world, planned>>

\* between operations the run may be cancelled
CancelRun(c) ==
    /\ At(c, "run")
    /\ Stop(c) /\ Drop(c) /\ Disturb
    /\ UNCHANGED <<doc, world, planned>>

\* a run that skipped nothing commits the cursor of its plan, if it moved
EndRun(c) ==
    /\ At(c, "run")
    /\ ctl[c].todo = {}
    /\ \/ Stop(c) /\ Calm
       \/ ~ctl[c].partial /\ Goto(c, [ctl[c] EXCEPT !.pc = "cursor"]) /\ Disturb
    /\ UNCHANGED <<doc, view, snap, world, planned>>

CommitCursor(c) ==
    /\ Holding(c, "cursor")
    /\ Save(c, Advanced(snap[c])) \/ SaveRefused(c)
    /\ Stop(c)
    /\ UNCHANGED <<world, planned, disturbances>>
----------------------------------------------------------------------------
(* The world outside *)

Land(e) ==
    /\ e \in inflight
    /\ applied' = applied \cup {e}
    /\ inflight' = inflight \ {e}
    /\ UNCHANGED <<doc, view, snap, planned, ctl, disturbances>>

Lose(e) ==
    /\ e \in inflight
    /\ inflight' = inflight \ {e}
    /\ Disturb
    /\ UNCHANGED <<doc, view, snap, applied, planned, ctl>>

\* the process dies: only the document and the files remain
Crash ==
    /\ Disturb
    /\ \E landed \in SUBSET (inflight \ Lingering) :
          applied' = applied \cup landed
    /\ inflight' = inflight \cap Lingering
    /\ ctl' = [c \in Client |-> Idle]
    /\ view' = [c \in Client |-> "none"]
    /\ snap' = [c \in Client |-> InitialDocument]
    /\ planned' = {}
    /\ UNCHANGED doc
----------------------------------------------------------------------------
Init == /\ doc = InitialDocument
        /\ view = [c \in Client |-> "none"]
        /\ snap = [c \in Client |-> InitialDocument]
        /\ applied = {}
        /\ inflight = {}
        /\ planned = {}
        /\ ctl = [c \in Client |-> Idle]
        /\ disturbances = 0

PlanningStep(c) ==
    \/ Load(c)
    \/ BeginPlanning(c) \/ Learn(c) \/ Mirror(c) \/ Preflight(c)
    \/ \E o \in Op : SelectIntent(c, o)
    \/ RetireUnattempted(c) \/ Observe(c) \/ Record(c) \/ Verify(c)
    \/ Canonical(c) \/ Commit(c) \/ Finalize(c)
    \/ EndPlanning(c)

ExecutionStep(c) ==
    \/ \E o \in Op : BeginOperation(c, o) \/ SkipDependent(c, o)
    \/ CheckIntent(c) \/ PersistIntent(c) \/ Authorize(c) \/ Guard(c)
    \/ Respond(c) \/ Ready(c) \/ EndRun(c) \/ CommitCursor(c)

ClientStep(c) == PlanningStep(c) \/ ExecutionStep(c)

Next == \/ \E c \in Client : ClientStep(c) \/ ExecuteReviewed(c) \/ CancelRun(c)
        \/ \E e \in Effect : Land(e) \/ Lose(e)
        \/ Crash

Spec == Init /\ [][Next]_vars

\* the event loop resumes every chain, the scheduler starts another pass, and
\* a request is eventually executed unless it was lost
Fairness == /\ WF_vars(ClientStep(Automatic))
            /\ \A e \in Effect : WF_vars(Land(e))
FairSpec == Spec /\ Fairness
----------------------------------------------------------------------------
(* Properties *)

\* Every variable has its type, and the document says nothing of an effect
\* whose intent it does not hold.
TypeOK == /\ doc \in Document
          /\ \A e \in Effect : e[1] \in doc.intents \/ doc.stage[e] = "intent-persisted"
          /\ view \in [Client -> {"none", "current", "stale"}]
          /\ snap \in [Client -> Document]
          /\ applied \subseteq Effect
          /\ inflight \subseteq Effect
          /\ planned \subseteq Op
          /\ ctl \in [Client -> Control]
          /\ disturbances \in 0..MaxDisturbances

\* What the document records as verified has happened to the files, whoever
\* recorded it, on however old an observation (recordPhysicalResult).
VerifiedIsApplied ==
    \A e \in Effect : doc.stage[e] \in Verified => e \in applied

\* The canonical journal never holds an operation one of whose effects has not
\* happened: a merge is not committed on its LOCAL half (commitVerifiedSuccess).
CommitCoversEffects ==
    \A o \in Op : Committed(doc, o) => OwnEffects(o) \subseteq applied

\* An effect is finalized only after the canonical commit it belongs to, so a
\* restart never takes an uncommitted effect for done (markEffectStateCommitted).
FinalizedAfterCommit ==
    \A o \in doc.intents : \A e \in OwnEffects(o) :
        doc.stage[e] = "state-committed" => Committed(doc, o)

\* Nothing happens to a file that the document does not account for: every
\* applied effect belongs to an intent or to a committed operation, so that
\* retiring an intent proves that it had no effect (operation-isolation 149-156).
NoOrphanEffect ==
    \A e \in applied : e[1] \in doc.intents \/ Committed(doc, e[1])

\* the operations that nothing gives up after a mere look: updates, merges,
\* downloads, local moves and trashes
Sure == {o \in Op : OwnEffects(o) \cap (Provable \cup Glanced) = {}}

\* A request of such an operation leaves only while the document holds its
\* authorization, whatever planning passes recover meanwhile: a crash at any
\* later moment finds the effect on record (dispatchEffect).
DispatchIsRecorded ==
    [][\A e \in inflight' \ inflight : e[1] \in Sure =>
          /\ e[1] \in doc.intents /\ doc.stage[e] \in Unresolved
          /\ e \notin applied]_vars

\* A verified effect is never demoted to an unresolved one, nor is its intent
\* removed, whatever a slower client still writes (already-progressed).
VerifiedIsStable ==
    [][\A e \in Effect : doc.stage[e] \in Verified =>
          /\ doc'.stage[e] \in Verified
          /\ doc.stage[e] = "state-committed" => doc'.stage[e] = "state-committed"
          /\ e[1] \in doc'.intents]_vars

\* An operation enters the canonical journal once; restarts and re-executed
\* plans do not repeat the semantic commit (exactCanonicalCommitAlreadyApplied).
CommittedOnce ==
    [][\A o \in Op : Committed(doc, o) => doc'.journal[o] = doc.journal[o]]_vars

\* When chains overlap an operation may be committed twice, but in one order
\* only: a recovery repeats the commit of a run, never a run that of a recovery
\* nor a recovery that of another (exactCanonicalCommitAlreadyApplied).
RepeatedOnlyByRecovery ==
    [][\A o \in Op : Committed(doc, o) /\ doc'.journal[o] # doc.journal[o] =>
          doc.journal[o].by = "receipt" /\ doc'.journal[o].by = "recovery"]_vars

\* recovery cannot settle o: an effect is missing and its absence unprovable,
\* the run stopped inside a merge, or the generation moved on
Stuck(o) ==
    /\ o \in doc.intents /\ ~Complete(doc, o)
    /\ \/ ~Valid(doc, o)
       \/ Progressed(doc, o) /\ \E e \in OwnEffects(o) : e \notin applied
Settled(o) == o \notin doc.intents \/ Complete(doc, o)

\* Recovery makes progress: an intent that is left outstanding is finalized or
\* retired, unless it, or another intent in front of it, can not be settled.
OutstandingIsSettled ==
    \A o \in Op : (o \in doc.intents) ~> (Settled(o) \/ \E p \in Op : Stuck(p))

\* A restart after the canonical commit and before the durable finalization
\* finishes the operation (v1.2-authoritative-commit-lifecycle.test.ts 210-225).
CommittedIsFinalized ==
    \A o \in Op : Committed(doc, o) ~> Complete(doc, o)

\* The lifecycle implements the contract of an operation, when no other chain
\* proves the absence of what a run has just sent.
StatusOf(o) == IF Complete(doc, o) THEN "closed"
               ELSE IF Committed(doc, o) THEN "committed"
               ELSE IF o \in doc.intents THEN "open"
               ELSE "unopened"
Contract == INSTANCE OperationContract WITH
    status <- [o \in Op |-> StatusOf(o)]
ImplementsContract == Contract!Spec

\* However many chains plan, recover and execute, it implements the contract
\* of the operations that nothing gives up after a mere look.
SureEffect == {e \in Effect : e[1] \in Sure}
SureContract == INSTANCE OperationContract WITH
    Op <- Sure,
    Effect <- SureEffect,
    status <- [o \in Sure |-> StatusOf(o)],
    applied <- applied \cap SureEffect
SureImplementContract == SureContract!Spec
=============================================================================
