--------------------------- MODULE Reconciliation ---------------------------
(***************************************************************************)
(* Several devices keep their vaults equal to one folder of Google Drive,  *)
(* each by passes of its own: a snapshot is planned (Planner), and the     *)
(* operations are executed one after another, each authorized by the BASE  *)
(* entry and the identity mapping of its path, checked against what is now *)
(* observed, recorded as a durable intent, applied, verified and committed *)
(* to BASE.  Nothing coordinates the devices.  Between any two steps the   *)
(* users write, delete and rename notes and the processes die.             *)
(*                                                                         *)
(* An object of Drive is never overwritten: an update uploads a candidate  *)
(* next to the object it replaces and then moves that one to the trash.    *)
(* How an intent goes through its stages is the subject of EffectLifecycle *)
(* and how a local file is replaced that of LocalTransaction; here they    *)
(* are one step each.  Left out: the first synchronization of a device,    *)
(* edits of the account by other programs, lost requests                   *)
(* (EffectLifecycle), the incremental view of the account, which is taken  *)
(* as it is (InventoryStore), and what Planner leaves out.                 *)
(***************************************************************************)
EXTENDS Planner

CONSTANTS
    Devices,
    Ids,         \* object ids
    Edits,       \* what users write, numbered in the order of writing
    Notes,       \* paths of the notes that exist, synchronized, at the start
    Written,     \* their contents: a function on Notes
    Actions,     \* what users may do: subset of UserActions
    MaxActs,     \* how often, together
    Openers,     \* on which devices first: all, or one of those that are alike
    MaxCrashes

UserActions == {"write", "delete", "rename", "resolve"}

ASSUME ReconciliationAssumption ==
    /\ Edits \subseteq Nat /\ Notes \subseteq Paths /\ Notes \subseteq Ids
    /\ Written \in [Notes -> SUBSET Edits]
    /\ Actions \subseteq UserActions /\ Openers \subseteq Devices
    /\ MaxActs \in Nat /\ MaxCrashes \in Nat

ASSUME AbsenceAssumption ==
    /\ \A content \in SUBSET Edits : content # Absent
    /\ \A i \in Ids : i # None

VARIABLES
    drive,      \* the objects of the account
    local,      \* the vaults
    base,       \* the BASE entries of each device,
    mapping,    \*   its remoteMappings,
    intent,     \*   and its durable operation intent
    plan,       \* the operations of its pass that are not done yet,
    skipped,    \*   the paths of those it skipped,
    step,       \*   and how far the operation in execution is
    fresh,      \* history: edits nobody has written yet,
    given,      \*   edits that a user deleted or decided against,
    bin,        \*   and what a pass put into the trash of a vault
    acts, crashes

knowledge == <<base, mapping>>
pass      == <<plan, skipped, step>>
ghosts    == <<fresh, given, bin>>
bounds    == <<acts, crashes>>
vars      == <<drive, local, knowledge, intent, pass, ghosts, bounds>>

Contents == SUBSET Edits

Init ==
    /\ drive = [i \in Ids |->
                  IF i \in Notes
                  THEN [status |-> "live", path |-> i, content |-> Written[i]]
                  ELSE [status |-> "unused", path |-> i, content |-> {}]]
    /\ local = [d \in Devices |-> [p \in Paths |->
                  IF p \in Notes THEN Written[p] ELSE Absent]]
    /\ base = [d \in Devices |-> [p \in Paths |->
                  IF p \in Notes THEN [content |-> Written[p], id |-> p] ELSE None]]
    /\ mapping = [d \in Devices |-> [p \in Paths |->
                  IF p \in Notes THEN p ELSE None]]
    /\ intent = [d \in Devices |-> None]
    /\ plan = [d \in Devices |-> {}]
    /\ skipped = [d \in Devices |-> {}]
    /\ step = [d \in Devices |-> "idle"]
    /\ fresh = Edits \ UNION {Written[p] : p \in Notes}
    /\ given = {} /\ bin = {}
    /\ acts = 0 /\ crashes = 0

-----------------------------------------------------------------------------
(* The account                                                             *)

Live(p) == {i \in Ids : drive[i].status = "live" /\ drive[i].path = p}

(* makeSnapshots over complete listings                                    *)
Facts(d) ==
    [local  |-> local[d],
     remote |-> [p \in Paths |->
                   {[id |-> i, content |-> drive[i].content] : i \in Live(p)}],
     base   |-> base[d]]

(* reserveFileCreateIdentity: generated by Drive, nothing exists yet       *)
Unused == {i \in Ids : drive[i].status = "unused"}
NewId  == CHOOSE i \in Unused : TRUE

Becomes(i, status) == drive' = [drive EXCEPT ![i].status = status]

-----------------------------------------------------------------------------
(* Authority and preconditions                                             *)

NeedsIdentity == {"upload-update", "trash-remote", "clean-text-merge"} \cup Moves
NeedsBase     == NeedsIdentity \cup {"forget", "download-update", "trash-local"}
Replacing     == {"upload-update", "clean-text-merge"}
Uploads       == Replacing \cup {"upload-create"}
Downloads     == {"download-create", "download-update"}
Noted         == {"adopt", "forget"}
Resolutions   == {"keep-remote", "keep-local", "keep-both"}

(* What an upload brings to the account                                    *)
Result(o) == IF o.kind = "clean-text-merge" THEN o.mine \cup o.theirs ELSE o.mine

(* baseAuthorityPath, identityAuthorityPath                                *)
AuthorityPath(o) == IF o.kind \in Moves THEN o.source ELSE o.path

(* A path is converged when its BASE entry has an object and the mapping   *)
(* agrees (canCarryExactBaseAuthority, reconcileCanonicalAuthority).       *)
Converged(d, p) ==
    base[d][p] # None /\ base[d][p].id # None /\ mapping[d][p] = base[d][p].id

(* resolveAuthorityCompleteOperation                                       *)
Authorized(d, o) ==
    /\ o.kind \in NeedsBase => Converged(d, AuthorityPath(o))
    /\ o.kind \in NeedsIdentity => mapping[d][AuthorityPath(o)] = o.id

(* Where the two versions of an operation were seen.  The download of a    *)
(* conflict copy and a move have another source than their path.           *)
LocalPlace(o)  == IF o.kind = "move-local" THEN o.source ELSE o.path
RemotePlace(o) == IF o.kind \in Downloads \cup {"move-remote"} THEN o.source ELSE o.path

(* validateExact and validatePreconditions: both versions as they were.    *)
(* The adoption of equal contents has no preconditions.                    *)
StillThere(d, o) ==
    \/ o.kind = "adopt"
    \/ /\ local[d][LocalPlace(o)] = o.mine
       /\ Live(RemotePlace(o)) = IF o.id = None THEN {} ELSE {o.id}

(* observe at an ambiguous path fails; an identity that is not found there *)
(* is only stale.                                                          *)
Refused(o) ==
    /\ o.kind \notin NeedsIdentity \cup {"adopt"}
    /\ \E i, j \in Live(RemotePlace(o)) : i # j

-----------------------------------------------------------------------------
(* Commit: applySuccessfulOperation                                        *)

Known(d, p, entry) == base' = [base EXCEPT ![d][p] = entry]

(* The mapping of a path, which no other path keeps.                       *)
Maps(d, p, i) ==
    mapping' = [mapping EXCEPT ![d] =
                  [q \in Paths |-> IF q = p THEN i
                                   ELSE IF mapping[d][q] = i THEN None
                                   ELSE mapping[d][q]]]

CommitVersion(d, o, i, content) ==
    /\ Known(d, o.path, [content |-> content, id |-> i])
    /\ Maps(d, o.path, i)

CommitCopy(d, o) ==
    /\ Known(d, o.path, [content |-> o.theirs, id |-> None])
    /\ UNCHANGED mapping

CommitAbsence(d, o) ==
    /\ Known(d, o.path, None)
    /\ mapping' = [mapping EXCEPT ![d][o.path] = None]

(* The content of a moved entry is that of the first of the two that are   *)
(* found, in the order of the document; recovery knows only the source, so *)
(* that the choice covers it.                                              *)
CommitMove(d, o, i) ==
    \E e \in {base[d][o.source], base[d][o.path]} \ {None} :
        /\ base' = [base EXCEPT ![d] =
              [q \in Paths |-> IF q = o.path THEN [content |-> e.content, id |-> i]
                               ELSE IF q = o.source THEN None ELSE base[d][q]]]
        /\ mapping' = [mapping EXCEPT ![d] =
              [q \in Paths |-> IF q = o.path THEN i
                               ELSE IF q = o.source \/ mapping[d][q] = i THEN None
                               ELSE mapping[d][q]]]

Commit(d, o, i) ==
    \/ o.kind \in Replacing \cup {"upload-create"} /\ CommitVersion(d, o, i, Result(o))
    \/ o.kind \in Downloads \cup {"adopt"} /\ ~Early(o) /\ CommitVersion(d, o, i, o.theirs)
    \/ o.kind \in Downloads /\ Early(o) /\ CommitCopy(d, o)
    \/ o.kind \in {"trash-local", "trash-remote", "forget"} /\ CommitAbsence(d, o)
    \/ o.kind \in Moves /\ CommitMove(d, o, i)

-----------------------------------------------------------------------------
(* A pass                                                                  *)

Advance(d, to) == step' = [step EXCEPT ![d] = to]

(* The pass goes on without o, or ends with the last operation.            *)
Proceed(d, o, skips) ==
    LET rest == plan[d] \ {o} IN
    /\ plan' = [plan EXCEPT ![d] = rest]
    /\ skipped' = [skipped EXCEPT ![d] = IF rest = {} THEN {} ELSE @ \cup skips]
    /\ Advance(d, IF rest = {} THEN "idle" ELSE "running")

(* Everything but a skipped operation ends the pass at once.               *)
Stop(d) ==
    /\ plan' = [plan EXCEPT ![d] = {}]
    /\ skipped' = [skipped EXCEPT ![d] = {}]
    /\ Advance(d, "idle")

(* An outstanding intent has to be recovered before anything is planned.   *)
(* The paths that wait for the user are skipped from the start.            *)
Begin(d) ==
    /\ step[d] = "idle" /\ intent[d] = None
    /\ Advance(d, "running")
    /\ UNCHANGED <<drive, local, knowledge, intent, ghosts, bounds>>
    /\ \E f \in {Facts(d)} :
       /\ Plan(f) # {}
       /\ plan' = [plan EXCEPT ![d] = Plan(f)]
       /\ skipped' = [skipped EXCEPT ![d] = Awaiting(f)]

Touches(o) == {o.path, o.source}

(* dependsOnSkippedOperation, and preconditions that no longer hold        *)
Skip(d, o) ==
    /\ \/ Touches(o) \cap skipped[d] # {}
       \/ Authorized(d, o) /\ ~Refused(o) /\ ~StillThere(d, o)
    /\ Proceed(d, o, Touches(o))
    /\ UNCHANGED <<drive, local, knowledge, intent, ghosts, bounds>>

Selected(d, o) == Touches(o) \cap skipped[d] = {}

(* incomplete authority, or a path that cannot be observed                 *)
GiveUp(d, o) ==
    /\ Selected(d, o)
    /\ ~Authorized(d, o) \/ Refused(o)
    /\ Stop(d)
    /\ UNCHANGED <<drive, local, knowledge, intent, ghosts, bounds>>

Ready(d, o) ==
    Selected(d, o) /\ Authorized(d, o) /\ ~Refused(o) /\ StillThere(d, o)

(* The operations that are only committed.                                 *)
Note(d, o) ==
    /\ Ready(d, o) /\ o.kind \in Noted
    /\ Commit(d, o, o.id)
    /\ Proceed(d, o, {})
    /\ UNCHANGED <<drive, local, intent, ghosts, bounds>>

(* prepareIntent, the persisted intent and its authorized dispatch.  An    *)
(* intent that dies before its dispatch is retired (EffectLifecycle).      *)
Dispatch(d, o) ==
    /\ Ready(d, o) /\ o.kind \notin Noted
    /\ IF o.kind \in Uploads
       THEN /\ Unused # {}
            /\ intent' = [intent EXCEPT ![d] = [op |-> o, new |-> NewId]]
            /\ Becomes(NewId, "reserved")
       ELSE /\ intent' = [intent EXCEPT ![d] = [op |-> o, new |-> o.id]]
            /\ UNCHANGED drive
    /\ Advance(d, "guarded")
    /\ UNCHANGED <<local, knowledge, plan, skipped, ghosts, bounds>>

Start(d) ==
    /\ step[d] = "running"
    /\ \E o \in Earliest(plan[d]) :
          Skip(d, o) \/ GiveUp(d, o) \/ Note(d, o) \/ Dispatch(d, o)

-----------------------------------------------------------------------------
(* The physical effect of the operation in execution                       *)

Doing(d, kinds) == intent[d] # None /\ intent[d].op.kind \in kinds

(* When the outcome is unknown, or the effect is there and convergence is  *)
(* not, the pass ends and leaves the intent outstanding.                   *)
Pass(d, ok, to) ==
    IF ok THEN Advance(d, to) /\ UNCHANGED <<plan, skipped>> ELSE Stop(d)

(* createReserved: the path is not looked at again                         *)
Create(d) ==
    /\ step[d] = "guarded" /\ Doing(d, {"upload-create"})
    /\ drive' = [drive EXCEPT ![intent[d].new] =
          [status |-> "live", path |-> intent[d].op.path, content |-> Result(intent[d].op)]]
    /\ Pass(d, TRUE, "applied")
    /\ UNCHANGED <<local, knowledge, intent, ghosts, bounds>>

(* updateExisting: the candidate is uploaded unless the object it is to    *)
(* replace has been moved or trashed.                                      *)
Upload(d) ==
    /\ \/ step[d] = "guarded" /\ Doing(d, {"upload-update"})
       \/ step[d] = "merged" /\ Doing(d, {"clean-text-merge"})
    /\ LET o == intent[d].op
           ok == o.id \in Live(o.path)
       IN  /\ Pass(d, ok, "uploaded")
           /\ IF ok
              THEN drive' = [drive EXCEPT ![intent[d].new] =
                      [status |-> "live", path |-> o.path, content |-> Result(o)]]
              ELSE UNCHANGED drive
    /\ UNCHANGED <<local, knowledge, intent, ghosts, bounds>>

(* finalizeVerifiedUpdateCandidate: only the object and its candidate may  *)
(* be at the path.                                                         *)
Finalize(d) ==
    /\ step[d] = "uploaded"
    /\ LET o == intent[d].op
           retired == drive[o.id].status = "trashed"
           exact == IF retired THEN {intent[d].new} ELSE {o.id, intent[d].new}
       IN  Pass(d, drive[o.id].path = o.path /\ Live(o.path) = exact,
                IF retired THEN "applied" ELSE "checked")
    /\ UNCHANGED <<drive, local, knowledge, intent, ghosts, bounds>>

Retire(d) ==
    /\ step[d] = "checked" /\ Doing(d, Replacing)
    /\ Becomes(intent[d].op.id, "trashed")
    /\ Pass(d, TRUE, "applied")
    /\ UNCHANGED <<local, knowledge, intent, ghosts, bounds>>

(* trashExisting: first where the object is, then the request.             *)
CheckTrash(d) ==
    /\ step[d] = "guarded" /\ Doing(d, {"trash-remote"})
    /\ LET o == intent[d].op IN
       IF drive[o.id].status = "trashed"
       THEN Pass(d, TRUE, "applied")
       ELSE Pass(d, drive[o.id].path = o.path, "checked")
    /\ UNCHANGED <<drive, local, knowledge, intent, ghosts, bounds>>

TrashRemote(d) ==
    /\ step[d] = "checked" /\ Doing(d, {"trash-remote"})
    /\ Becomes(intent[d].op.id, "trashed")
    /\ Pass(d, TRUE, "applied")
    /\ UNCHANGED <<local, knowledge, intent, ghosts, bounds>>

(* moveExisting: whether the object is trashed is not asked.               *)
CheckMove(d) ==
    /\ step[d] = "guarded" /\ Doing(d, {"move-remote"})
    /\ LET o == intent[d].op IN
       IF drive[o.id].path = o.path
       THEN Pass(d, TRUE, "applied")
       ELSE Pass(d, drive[o.id].path = o.source /\ Live(o.path) = {}, "checked")
    /\ UNCHANGED <<drive, local, knowledge, intent, ghosts, bounds>>

MoveRemote(d) ==
    /\ step[d] = "checked" /\ Doing(d, {"move-remote"})
    /\ drive' = [drive EXCEPT ![intent[d].op.id].path = intent[d].op.path]
    /\ Pass(d, TRUE, "applied")
    /\ UNCHANGED <<local, knowledge, intent, ghosts, bounds>>

(* The local transaction replaces the version it was authorized to replace *)
(* and no other (LocalTransaction).                                        *)
Brings(o) == IF o.kind \in Downloads THEN o.theirs ELSE Result(o)

(* Replace, of whatever is there now.                                      *)
ReplaceBlindly(d) ==
    /\ step[d] = "guarded" /\ Doing(d, Downloads \cup {"clean-text-merge"})
    /\ Pass(d, TRUE, IF Doing(d, Downloads) THEN "applied" ELSE "merged")
    /\ local' = [local EXCEPT ![d][intent[d].op.path] = Brings(intent[d].op)]
    /\ UNCHANGED <<drive, knowledge, intent, ghosts, bounds>>

Replace(d) ==
    /\ step[d] = "guarded" /\ Doing(d, Downloads \cup {"clean-text-merge"})
    /\ LET o == intent[d].op
           ok == local[d][o.path] = o.mine
       IN  /\ Pass(d, ok, IF o.kind \in Downloads THEN "applied" ELSE "merged")
           /\ local' = IF ok THEN [local EXCEPT ![d][o.path] = Brings(o)] ELSE local
    /\ UNCHANGED <<drive, knowledge, intent, ghosts, bounds>>

(* trash and move of the vault do not look at the content again.           *)
TrashLocal(d) ==
    /\ step[d] = "guarded" /\ Doing(d, {"trash-local"})
    /\ LET p == intent[d].op.path
           ok == local[d][p] # Absent
       IN  /\ Pass(d, ok, "applied")
           /\ local' = [local EXCEPT ![d][p] = Absent]
           /\ bin' = IF ok THEN bin \cup local[d][p] ELSE bin
    /\ UNCHANGED <<drive, knowledge, intent, fresh, given, bounds>>

MoveLocal(d) ==
    /\ step[d] = "guarded" /\ Doing(d, {"move-local"})
    /\ LET o == intent[d].op
           ok == local[d][o.source] # Absent /\ local[d][o.path] = Absent
       IN  /\ Pass(d, ok, "applied")
           /\ local' = IF ok
                       THEN [local EXCEPT ![d][o.path] = local[d][o.source],
                                          ![d][o.source] = Absent]
                       ELSE local
    /\ UNCHANGED <<drive, knowledge, intent, ghosts, bounds>>

(* verifyRemote and verifyLocal, of the effect that was sent last          *)
Visible(d) ==
    LET o == intent[d].op IN
    \/ /\ o.kind \in Uploads \cup {"move-remote"}
       /\ Live(o.path) = {intent[d].new}
    \/ o.kind = "trash-remote" /\ drive[o.id].status # "live"
    \/ o.kind \in Downloads /\ local[d][o.path] = o.theirs
    \/ o.kind = "trash-local" /\ local[d][o.path] = Absent
    \/ /\ o.kind = "move-local"
       /\ local[d][o.source] = Absent /\ local[d][o.path] # Absent

(* The half of a merge that the vault got.  A pass does not look at it     *)
(* again once it is recorded; a recovery, which executes no plan, does     *)
(* (preflightVerifiedEffects).                                             *)
MergeStands(d) ==
    Doing(d, {"clean-text-merge"}) =>
        local[d][intent[d].op.path] = Result(intent[d].op)

Recovering(d) == plan[d] = {}

Verified(d) == Visible(d) /\ (Recovering(d) => MergeStands(d))

Closed(d) == intent' = [intent EXCEPT ![d] = None]

Complete(d) ==
    /\ step[d] = "applied"
    /\ IF Verified(d)
       THEN /\ Commit(d, intent[d].op, intent[d].new)
            /\ Closed(d) /\ Proceed(d, intent[d].op, {})
       ELSE /\ Stop(d) /\ UNCHANGED <<knowledge, intent>>
    /\ UNCHANGED <<drive, local, ghosts, bounds>>

Effect(d) ==
    \/ Create(d) \/ Upload(d) \/ Finalize(d) \/ Retire(d)
    \/ CheckTrash(d) \/ TrashRemote(d) \/ CheckMove(d) \/ MoveRemote(d)
    \/ Replace(d) \/ TrashLocal(d) \/ MoveLocal(d) \/ Complete(d)

-----------------------------------------------------------------------------
(* Crashes and recovery                                                    *)

(* Only what is durable is left; what Drive or the vault were asked to do, *)
(* they have done or not.                                                  *)
Crash(d) ==
    /\ step[d] # "idle" /\ crashes < MaxCrashes
    /\ crashes' = crashes + 1
    /\ Stop(d)
    /\ UNCHANGED <<drive, local, knowledge, intent, ghosts, acts>>

Outstanding(d, kinds) == step[d] = "idle" /\ Doing(d, kinds)

(* RecoverUpdate without the finalizer and its look at the candidate.      *)
RetireAtOnce(d) ==
    /\ Outstanding(d, Replacing)
    /\ intent[d].op.id \in Live(intent[d].op.path)
    /\ Advance(d, "checked")
    /\ UNCHANGED <<drive, local, knowledge, intent, plan, skipped, ghosts, bounds>>

(* preverifyOutstandingRemoteUpdates: verified candidates whose            *)
(* predecessor is still there go through finalizeExistingUpdate.           *)
RecoverUpdate(d) ==
    /\ Outstanding(d, Replacing)
    /\ Live(intent[d].op.path) = {intent[d].op.id, intent[d].new}
    /\ Advance(d, "uploaded")
    /\ UNCHANGED <<drive, local, knowledge, intent, plan, skipped, ghosts, bounds>>

(* recoverLocalFile: the transaction goes on if what it staged is still    *)
(* there (LocalTransaction).                                               *)
RecoverReplace(d) ==
    /\ Outstanding(d, Downloads \cup {"clean-text-merge"})
    /\ LET o == intent[d].op IN
       /\ local[d][o.path] = o.mine
       /\ local' = [local EXCEPT ![d][o.path] = Brings(o)]
    /\ UNCHANGED <<drive, knowledge, intent, pass, ghosts, bounds>>

(* Observed, with uploads taken for done.                                  *)
ObservedOrUploaded(d) ==
    \/ Doing(d, Uploads)
    \/ intent[d].op.kind = "trash-remote" /\ Visible(d) /\ Live(intent[d].op.path) = {}
    \/ intent[d].op.kind # "trash-remote" /\ Visible(d)

(* observePersistedEffect.  A created object is looked up by its identity, *)
(* whatever else is at its path; the trash of an object is proved by its   *)
(* absence and that of any other at its path.                              *)
Observed(d) ==
    LET o == intent[d].op IN
    \/ o.kind = "upload-create" /\ intent[d].new \in Live(o.path)
    \/ o.kind = "trash-remote" /\ Visible(d) /\ Live(o.path) = {}
    \/ o.kind \notin {"upload-create", "trash-remote"} /\ Visible(d) /\ MergeStands(d)

(* remoteIdentity of an effect on the vault: what is live at its path, or  *)
(* what the path is mapped to; none if the two disagree.                   *)
Identity(d) ==
    LET o == intent[d].op
        known == {mapping[d][o.path]} \ {None}
        seen == IF \E i, j \in Live(o.path) : i # j THEN {} ELSE Live(o.path)
    IN  CASE o.kind \in Uploads \cup {"move-remote", "trash-remote"} -> {intent[d].new}
          [] o.kind \in Downloads -> IF seen = {} THEN known ELSE seen
          [] o.kind = "move-local" ->
                 IF seen \cup known = {} THEN {o.id} ELSE IF seen = {} THEN known ELSE seen
          [] o.kind = "trash-local" -> {None}

Disagrees(d) ==
    /\ intent[d].op.kind \in Downloads \cup {"move-local", "trash-local"}
    /\ \E i \in Live(intent[d].op.path) :
          /\ Live(intent[d].op.path) = {i}
          /\ mapping[d][intent[d].op.path] \notin {None, i}

(* The operation is rebuilt from the descriptors of its effects: it is no  *)
(* longer known of a download that it made a conflict copy.                *)
Rebuilt(o) == IF o.kind \in Downloads THEN [o EXCEPT !.source = o.path] ELSE o

(* recoverOne: what is observed is committed, once a receipt can be made.  *)
RecoverCommit(d) ==
    /\ step[d] = "idle" /\ intent[d] # None
    /\ Observed(d) /\ ~Disagrees(d)
    /\ \E i \in Identity(d) : Commit(d, Rebuilt(intent[d].op), i)
    /\ Closed(d)
    /\ UNCHANGED <<drive, local, pass, ghosts, bounds>>

(* verifyRemoteFileCreate: the reserved identity was never used and the    *)
(* path is free, so that the create was not applied.                       *)
RecoverUnapplied(d) ==
    /\ Outstanding(d, {"upload-create"})
    /\ drive[intent[d].new].status = "reserved" /\ Live(intent[d].op.path) = {}
    /\ Becomes(intent[d].new, "unused")
    /\ Closed(d)
    /\ UNCHANGED <<local, knowledge, pass, ghosts, bounds>>

Recover(d) == RecoverUpdate(d) \/ RecoverCommit(d) \/ RecoverUnapplied(d)

-----------------------------------------------------------------------------
(* The users                                                               *)

Acts(d, kind) ==
    /\ acts < MaxActs /\ kind \in Actions
    /\ acts = 0 => d \in Openers
    /\ acts' = acts + 1

InVault(d, p) == IF local[d][p] = Absent THEN {} ELSE local[d][p]

Write(d, p, e) ==
    /\ Acts(d, "write") /\ e \in fresh /\ \A later \in fresh : e <= later
    /\ local' = [local EXCEPT ![d][p] = InVault(d, p) \cup {e}]
    /\ fresh' = fresh \ {e}
    /\ UNCHANGED <<drive, knowledge, intent, pass, given, bin, crashes>>

Delete(d, p) ==
    /\ Acts(d, "delete") /\ local[d][p] # Absent
    /\ given' = given \cup local[d][p]
    /\ local' = [local EXCEPT ![d][p] = Absent]
    /\ UNCHANGED <<drive, knowledge, intent, pass, fresh, bin, crashes>>

Rename(d, p, q) ==
    /\ Acts(d, "rename") /\ local[d][p] # Absent /\ local[d][q] = Absent
    /\ local' = [local EXCEPT ![d][q] = local[d][p], ![d][p] = Absent]
    /\ UNCHANGED <<drive, knowledge, intent, pass, ghosts, crashes>>

(* resolutionOperations: of two versions the user keeps one, or both, the  *)
(* remote one as a copy at a path that is free in the vault; of a version  *)
(* the other side deleted, the version.                                    *)
Resolving(d, f, p, choice) ==
    CASE LocalHere(f, p) /\ RemoteHere(f, p) /\ choice = "keep-local" ->
             {{Decided(f, p, "upload-update")}}
      [] LocalHere(f, p) /\ RemoteHere(f, p) /\ choice = "keep-remote" ->
             {{Decided(f, p, "download-update")}}
      [] LocalHere(f, p) /\ RemoteHere(f, p) /\ choice = "keep-both" ->
             {{Operation("download-create", q, p, ObjectId(f, p), Absent, ObjectContent(f, p)),
               Decided(f, p, "upload-update")} : q \in {r \in Paths : local[d][r] = Absent}}
      [] ~RemoteHere(f, p) -> {{Decided(f, p, "upload-create")}}
      [] ~LocalHere(f, p)  -> {{Decided(f, p, "download-create")}}

DecidedAgainst(f, p, choice) ==
    IF ~(LocalHere(f, p) /\ RemoteHere(f, p)) THEN {}
    ELSE CASE choice = "keep-local"  -> Object(f, p).content \ f.local[p]
           [] choice = "keep-remote" -> f.local[p] \ Object(f, p).content
           [] choice = "keep-both"   -> {}

Resolve(d, p, choice) ==
    LET f == Facts(d) IN
    /\ Acts(d, "resolve")
    /\ step[d] = "idle" /\ intent[d] = None
    /\ p \in Conflicts(f)
    /\ \E operations \in Resolving(d, f, p, choice) :
          plan' = [plan EXCEPT ![d] = operations]
    /\ given' = given \cup DecidedAgainst(f, p, choice)
    /\ Advance(d, "running")
    /\ UNCHANGED <<drive, local, knowledge, intent, skipped, fresh, bin, crashes>>

User(d) ==
    \E p \in Paths :
        \/ \E e \in Edits : Write(d, p, e)
        \/ Delete(d, p)
        \/ \E q \in Paths : Rename(d, p, q)
        \/ \E choice \in Resolutions : Resolve(d, p, choice)

-----------------------------------------------------------------------------
Device(d) == Begin(d) \/ Start(d) \/ Effect(d) \/ Recover(d)

Next == \E d \in Devices : Device(d) \/ RecoverReplace(d) \/ Crash(d) \/ User(d)

Spec == Init /\ [][Next]_vars

(* Every device goes on synchronizing.  That an interrupted replacement is *)
(* taken up again is not promised.                                         *)
Fairness == \A d \in Devices : WF_vars(Device(d))

-----------------------------------------------------------------------------
(* Properties                                                              *)

Objects == [status : {"unused", "reserved", "live", "trashed"},
            path : Paths \cup Ids, content : Contents]

Operations ==
    [kind : {"adopt", "forget", "upload-create", "upload-update", "clean-text-merge",
             "download-create", "download-update", "trash-local", "trash-remote",
             "move-local", "move-remote"},
     path : Paths, source : Paths, id : {None} \cup Ids,
     mine : {Absent} \cup Contents, theirs : {Absent} \cup Contents]

Intents == [op : Operations, new : {None} \cup Ids]

ASSUME IntentAssumption == None \notin Intents

Steps == {"idle", "running", "guarded", "merged", "uploaded", "checked", "applied"}

ReconciliationTypeOK ==
    /\ drive \in [Ids -> Objects]
    /\ local \in [Devices -> [Paths -> {Absent} \cup Contents]]
    /\ base \in [Devices -> [Paths -> {None} \cup [content : Contents, id : {None} \cup Ids]]]
    /\ mapping \in [Devices -> [Paths -> {None} \cup Ids]]
    /\ intent \in [Devices -> {None} \cup Intents]
    /\ plan \in [Devices -> SUBSET Operations]
    /\ skipped \in [Devices -> SUBSET Paths]
    /\ step \in [Devices -> Steps]
    /\ fresh \subseteq Edits /\ given \subseteq Edits /\ bin \subseteq Edits
    /\ acts \in 0..MaxActs /\ crashes \in 0..MaxCrashes

(* Where an edit is: in some vault, in a live object of the account, or in *)
(* the trash of a vault, unless a user deleted it or decided against it.   *)
Writing == Edits \ (fresh \cup given)
InVaults == UNION {InVault(d, p) : d \in Devices, p \in Paths}
InAccount == UNION {drive[i].content : i \in {j \in Ids : drive[j].status = "live"}}

EditsKept == Writing \subseteq InVaults \cup InAccount \cup bin

(* The operations a device has planned or under way, and what those of     *)
(* them that write a version into BASE write there.                        *)
InHand(d) == plan[d] \cup {n.op : n \in {intent[d]} \ {None}}
Recording == Uploads \cup Downloads \cup {"adopt"}
Recorded(o) == IF o.kind \in Uploads THEN Result(o) ELSE o.theirs

(* The versions of a path: in the vaults, in BASE, in what is to be        *)
(* recorded there, and in the account.                                     *)
VersionsAt(p) ==
    {InVault(d, p) : d \in Devices}
    \cup {base[d][p].content : d \in {c \in Devices : base[c][p] # None}}
    \cup {Recorded(o) : o \in {h \in UNION {InHand(d) : d \in Devices} :
                                 h.kind \in Recording /\ h.path = p}}
    \cup {drive[i].content : i \in Live(p)}
KnownAt(p) == UNION VersionsAt(p)

(* No edit is known under two paths.  Renaming a note that is synchronized *)
(* breaks this, and so does keeping both versions of a conflict.           *)
OnePath == \A p, q \in Paths : p < q => KnownAt(p) \cap KnownAt(q) = {}

(* Synchronizing loses no edit in place as long as none is known under two *)
(* paths: whatever the devices replace, trash and move of one another's,   *)
(* an edit that no user gave up is in a vault, in a live object or in the  *)
(* trash of a vault.  The premise is needed.  Where two devices carry      *)
(* notes back and forth between the same paths, each can give up the copy  *)
(* the other one relies on.                                                *)
EditsStayInPlace == []OnePath => []EditsKept

(* Even then an edit stays within reach: what a pass puts in the place of  *)
(* a version that nobody decided against, it only does when the account    *)
(* has that version, be it in its trash.                                   *)
InObjects == UNION {drive[i].content : i \in {j \in Ids : drive[j].status \in {"live", "trashed"}}}

EditsRecoverable == Writing \subseteq InVaults \cup InObjects \cup bin

(* What BASE says both sides once shared was uploaded to the account by    *)
(* someone: the three-way decisions of the planner rest on it.             *)
BaseWasShared ==
    \A d \in Devices, p \in Paths :
        base[d][p] # None /\ base[d][p].id # None =>
            \E i \in Ids : /\ drive[i].status \in {"live", "trashed"}
                          /\ drive[i].content = base[d][p].content

(* An object of the account goes to the trash only as a deletion, or as    *)
(* the predecessor of an update that brought its candidate there, whole,   *)
(* in whichever run before a crash that was.                               *)
Retires(d, i) ==
    \/ Doing(d, {"trash-remote"}) /\ intent[d].op.id = i
    \/ /\ Doing(d, Replacing) /\ intent[d].op.id = i
       /\ drive[intent[d].new].status \in {"live", "trashed"}
       /\ Result(intent[d].op) = drive[intent[d].new].content

TrashedOrReplaced ==
    [][\A i \in Ids : drive[i].status = "live" /\ drive[i].status' = "trashed" =>
          \E d \in Devices : Retires(d, i)]_vars

(* Where a vault and the account agree, a pass changes neither, whatever   *)
(* BASE says: it only notes what it found.                                 *)
InSync(d) ==
    \A p \in Paths :
        /\ Live(p) = {} <=> local[d][p] = Absent
        /\ \A i \in Live(p) : Live(p) = {i} /\ local[d][p] = drive[i].content

CalmWhenEqual ==
    \A d \in Devices : InSync(d) => \A o \in Plan(Facts(d)) : o.kind \in Noted

Settled == \A d \in Devices : InSync(d) /\ Plan(Facts(d)) = {}

(* The user is told: an effect whose outcome is unknown, a conflict or an  *)
(* unsafe path, or an operation that is planned without authority or with  *)
(* preconditions that do not hold although nothing changes any more.       *)
Attention(d) ==
    \/ intent[d] # None
    \/ \E f \in {Facts(d)} :
          \/ Awaiting(f) # {}
          \/ \E o \in Plan(f) : ~Authorized(d, o) \/ Refused(o) \/ ~StillThere(d, o)

(* Devices that go on synchronizing end up equal, with nothing left to do, *)
(* or a user is told.                                                      *)
ConvergesOrAsks ==
    Fairness => <>[](Settled \/ \E d \in Devices : Attention(d))
=============================================================================
