------------------------- MODULE LocalTransaction -------------------------
(***************************************************************************)
(* The local file transaction (src/local/local-vault-access-boundary.ts):  *)
(* a create or a replacement is written to a staging sibling, proved, and  *)
(* swapped in by renames; the file it replaces is first renamed to a       *)
(* backup sibling and goes to the vault's trash last.  One transaction of  *)
(* one note is followed from its live dispatch through crashes, failing    *)
(* adapter calls and any number of recoveries, while the user edits,       *)
(* deletes and writes the note between any two steps.                      *)
(*                                                                         *)
(* A content stands for the bytes with their SHA-256 and size: Old is the  *)
(* version the transaction was authorized to replace, New the version it   *)
(* brings, Torn any other bytes found in the stage, and every edit of the  *)
(* user is a version of its own.  The adapter's rename refuses a name that *)
(* is taken.                                                               *)
(***************************************************************************)
EXTENDS Naturals

CONSTANTS
    None,        \* no file under the name
    Old, New, Torn,
    Edits,       \* the versions the user may write
    MaxCrashes,  \* how often the process may die
    MaxFaults    \* how many calls of the adapter or saves may fail

ASSUME ContentsAssumption ==
    /\ None \notin {Old, New, Torn} /\ Old \notin {New, Torn} /\ New # Torn
    /\ {None, Old, New, Torn} \cap Edits = {}

ASSUME BoundsAssumption == MaxCrashes \in Nat /\ MaxFaults \in Nat

VARIABLES
    kind,      \* LocalMutationTransaction.mutationKind
    target,    \* what is under the path of the note,
    stage,     \*   under stagePath
    backup,    \*   and under backupPath
    bin,       \* what trashLocal put into the vault's trash
    token,     \* expectedTarget.observationToken is still the token of the note
    pc,        \* the next step of the call in progress, "idle" when there is none
    effect,    \* stage of the durable effect: what the intent knows
    mine,      \* history: versions the user wrote and did not replace or delete
    deleted,   \* history: the last thing the user did to the note was to delete it
    crashes, faults

files == <<target, stage, backup, bin>>
user  == <<mine, deleted>>
env   == <<kind, token, crashes, faults>>
vars  == <<files, user, env, pc, effect>>

Kinds == {"create", "replace"}

Steps == {"idle", "check", "write", "fill", "verify", "saved", "commit",
          "recheck", "displace", "proof", "swap", "confirm", "clear", "tidy",
          "restore", "applied", "refused"}

Init ==
    /\ kind \in Kinds
    /\ target = IF kind = "create" THEN None ELSE Old
    /\ mine = {target} \ {None}
    /\ stage = None /\ backup = None /\ bin = {}
    /\ token = TRUE /\ deleted = FALSE
    /\ pc = "check" /\ effect = "dispatch-authorized"
    /\ crashes = 0 /\ faults = 0

(* What a step leaves alone unless it says otherwise.                      *)
Quiet == UNCHANGED <<user, env, effect>>

Goto(label) == pc' = label /\ Quiet

Judge(ok, label) == Goto(IF ok THEN label ELSE "refused")

-----------------------------------------------------------------------------
(* The live dispatch: stageAndVerify and commitVerifiedStage.              *)

Something(content) == content # None

(* proofMatches: with expectedNewEvidence, and with the evidence of the    *)
(* version the transaction may replace                                     *)
Proved(content)     == content = New
Authorized(content) == content = Old

(* verifyExpectedTarget *)
Expected ==
    IF kind = "create" THEN target = None ELSE target = Old /\ token

Check ==
    /\ pc = "check"
    /\ Judge(Expected, "write")
    /\ UNCHANGED files

(* writeIncremental: the file is created empty ...                         *)
Write ==
    /\ pc = "write"
    /\ stage' = Torn
    /\ Goto("fill")
    /\ UNCHANGED <<target, backup, bin>>

(* ... and its chunks appended; the source may deliver other bytes.        *)
Fill ==
    /\ pc = "fill"
    /\ stage' \in {New, Torn}
    /\ Goto("verify")
    /\ UNCHANGED <<target, backup, bin>>

Verify ==
    /\ pc = "verify"
    /\ Judge(Proved(stage), "saved")
    /\ stage' = IF Proved(stage) THEN stage ELSE None
    /\ UNCHANGED <<target, backup, bin>>

(* persistLocalTransaction of the verified stage                           *)
Saved ==
    /\ pc = "saved"
    /\ Goto("commit")
    /\ UNCHANGED files

Commit ==
    /\ pc = "commit"
    /\ Judge(Proved(stage) /\ Expected, "recheck")
    /\ UNCHANGED files

(* The first look of commitCreate and of commitReplace.                    *)
Recheck ==
    /\ pc = "recheck"
    /\ IF kind = "create" THEN Judge(target = None, "swap")
                          ELSE Judge(backup = None, "displace")
    /\ UNCHANGED files

Displace ==
    /\ pc = "displace"
    /\ IF target = None
       THEN UNCHANGED <<target, backup>>
       ELSE backup' = target /\ target' = None
    /\ Judge(target # None, "proof")
    /\ UNCHANGED <<stage, bin>>

Proof ==
    /\ pc = "proof"
    /\ Judge(Authorized(backup), "swap")
    /\ UNCHANGED files

(* rename of the stage to the note, refused when the name is taken again   *)
Swap ==
    /\ pc = "swap"
    /\ IF target = None
       THEN target' = stage /\ stage' = None
       ELSE UNCHANGED <<target, stage>>
    /\ Judge(target = None, "confirm")
    /\ UNCHANGED <<backup, bin>>

Confirm ==
    /\ pc = "confirm"
    /\ Judge(Proved(target), "tidy")
    /\ UNCHANGED files

(* removeBestEffort of the stage                                           *)
Clear ==
    /\ pc = "clear"
    /\ stage' = None
    /\ Goto("tidy")
    /\ UNCHANGED <<target, backup, bin>>

(* trashBestEffort of the backup                                           *)
Tidy ==
    /\ pc = "tidy"
    /\ bin' = bin \cup ({backup} \ {None})
    /\ backup' = None
    /\ Goto("applied")
    /\ UNCHANGED <<target, stage>>

-----------------------------------------------------------------------------
(* Recovery                                                                *)

(* recoverCreate: what it decides from the files it read                   *)
DirectiveOfCreate ==
    CASE Proved(target)                  -> "clear"
      [] target = None /\ Proved(stage)  -> "swap"
      [] OTHER                           -> "refused"

(* the restoration of the old version left out                             *)
CompleteOrRefuse ==
    CASE Proved(target) /\ (backup = None \/ Authorized(backup)) -> "clear"
      [] target = None /\ Authorized(backup) /\ Proved(stage) -> "swap"
      [] Authorized(target) /\ backup = None /\ Proved(stage) -> "commit"
      [] OTHER -> "refused"

(* recoverReplace                                                          *)
DirectiveOfReplace ==
    CASE Proved(target) /\ (backup = None \/ Authorized(backup)) -> "clear"
      [] target = None /\ Authorized(backup) ->
             IF Proved(stage) THEN "swap" ELSE "restore"
      [] Authorized(target) /\ backup = None /\ Proved(stage) -> "commit"
      [] OTHER -> "refused"

Unsettled == effect \in {"dispatch-authorized", "outcome-unknown"}

(* recover, called by the recovery of the durable intents before a plan is *)
(* made.  A create whose stage proves to be nothing removes it.            *)
Recover ==
    /\ pc = "idle" /\ Unsettled
    /\ Goto(IF kind = "create" THEN DirectiveOfCreate ELSE DirectiveOfReplace)
    /\ stage' = IF kind = "create" /\ target = None /\ ~Proved(stage)
                THEN None ELSE stage
    /\ UNCHANGED <<target, backup, bin>>

(* rename of the backup to the note: the replacement is given up           *)
Restore ==
    /\ pc = "restore"
    /\ IF target = None
       THEN target' = backup /\ backup' = None
       ELSE UNCHANGED <<target, backup>>
    /\ Goto("refused")
    /\ UNCHANGED <<stage, bin>>

-----------------------------------------------------------------------------
(* The callers, dispatchEffect and observePhysicalReality: a transaction   *)
(* that was applied is verified once more by a look at the note; anything  *)
(* else leaves the effect unknown.                                         *)
Settle ==
    /\ pc \in {"applied", "refused"}
    /\ effect' = IF pc = "applied" /\ Proved(target)
                 THEN "effect-verified" ELSE "outcome-unknown"
    /\ pc' = "idle"
    /\ UNCHANGED <<files, user, env>>

Work ==
    \/ Check \/ Write \/ Fill \/ Verify \/ Saved \/ Commit \/ Recheck
    \/ Displace \/ Proof \/ Swap \/ Confirm \/ Clear \/ Tidy
    \/ Recover \/ Restore \/ Settle

-----------------------------------------------------------------------------
(* What goes wrong                                                         *)

Trouble == faults < MaxFaults /\ faults' = faults + 1

(* A call of the adapter throws.  Staging and recovery report an unknown   *)
(* outcome; a failed removal is swallowed; before staging, and when a save *)
(* fails, the call ends with the effect as it was.  So it does when the    *)
(* live commit fails between its renames: commitVerifiedStage returns the  *)
(* promise of commitReplace from its try block without awaiting it, and    *)
(* its catch clause never sees the failure (lines 111-113).                *)
Uncaught == {"recheck", "displace", "swap", "confirm"}
AfterFault ==
    IF pc = "clear" THEN {"tidy"}
    ELSE IF pc = "tidy" THEN {"applied"}
    ELSE IF pc \in {"check", "saved", "applied", "refused"} THEN {"idle"}
    ELSE IF pc \in Uncaught THEN {"idle", "refused"}
    ELSE {"refused"}

Fault ==
    /\ pc # "idle" /\ Trouble
    /\ pc' \in AfterFault
    /\ \/ UNCHANGED stage
       \/ pc = "fill" /\ stage' = None
    /\ UNCHANGED <<target, backup, bin, user, kind, token, crashes, effect>>

(* The process dies.  The generations of the observation tokens are        *)
(* volatile: the note may have another token for the next process.  The    *)
(* stage is nobody's note and may be damaged or cleared away meanwhile,    *)
(* which recovery is written for (lines 203 and 243).                      *)
Crash ==
    /\ pc # "idle" /\ crashes < MaxCrashes
    /\ crashes' = crashes + 1
    /\ pc' = "idle"
    /\ token' \in {token, FALSE}
    /\ stage' \in IF stage = None THEN {None} ELSE {stage, Torn, None}
    /\ UNCHANGED <<target, backup, bin, user, kind, faults, effect>>

-----------------------------------------------------------------------------
(* The user, at any moment                                                 *)

Fresh == Edits \ (mine \cup {target, backup} \cup bin)

Edit ==
    \E e \in Fresh :
        /\ target' = e
        /\ mine' = (mine \ {target}) \cup {e}
        /\ deleted' = FALSE /\ token' = FALSE
        /\ UNCHANGED <<stage, backup, bin, kind, crashes, faults, pc, effect>>

Delete ==
    /\ target # None
    /\ target' = None
    /\ mine' = mine \ {target}
    /\ deleted' = TRUE /\ token' = FALSE
    /\ UNCHANGED <<stage, backup, bin, kind, crashes, faults, pc, effect>>

-----------------------------------------------------------------------------
Next == Work \/ Fault \/ Crash \/ Edit \/ Delete

LocalSpec == Init /\ [][Next]_vars

(* The process works through its call, and a later run recovers what is    *)
(* still unsettled; nothing obliges the user to anything.                  *)
FairLocalSpec == LocalSpec /\ WF_vars(Work)

-----------------------------------------------------------------------------
(* The state is one of those above.  In particular bytes that were not     *)
(* proved never stand under the name of the note, and only the transaction *)
(* writes its siblings.                                                    *)
LocalTypeOK ==
    /\ kind \in Kinds /\ pc \in Steps
    /\ target \in {None, Old, New} \cup Edits
    /\ stage \in {None, New, Torn}
    /\ backup \in {None, Old} \cup Edits
    /\ bin \subseteq {Old} \cup Edits
    /\ mine \subseteq {Old} \cup Edits
    /\ token \in BOOLEAN /\ deleted \in BOOLEAN
    /\ effect \in {"dispatch-authorized", "outcome-unknown", "effect-verified"}
    /\ crashes \in 0 .. MaxCrashes /\ faults \in 0 .. MaxFaults

(* Whatever the user wrote and did not replace or delete himself is still  *)
(* there: every edit of his as the note or as its backup, and only the     *)
(* version the transaction was authorized to replace may be in the trash   *)
(* instead (commitReplace, recoverReplace).                                *)
NothingLost ==
    /\ mine \subseteq {target, backup} \cup bin
    /\ bin \subseteq {Old}

(* A note that stands only as the backup of its own replacement gets its   *)
(* name back, as the new version or the old one, unless the user deletes   *)
(* or writes it meanwhile: recovery after a crash at any step completes    *)
(* the swap or restores the note (recoverReplace).                         *)
Displaced == target = None /\ backup = Old /\ ~deleted

DisplacedComesBack == Displaced ~> target # None

(* The product is successful when it works "without silently losing,       *)
(* overwriting, corrupting, resurrecting, or mass-deleting" data (target-  *)
(* system-specification.md:99): once the user has deleted a note, the old  *)
(* version of it does not come back by itself.  recoverReplace takes every *)
(* missing note whose backup exists for one it displaced.                  *)
DeletedStaysDeleted == deleted => target # Old
=============================================================================
