---------------------- MODULE LocalTransactionProofs ----------------------
(***************************************************************************)
(* For any number of edits, crashes and failing calls, the local file      *)
(* transaction keeps its state well formed and loses nothing the user      *)
(* wrote.  The bare properties are not inductive: a step is taken on what  *)
(* an earlier step of the call has read, and the invariant below says what *)
(* of it is still so, whatever the user and the crashes did meanwhile.     *)
(***************************************************************************)
EXTENDS LocalTransaction, TLAPS

(* From the proof of the stage to its rename nobody else touches it.       *)
StageProved ==
    pc \in {"saved", "commit", "recheck", "displace", "proof", "swap"}
        => stage = New

(* The name of the backup is free when the note is moved there, which only *)
(* a replacement does, and after the proof it holds the old version.       *)
BackupKnown ==
    /\ kind = "create" => backup = None /\ pc \notin {"displace", "proof", "restore"}
    /\ pc = "displace" => backup = None
    /\ pc \in {"swap", "confirm", "clear", "tidy"} => backup \in {None, Old}
    /\ pc = "restore" => backup = Old

(* The note that is moved away is never the new version itself.            *)
NoteIsNotNew ==
    kind = "replace" /\ pc \in {"recheck", "displace"} => target # New

LocalInv == LocalTypeOK /\ StageProved /\ BackupKnown /\ NoteIsNotNew /\ NothingLost

(* The contents are told apart.                                            *)
LEMMA Distinct ==
    /\ None # Old /\ None # New /\ None # Torn
    /\ Old # New /\ Old # Torn /\ New # Torn
    /\ \A e \in Edits : e # None /\ e # Old /\ e # New /\ e # Torn
BY ContentsAssumption

LEMMA LocalInit == Init => LocalInv
<1> SUFFICES ASSUME Init PROVE LocalInv
  OBVIOUS
<1>1. LocalTypeOK
  <2>1. token \in BOOLEAN /\ deleted \in BOOLEAN
    BY Zenon DEF Init
  <2>2. kind \in Kinds /\ pc \in Steps /\ target \in {None, Old}
    BY DEF Init, Kinds, Steps
  <2>3. mine \subseteq {Old} /\ bin = {}
    BY DEF Init
  <2>4. crashes \in 0 .. MaxCrashes /\ faults \in 0 .. MaxFaults
    BY BoundsAssumption DEF Init
  <2>5. stage = None /\ backup = None /\ effect = "dispatch-authorized"
    BY DEF Init
  <2> QED
    BY <2>1, <2>2, <2>3, <2>4, <2>5 DEF LocalTypeOK
<1>2. StageProved /\ BackupKnown /\ NoteIsNotNew
  BY DEF Init, StageProved, BackupKnown, NoteIsNotNew
<1>3. NothingLost
  BY DEF Init, NothingLost
<1> QED
  BY <1>1, <1>2, <1>3 DEF LocalInv

(* Every step of the call in progress keeps the invariant.                 *)
LEMMA WorkKeeps == ASSUME LocalInv, Work PROVE LocalInv'
<1> USE Distinct
        DEF LocalInv, LocalTypeOK, StageProved, BackupKnown, NoteIsNotNew,
            NothingLost, Kinds, Steps, Judge, Goto, Quiet, user, env, files,
            Proved, Authorized
<1>1. CASE Check    BY <1>1 DEF Check
<1>2. CASE Write    BY <1>2 DEF Write
<1>3. CASE Fill     BY <1>3 DEF Fill
<1>4. CASE Verify   BY <1>4 DEF Verify
<1>5. CASE Saved    BY <1>5 DEF Saved
<1>6. CASE Commit   BY <1>6 DEF Commit, Expected
<1>7. CASE Recheck  BY <1>7 DEF Recheck
<1>8. CASE Displace BY <1>8 DEF Displace
<1>9. CASE Proof    BY <1>9 DEF Proof
<1>10. CASE Swap    BY <1>10 DEF Swap
<1>11. CASE Confirm BY <1>11 DEF Confirm
<1>12. CASE Clear   BY <1>12 DEF Clear
<1>13. CASE Tidy    BY <1>13 DEF Tidy
<1>14. CASE Recover
  BY <1>14 DEF Recover, DirectiveOfCreate, DirectiveOfReplace
<1>15. CASE Restore BY <1>15 DEF Restore
<1>16. CASE Settle  BY <1>16 DEF Settle
<1> QED
  BY <1>1, <1>2, <1>3, <1>4, <1>5, <1>6, <1>7, <1>8, <1>9, <1>10, <1>11,
     <1>12, <1>13, <1>14, <1>15, <1>16 DEF Work

(* So does every failing call, and the death of the process.               *)
LEMMA TroubleKeeps == ASSUME LocalInv, Fault \/ Crash PROVE LocalInv'
<1> USE Distinct, BoundsAssumption
        DEF LocalInv, LocalTypeOK, StageProved, BackupKnown, NoteIsNotNew,
            NothingLost, Kinds, Steps, user, files
<1>1. CASE Fault
  <2>1. /\ pc' \in {"idle", "tidy", "applied", "refused"}
        /\ pc' = "tidy" => pc = "clear"
    BY <1>1, SMTT(20) DEF Fault, AfterFault, Uncaught
  <2>2. /\ faults' \in 0 .. MaxFaults
        /\ stage' \in {stage, None}
        /\ UNCHANGED <<kind, target, backup, bin, mine, deleted, token, crashes, effect>>
    BY <1>1 DEF Fault, Trouble
  <2> QED BY <2>1, <2>2
<1>2. CASE Crash
  <2>1. /\ pc' = "idle" /\ crashes' \in 0 .. MaxCrashes
        /\ token' \in BOOLEAN /\ stage' \in {None, stage, Torn}
        /\ UNCHANGED <<kind, target, backup, bin, mine, deleted, faults, effect>>
    <3>1. token' \in BOOLEAN
      BY <1>2, Zenon DEF Crash, LocalInv, LocalTypeOK
    <3>2. crashes' \in 0 .. MaxCrashes
      BY <1>2 DEF Crash
    <3>3. stage' \in {None, stage, Torn}
      BY <1>2 DEF Crash
    <3> QED BY <1>2, <3>1, <3>2, <3>3 DEF Crash
  <2> QED BY <2>1
<1> QED BY <1>1, <1>2

(* And whatever the user does to the note.                                 *)
LEMMA UserKeeps == ASSUME LocalInv, Edit \/ Delete PROVE LocalInv'
<1> USE Distinct
        DEF LocalInv, LocalTypeOK, StageProved, BackupKnown, NoteIsNotNew,
            NothingLost, Kinds, Steps
<1>1. CASE Edit BY <1>1 DEF Edit, Fresh
<1>2. CASE Delete BY <1>2 DEF Delete
<1> QED BY <1>1, <1>2

(* The transaction, its recoveries and the user, in any interleaving, keep *)
(* the invariant.                                                          *)
THEOREM LocalInvariant == LocalSpec => []LocalInv
<1>1. Init => LocalInv
  BY LocalInit
<1>2. LocalInv /\ [Next]_vars => LocalInv'
  <2>1. LocalInv /\ Next => LocalInv'
    BY WorkKeeps, TroubleKeeps, UserKeeps DEF Next
  <2>2. LocalInv /\ UNCHANGED vars => LocalInv'
    BY DEF LocalInv, LocalTypeOK, StageProved, BackupKnown, NoteIsNotNew,
           NothingLost, vars, files, user, env
  <2> QED BY <2>1, <2>2
<1> QED BY <1>1, <1>2, PTL DEF LocalSpec

(* Bytes that were not proved never stand under the name of the note.      *)
THEOREM LocalTypeCorrect == LocalSpec => []LocalTypeOK
<1>1. LocalInv => LocalTypeOK BY DEF LocalInv
<1> QED BY <1>1, LocalInvariant, PTL

(* No version the user wrote is lost, through any edits, crashes, failures *)
(* and recoveries.                                                         *)
THEOREM NothingIsLost == LocalSpec => []NothingLost
<1>1. LocalInv => NothingLost BY DEF LocalInv
<1> QED BY <1>1, LocalInvariant, PTL
=============================================================================
