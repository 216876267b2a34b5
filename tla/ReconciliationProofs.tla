------------------------ MODULE ReconciliationProofs ------------------------
(***************************************************************************)
(* For any number of devices, paths, objects, edits and crashes: what BASE *)
(* holds was in the account, an object goes to the trash only as a         *)
(* deletion or once its successor is there, and a pass over equal sides    *)
(* changes neither.  The properties are not inductive: a pass acts on      *)
(* contents and identities it has read before.  The invariant below says   *)
(* what of them survives the other devices, the users and the crashes: a   *)
(* content that was in the account stays there, live or in the trash, and  *)
(* a candidate belongs to one intent, whose result it carries.  A further  *)
(* part shows that no edit vanishes: what a download replaces the account  *)
(* has, or a user has decided against it.  The last one shows when edits   *)
(* stay in place: as long as none is known under two paths, which holds    *)
(* where notes are neither renamed nor decided about.                      *)
(***************************************************************************)
EXTENDS Reconciliation, TLAPS

Brought(i)  == drive[i].status \in {"live", "trashed"}
Uploaded(c) == \E i \in Ids : Brought(i) /\ drive[i].content = c

(* The versions an operation brings exist, those of the remote side in the *)
(* account.                                                                *)
Sound(o) ==
    /\ o.kind \in Uploads => o.mine \in Contents
    /\ o.kind = "clean-text-merge" => o.theirs \in Contents
    /\ o.kind \in Downloads \cup {"adopt"} => o.theirs \in Contents /\ Uploaded(o.theirs)

BackedAt(d) ==
    /\ \A p \in Paths : base[d][p] # None => Uploaded(base[d][p].content)
    /\ \A o \in plan[d] : Sound(o)
    /\ intent[d] # None => Sound(intent[d].op)

(* The candidate of an upload is reserved, or there with what the upload   *)
(* brings; the object another effect is about was in the account.          *)
CandidateAt(d) ==
    /\ Doing(d, Uploads) =>
          /\ intent[d].new \in Ids
          /\ drive[intent[d].new].status # "unused"
          /\ Brought(intent[d].new) =>
                drive[intent[d].new].content = Result(intent[d].op)
    /\ Doing(d, NeedsIdentity) => intent[d].op.id \in Ids /\ Brought(intent[d].op.id)
    /\ Doing(d, Replacing) /\ step[d] \in {"uploaded", "checked"} => Brought(intent[d].new)

(* An operation in execution has its intent.                               *)
Underway(d) == step[d] \notin {"idle", "running"} => intent[d] # None

(* Two uploads never share a candidate.                                    *)
Apart(d, e) ==
    d # e /\ Doing(d, Uploads) /\ Doing(e, Uploads) => intent[d].new # intent[e].new

ReconInv ==
    /\ ReconciliationTypeOK
    /\ \A d \in Devices : BackedAt(d) /\ CandidateAt(d) /\ Underway(d)
    /\ \A d, e \in Devices : Apart(d, e)

-----------------------------------------------------------------------------
(* What the planner is given and what it decides                           *)

LEMMA FactsTyped ==
    ASSUME ReconciliationTypeOK, NEW d \in Devices, NEW p \in Paths
    PROVE  /\ Facts(d).local[p] = local[d][p]
           /\ Facts(d).base[p] = base[d][p]
           /\ Facts(d).remote[p] = {[id |-> i, content |-> drive[i].content] : i \in Live(p)}
           /\ local[d][p] \in {Absent} \cup Contents
           /\ base[d][p] \in {None} \cup [content : Contents, id : {None} \cup Ids]
           /\ mapping[d][p] \in {None} \cup Ids
BY DEF Facts, ReconciliationTypeOK

LEMMA ObjectIsLive ==
    ASSUME ReconciliationTypeOK, NEW d \in Devices, NEW p \in Paths,
           RemoteHere(Facts(d), p)
    PROVE  \E i \in Live(p) : Object(Facts(d), p) = [id |-> i, content |-> drive[i].content]
<1>1. Object(Facts(d), p) \in Facts(d).remote[p]
  BY DEF RemoteHere, Object
<1> QED
  BY <1>1, FactsTyped

LEMMA ObjectTyped ==
    ASSUME ReconciliationTypeOK, NEW d \in Devices, NEW p \in Paths,
           RemoteHere(Facts(d), p)
    PROVE  /\ Object(Facts(d), p).id \in Ids
           /\ Object(Facts(d), p).content \in Contents
           /\ Uploaded(Object(Facts(d), p).content)
<1>1. PICK i \in Live(p) : Object(Facts(d), p) = [id |-> i, content |-> drive[i].content]
  BY ObjectIsLive
<1>2. i \in Ids /\ drive[i].status = "live" /\ drive[i].content \in Contents
  BY DEF Live, ReconciliationTypeOK, Objects
<1> QED
  BY <1>1, <1>2 DEF Uploaded, Brought

(* The decisions, and which versions there are when they are taken.        *)
Decisions == {"nothing", "forget", "adopt", "unresolved-conflict", "blocked-unsafe"}
             \cup Uploads \cup Downloads \cup {"trash-local", "trash-remote"}

LEMMA VerdictIsFounded ==
    ASSUME NEW f, NEW p
    PROVE  /\ Verdict(f, p) \in Decisions
           /\ Verdict(f, p) \in Uploads => LocalHere(f, p)
           /\ Verdict(f, p) \in Downloads \cup {"adopt", "clean-text-merge"} => RemoteHere(f, p)
           /\ Verdict(f, p) = "unresolved-conflict" => LocalHere(f, p) \/ RemoteHere(f, p)
<1> USE DEF Decisions, Uploads, Replacing, Downloads
<1>1. CASE Ambiguous(f, p)
  <2>1. Verdict(f, p) = "blocked-unsafe"
    BY <1>1 DEF Verdict, Ambiguous, RemoteHere
  <2> QED
    BY <2>1
<1>2. CASE ~Ambiguous(f, p) /\ ~LocalHere(f, p) /\ ~RemoteHere(f, p)
  BY <1>2 DEF Verdict, WhenNeither
<1>3. CASE ~Ambiguous(f, p) /\ ~LocalHere(f, p) /\ RemoteHere(f, p)
  BY <1>3 DEF Verdict, WhenRemoteOnly, RemoteChanged
<1>4. CASE ~Ambiguous(f, p) /\ LocalHere(f, p) /\ ~RemoteHere(f, p)
  BY <1>4 DEF Verdict, WhenLocalOnly, LocalChanged
<1>5. CASE ~Ambiguous(f, p) /\ LocalHere(f, p) /\ RemoteHere(f, p)
  BY <1>5 DEF Verdict, WhenBoth, WhenBothDiffer
<1> QED
  BY <1>1, <1>2, <1>3, <1>4, <1>5

(* A decision about a path that is not passive, as an operation.           *)
LEMMA DecidedIsSound ==
    ASSUME ReconciliationTypeOK, NEW d \in Devices, NEW p \in Paths,
           NEW k \in Decisions \ Passive,
           k \in Uploads => LocalHere(Facts(d), p),
           k \in Downloads \cup {"adopt", "clean-text-merge"} => RemoteHere(Facts(d), p)
    PROVE  Decided(Facts(d), p, k) \in Operations /\ Sound(Decided(Facts(d), p, k))
<1> DEFINE f == Facts(d)
           o == Decided(f, p, k)
<1>1. /\ f.local[p] \in {Absent} \cup Contents
      /\ LocalHere(f, p) => f.local[p] \in Contents
  BY FactsTyped DEF LocalHere
<1>2. /\ ObjectId(f, p) \in {None} \cup Ids
      /\ ObjectContent(f, p) \in {Absent} \cup Contents
      /\ RemoteHere(f, p) => /\ ObjectContent(f, p) \in Contents
                             /\ Uploaded(ObjectContent(f, p))
  BY ObjectTyped DEF ObjectId, ObjectContent
<1>3. o = [kind |-> k, path |-> p, source |-> p, id |-> ObjectId(f, p),
           mine |-> f.local[p], theirs |-> ObjectContent(f, p)]
  BY DEF Decided, Operation
<1>4. k \in {"adopt", "forget", "upload-create", "upload-update", "clean-text-merge",
             "download-create", "download-update", "trash-local", "trash-remote",
             "move-local", "move-remote"}
  BY DEF Decisions, Passive, Uploads, Replacing, Downloads
<1> HIDE DEF f, o
<1>5. o \in Operations
  BY <1>1, <1>2, <1>3, <1>4 DEF Operations
<1>6. Sound(o)
  BY <1>1, <1>2, <1>3 DEF Sound, f, Uploads, Replacing
<1> QED
  BY <1>5, <1>6 DEF o, f

LEMMA MovesAreSound ==
    ASSUME ReconciliationTypeOK, NEW d \in Devices, NEW o \in MovesOf(Facts(d))
    PROVE  o \in Operations /\ Sound(o)
<1> DEFINE f == Facts(d)
<1>1. CASE \E p, q \in Paths :
             /\ MovedInDrive(f, p, q)
             /\ o = Follow(f, p, q)
  <2>1. PICK p \in Paths, q \in Paths :
             /\ MovedInDrive(f, p, q)
             /\ o = Follow(f, p, q)
    BY <1>1
  <2>2. f.base[p] # None /\ RemoteHere(f, q)
    BY <2>1 DEF MovedInDrive, Shared, Candidates
  <2>3. f.base[p].id \in {None} \cup Ids /\ f.local[p] \in {Absent} \cup Contents
    BY <2>2, FactsTyped
  <2>4. Object(f, q).content \in Contents
    BY <2>2, ObjectTyped
  <2> QED
    BY <2>1, <2>3, <2>4 DEF Follow, Lead, Operation, Operations, Sound, Uploads, Replacing, Downloads
<1>2. CASE \E p, q \in Paths :
             /\ MovedInVault(f, p, q)
             /\ o = Lead(f, p, q)
  <2>1. PICK p \in Paths, q \in Paths :
             /\ MovedInVault(f, p, q)
             /\ o = Lead(f, p, q)
    BY <1>2
  <2>2. f.base[p] # None /\ RemoteHere(f, p)
    BY <2>1 DEF MovedInVault, Gone, Shared
  <2>3. f.base[p].id \in {None} \cup Ids /\ f.local[q] \in {Absent} \cup Contents
    BY <2>2, FactsTyped
  <2>4. Object(f, p).content \in Contents
    BY <2>2, ObjectTyped
  <2> QED
    BY <2>1, <2>3, <2>4 DEF Follow, Lead, Operation, Operations, Sound, Uploads, Replacing, Downloads
<1>3. (\E p, q \in Paths : MovedInDrive(f, p, q) /\ o = Follow(f, p, q)) \/
      (\E p, q \in Paths : MovedInVault(f, p, q) /\ o = Lead(f, p, q))
  <2> HIDE DEF f
  <2>1. o \in MovesOf(f)
    BY DEF f
  <2>2. PICK p \in Paths :
          o \in {Follow(f, p, q) : q \in {r \in Paths : MovedInDrive(f, p, r)}} \cup
                {Lead(f, p, q) : q \in {r \in Paths : MovedInVault(f, p, r)}}
    BY <2>1, Zenon DEF MovesOf
  <2> QED
    BY <2>2, Zenon
<1> QED
  BY <1>1, <1>2, <1>3

LEMMA PlanIsSound ==
    ASSUME ReconciliationTypeOK, NEW d \in Devices, NEW o \in Plan(Facts(d))
    PROVE  o \in Operations /\ Sound(o)
<1>1. CASE o \in MovesOf(Facts(d))
  BY <1>1, MovesAreSound
<1>2. CASE o \notin MovesOf(Facts(d))
  <2>1. PICK p \in Paths : /\ o = Decided(Facts(d), p, Verdict(Facts(d), p))
                           /\ Verdict(Facts(d), p) \notin Passive
    BY <1>2 DEF Plan
  <2>2. /\ Verdict(Facts(d), p) \in Decisions \ Passive
        /\ Verdict(Facts(d), p) \in Uploads => LocalHere(Facts(d), p)
        /\ Verdict(Facts(d), p) \in Downloads \cup {"adopt", "clean-text-merge"}
              => RemoteHere(Facts(d), p)
    BY <2>1, VerdictIsFounded
  <2> QED
    BY <2>1, <2>2, DecidedIsSound
<1> QED
  BY <1>1, <1>2

-----------------------------------------------------------------------------
(* Where a vault and the account agree, a pass only notes what it found,   *)
(* whatever BASE says (plan of core/planner.ts).                           *)

LEMMA CalmNow ==
    ASSUME ReconciliationTypeOK, NEW d \in Devices, InSync(d), NEW o \in Plan(Facts(d))
    PROVE  o.kind \in Noted
<1> DEFINE f == Facts(d)
<1>1. ASSUME NEW p \in Paths
      PROVE  /\ LocalHere(f, p) <=> RemoteHere(f, p)
             /\ ~Ambiguous(f, p)
             /\ RemoteHere(f, p) => f.local[p] = Object(f, p).content
  <2>1. /\ Live(p) = {} <=> local[d][p] = Absent
        /\ \A i \in Live(p) : Live(p) = {i} /\ local[d][p] = drive[i].content
    BY DEF InSync
  <2>a. /\ f.local[p] = local[d][p]
        /\ f.remote[p] = {[id |-> i, content |-> drive[i].content] : i \in Live(p)}
    BY FactsTyped
  <2>4. RemoteHere(f, p) => f.local[p] = Object(f, p).content
    BY <2>1, <2>a, ObjectIsLive
  <2> HIDE DEF f
  <2>2. LocalHere(f, p) <=> RemoteHere(f, p)
    <3>1. f.remote[p] = {} <=> Live(p) = {}
      BY <2>a, Zenon
    <3> QED
      BY <2>1, <2>a, <3>1 DEF LocalHere, RemoteHere
  <2>3. ~Ambiguous(f, p)
    BY <2>1, <2>a DEF Ambiguous
  <2> QED
    BY <2>2, <2>3, <2>4
<1> HIDE DEF f
<1>2. MovesOf(f) = {}
  BY <1>1 DEF MovesOf, MovedInDrive, MovedInVault, Gone
<1>3. ASSUME NEW p \in Paths
      PROVE  Verdict(f, p) \in Passive \cup Noted
  <2>1. CASE LocalHere(f, p)
    BY <2>1, <1>1 DEF Verdict, WhenBoth, Passive, Noted
  <2>2. CASE ~LocalHere(f, p)
    BY <2>2, <1>1 DEF Verdict, WhenNeither, Passive, Noted
  <2> QED
    BY <2>1, <2>2
<1>4. PICK p \in Paths : /\ o = Decided(f, p, Verdict(f, p))
                         /\ Verdict(f, p) \notin Passive
  BY <1>2 DEF Plan, f
<1> QED
  BY <1>3, <1>4 DEF Decided, Operation
-----------------------------------------------------------------------------
(* Frames: what the parts of the actions leave as it was                   *)

LEMMA IntentTyped ==
    ASSUME ReconciliationTypeOK, NEW d \in Devices, intent[d] # None
    PROVE  /\ intent[d].op \in Operations /\ intent[d].new \in {None} \cup Ids
           /\ intent[d].op.path \in Paths /\ intent[d].op.source \in Paths
           /\ intent[d].op.id \in {None} \cup Ids
BY DEF ReconciliationTypeOK, Intents, Operations

LEMMA ResultTyped ==
    ASSUME NEW o, Sound(o), o.kind \in Uploads
    PROVE  Result(o) \in Contents
BY DEF Sound, Result, Contents

(* What a device does to its own pass.                                     *)
OnlyPass(d) ==
    /\ plan' \in [Devices -> SUBSET Operations]
    /\ skipped' \in [Devices -> SUBSET Paths]
    /\ step' \in [Devices -> Steps]
    /\ plan'[d] \subseteq plan[d]
    /\ \A e \in Devices \ {d} : plan'[e] = plan[e] /\ step'[e] = step[e]

LEMMA StopFrame ==
    ASSUME ReconciliationTypeOK, NEW d \in Devices, Stop(d)
    PROVE  OnlyPass(d) /\ step'[d] = "idle"
BY DEF ReconciliationTypeOK, Stop, Advance, OnlyPass, Steps

LEMMA PassFrame ==
    ASSUME ReconciliationTypeOK, NEW d \in Devices, NEW ok, NEW to \in Steps, Pass(d, ok, to)
    PROVE  /\ OnlyPass(d)
           /\ step'[d] = "idle" \/ (ok /\ step'[d] = to)
<1>1. CASE ok
  BY <1>1 DEF ReconciliationTypeOK, Pass, Advance, OnlyPass
<1>2. CASE ~ok
  BY <1>2, StopFrame DEF Pass
<1> QED
  BY <1>1, <1>2

LEMMA ProceedFrame ==
    ASSUME ReconciliationTypeOK, NEW d \in Devices, NEW o, NEW skips \in SUBSET Paths,
           Proceed(d, o, skips)
    PROVE  OnlyPass(d) /\ step'[d] \in {"idle", "running"}
BY DEF ReconciliationTypeOK, Proceed, Advance, OnlyPass, Steps

(* What a commit writes into BASE was in the account.                      *)
LEMMA CommitFrame ==
    ASSUME ReconciliationTypeOK, NEW d \in Devices, BackedAt(d),
           NEW o \in Operations, Sound(o), NEW i \in {None} \cup Ids,
           o.kind \in Uploads => Uploaded(Result(o)),
           Commit(d, o, i)
    PROVE  /\ base' \in [Devices -> [Paths -> {None} \cup [content : Contents, id : {None} \cup Ids]]]
           /\ mapping' \in [Devices -> [Paths -> {None} \cup Ids]]
           /\ \A e \in Devices \ {d} : base'[e] = base[e]
           /\ \A p \in Paths : base'[d][p] # None => Uploaded(base'[d][p].content)
<1> DEFINE Entries == {None} \cup [content : Contents, id : {None} \cup Ids]
           Granted == /\ base' \in [Devices -> [Paths -> Entries]]
                      /\ mapping' \in [Devices -> [Paths -> {None} \cup Ids]]
                      /\ \A e \in Devices \ {d} : base'[e] = base[e]
                      /\ \A p \in Paths : base'[d][p] # None => Uploaded(base'[d][p].content)
<1>0. /\ base \in [Devices -> [Paths -> Entries]]
      /\ mapping \in [Devices -> [Paths -> {None} \cup Ids]]
      /\ \A p \in Paths : base[d][p] # None => Uploaded(base[d][p].content)
      /\ o.path \in Paths /\ o.source \in Paths
  BY DEF ReconciliationTypeOK, BackedAt, Operations
<1>a. ASSUME NEW c \in Contents, Uploaded(c), CommitVersion(d, o, i, c)
      PROVE  Granted
  BY <1>0, <1>a DEF CommitVersion, Known, Maps
<1>1. CASE o.kind \in Replacing \cup {"upload-create"} /\ CommitVersion(d, o, i, Result(o))
  <2>1. Result(o) \in Contents /\ Uploaded(Result(o))
    BY <1>1, ResultTyped DEF Uploads
  <2> QED
    BY <1>1, <1>a, <2>1
<1>2. CASE o.kind \in Downloads \cup {"adopt"} /\ CommitVersion(d, o, i, o.theirs)
  <2>1. o.theirs \in Contents /\ Uploaded(o.theirs)
    BY <1>2 DEF Sound
  <2> QED
    BY <1>2, <1>a, <2>1
<1>3. CASE o.kind \in Downloads /\ CommitCopy(d, o)
  <2>1. o.theirs \in Contents /\ Uploaded(o.theirs)
    BY <1>3 DEF Sound
  <2> QED
    BY <1>0, <1>3, <2>1 DEF CommitCopy, Known
<1>4. CASE CommitAbsence(d, o)
  BY <1>0, <1>4 DEF CommitAbsence, Known
<1>5. CASE CommitMove(d, o, i)
  <2>1. PICK e \in {base[d][o.source], base[d][o.path]} \ {None} :
        /\ base' = [base EXCEPT ![d] =
              [q \in Paths |-> IF q = o.path THEN [content |-> e.content, id |-> i]
                               ELSE IF q = o.source THEN None ELSE base[d][q]]]
        /\ mapping' = [mapping EXCEPT ![d] =
              [q \in Paths |-> IF q = o.path THEN i
                               ELSE IF q = o.source \/ mapping[d][q] = i THEN None
                               ELSE mapping[d][q]]]
    BY <1>5 DEF CommitMove
  <2>2. e \in [content : Contents, id : {None} \cup Ids] /\ Uploaded(e.content)
    BY <1>0, <2>1
  <2>3. mapping' \in [Devices -> [Paths -> {None} \cup Ids]]
    BY <1>0, <2>1
  <2>4. base' \in [Devices -> [Paths -> Entries]]
    BY <1>0, <2>1, <2>2
  <2> QED
    BY <1>0, <2>1, <2>2, <2>3, <2>4
<1> QED
  BY <1>1, <1>2, <1>3, <1>4, <1>5 DEF Commit

-----------------------------------------------------------------------------
(* A step of one device                                                    *)

(* Objects that were brought stay what they are; others become reserved or *)
(* are those of the device's own upload.                                   *)
Tame(d) ==
    \A i \in Ids :
        \/ /\ drive'[i].content = drive[i].content
           /\ drive'[i].status = drive[i].status \/ (Brought(i) /\ Brought(i)')
        \/ drive[i].status = "unused" /\ drive'[i].status = "reserved"
        \/ /\ Doing(d, Uploads) /\ i = intent[d].new
           /\ Brought(i) => Brought(i)' /\ drive'[i].content = drive[i].content

LEMMA UploadedStays ==
    ASSUME NEW d \in Devices, Tame(d), NEW c, Uploaded(c)
    PROVE  Uploaded(c)'
<1>1. PICK i \in Ids : Brought(i) /\ drive[i].content = c
  BY DEF Uploaded
<1>2. Brought(i)' /\ drive'[i].content = c
  BY <1>1 DEF Tame, Brought
<1> QED
  BY <1>2 DEF Uploaded

LEMMA SoundStays ==
    ASSUME NEW d \in Devices, Tame(d), NEW o, Sound(o)
    PROVE  Sound(o)'
BY UploadedStays DEF Sound

(* What another device has reserved or brought is left alone.              *)
LEMMA OthersKeep ==
    ASSUME ReconInv, NEW d \in Devices, Tame(d), NEW e \in Devices \ {d},
           intent'[e] = intent[e], step'[e] = step[e]
    PROVE  CandidateAt(e)'
<1>1. CandidateAt(e) /\ Apart(d, e)
  BY DEF ReconInv
<1>2. Doing(e, Uploads)' <=> Doing(e, Uploads)
  BY DEF Doing
<1>3. Doing(e, NeedsIdentity)' <=> Doing(e, NeedsIdentity)
  BY DEF Doing
<1>4. Doing(e, Replacing)' <=> Doing(e, Replacing)
  BY DEF Doing
<1>5. Doing(e, Replacing) => Doing(e, Uploads)
  BY DEF Doing, Uploads
<1>6. ASSUME Doing(e, Uploads)
      PROVE  /\ intent[e].new \in Ids
             /\ drive'[intent[e].new].status # "unused"
             /\ Brought(intent[e].new) => Brought(intent[e].new)'
             /\ Brought(intent[e].new)' =>
                    drive'[intent[e].new].content = Result(intent[e].op)
  BY <1>1, <1>6 DEF CandidateAt, Apart, Tame, Brought
<1>7. ASSUME Doing(e, NeedsIdentity)
      PROVE  intent[e].op.id \in Ids /\ Brought(intent[e].op.id)'
  BY <1>1, <1>7 DEF CandidateAt, Tame, Brought
<1>8. Brought(intent[e].new)' <=> drive'[intent[e].new].status \in {"live", "trashed"}
  BY DEF Brought
<1> QED
  BY <1>1, <1>2, <1>3, <1>4, <1>5, <1>6, <1>7 DEF CandidateAt, Brought, Result
(* The frame of a step of device d: the others keep what they have, and    *)
(* what d writes into BASE and plans to do is backed by the account.       *)
Alone(d) ==
    /\ \A e \in Devices \ {d} : /\ base'[e] = base[e] /\ plan'[e] = plan[e]
                                /\ intent'[e] = intent[e] /\ step'[e] = step[e]
    /\ \A p \in Paths : base'[d][p] # None => Uploaded(base'[d][p].content)
    /\ \A o \in plan'[d] : Sound(o)
    /\ intent'[d] # None => Sound(intent'[d].op)

LEMMA StepKeeps ==
    ASSUME ReconInv, NEW d \in Devices, ReconciliationTypeOK', Tame(d), Alone(d),
           CandidateAt(d)', step'[d] \in {"idle", "running"} \/ intent'[d] # None,
           \A e \in Devices \ {d} : Doing(d, Uploads)' /\ Doing(e, Uploads)
                                       => intent'[d].new # intent[e].new
    PROVE  ReconInv'
<1>1. ASSUME NEW e \in Devices
      PROVE  BackedAt(e)'
  <2>0. BackedAt(e)
    BY DEF ReconInv
  <2>1. \A p \in Paths : base'[e][p] # None => Uploaded(base'[e][p].content)
    BY <2>0 DEF Alone, BackedAt
  <2>2. \A o \in plan'[e] : Sound(o)
    BY <2>0 DEF Alone, BackedAt
  <2>3. intent'[e] # None => Sound(intent'[e].op)
    BY <2>0 DEF Alone, BackedAt
  <2>4. \A p \in Paths : base'[e][p] # None =>
            \E i \in Ids : Brought(i)' /\ drive'[i].content = base'[e][p].content
    <3>1. ASSUME NEW c, Uploaded(c) PROVE \E i \in Ids : Brought(i)' /\ drive'[i].content = c
      BY <3>1, UploadedStays DEF Uploaded
    <3> QED
      BY <2>1, <3>1
  <2>5. \A o \in plan'[e] : Sound(o)'
    BY <2>2, SoundStays
  <2>6. intent'[e] # None => \A o : o = intent'[e].op => Sound(o)'
    BY <2>3, SoundStays
  <2> QED
    BY <2>4, <2>5, <2>6 DEF BackedAt, Uploaded, Sound
<1>2. ASSUME NEW e \in Devices
      PROVE  CandidateAt(e)'
  BY OthersKeep DEF Alone
<1>3. ASSUME NEW e \in Devices, NEW g \in Devices
      PROVE  Apart(e, g)'
  <2>0. Apart(e, g)
    BY DEF ReconInv
  <2>1. \A a \in Devices \ {d} : intent'[a] = intent[a] /\ (Doing(a, Uploads)' <=> Doing(a, Uploads))
    BY DEF Alone, Doing
  <2>2. CASE e # d /\ g # d
    BY <2>0, <2>1, <2>2 DEF Apart
  <2>3. CASE e = d /\ g # d
    BY <2>1, <2>3 DEF Apart
  <2>4. CASE e # d /\ g = d
    BY <2>1, <2>4 DEF Apart
  <2>5. CASE e = g
    BY <2>5 DEF Apart
  <2> QED
    BY <2>2, <2>3, <2>4, <2>5
<1>4. ASSUME NEW e \in Devices
      PROVE  Underway(e)'
  BY DEF Alone, Underway, ReconInv
<1> QED
  BY <1>1, <1>2, <1>3, <1>4 DEF ReconInv

(* A step that creates no object and reserves none.                        *)
Gentle ==
    \A i \in Ids :
        /\ drive'[i].content = drive[i].content
        /\ drive'[i].status = drive[i].status \/ (Brought(i) /\ Brought(i)')

LEMMA GentleStep ==
    ASSUME ReconInv, NEW d \in Devices, ReconciliationTypeOK', Gentle, Alone(d),
           intent'[d] \in {intent[d], None},
           step'[d] \in {"idle", "running"} \/ intent'[d] # None,
           intent'[d] = intent[d] /\ Doing(d, Replacing) /\ step'[d] \in {"uploaded", "checked"}
               => Brought(intent[d].new)
    PROVE  ReconInv'
<1>1. Tame(d)
  BY DEF Gentle, Tame
<1>2. CandidateAt(d)'
  <2>1. CASE intent'[d] = None
    BY <2>1 DEF CandidateAt, Doing
  <2>2. CASE intent'[d] = intent[d]
    <3>0. CandidateAt(d)
      BY DEF ReconInv
    <3>1. /\ Doing(d, Uploads)' <=> Doing(d, Uploads)
          /\ Doing(d, NeedsIdentity)' <=> Doing(d, NeedsIdentity)
          /\ Doing(d, Replacing)' <=> Doing(d, Replacing)
          /\ Doing(d, Replacing) => Doing(d, Uploads)
      BY <2>2 DEF Doing, Uploads
    <3>2. \A i \in Ids : (Brought(i)' <=> Brought(i)) /\ (drive'[i].status = "unused" => drive[i].status = "unused")
      BY DEF Gentle, Brought
    <3>3. Doing(d, Uploads) =>
             /\ intent[d].new \in Ids
             /\ drive'[intent[d].new].status # "unused"
             /\ Brought(intent[d].new)' =>
                    drive'[intent[d].new].content = Result(intent[d].op)
      BY <2>2, <3>0, <3>2 DEF CandidateAt, Gentle, Brought
    <3>4. Doing(d, NeedsIdentity) => intent[d].op.id \in Ids /\ Brought(intent[d].op.id)'
      BY <2>2, <3>0, <3>2 DEF CandidateAt, Brought
    <3>5. Doing(d, Replacing) /\ step'[d] \in {"uploaded", "checked"} => Brought(intent[d].new)'
      BY <2>2, <3>1, <3>2, <3>3
    <3> QED
      BY <2>2, <3>1, <3>3, <3>4, <3>5 DEF CandidateAt, Brought, Result
  <2> QED
    BY <2>1, <2>2
<1>3. \A e \in Devices \ {d} : Doing(d, Uploads)' /\ Doing(e, Uploads)
                                  => intent'[d].new # intent[e].new
  BY DEF Doing, ReconInv, Apart
<1> QED
  BY <1>1, <1>2, <1>3, StepKeeps
(* A device that changes neither BASE nor its intent.                      *)
LEMMA PassAlone ==
    ASSUME ReconInv, NEW d \in Devices, OnlyPass(d), UNCHANGED <<base, intent>>
    PROVE  Alone(d)
BY DEF ReconInv, BackedAt, OnlyPass, Alone

(* Steps that leave the account, BASE and intents as they are.             *)
LEMMA IdleStep ==
    ASSUME ReconInv, NEW d \in Devices, OnlyPass(d),
           UNCHANGED <<drive, knowledge, intent>>,
           local' \in [Devices -> [Paths -> {Absent} \cup Contents]],
           fresh' \subseteq Edits, given' \subseteq Edits, bin' \subseteq Edits,
           acts' \in 0..MaxActs, crashes' \in 0..MaxCrashes,
           step'[d] \in {"idle", "running"} \/ intent[d] # None,
           Doing(d, Replacing) /\ step'[d] \in {"uploaded", "checked"}
               => Brought(intent[d].new)
    PROVE  ReconInv'
<1>1. ReconciliationTypeOK'
  BY DEF ReconInv, ReconciliationTypeOK, OnlyPass, knowledge
<1>2. Gentle
  BY DEF Gentle
<1>3. Alone(d)
  BY PassAlone DEF knowledge
<1> QED
  BY <1>1, <1>2, <1>3, GentleStep

LEMMA BoundsTyped ==
    ASSUME ReconInv
    PROVE  /\ local \in [Devices -> [Paths -> {Absent} \cup Contents]]
           /\ fresh \subseteq Edits /\ given \subseteq Edits /\ bin \subseteq Edits
           /\ acts \in 0..MaxActs /\ crashes \in 0..MaxCrashes
           /\ plan \in [Devices -> SUBSET Operations]
           /\ skipped \in [Devices -> SUBSET Paths]
           /\ step \in [Devices -> Steps]
BY DEF ReconInv, ReconciliationTypeOK

-----------------------------------------------------------------------------
(* One lemma for each action                                               *)

LEMMA InitOK == Init => ReconInv
<1> SUFFICES ASSUME Init PROVE ReconInv
  OBVIOUS
<1>1. \A p \in Notes : p \in Paths /\ p \in Ids /\ Written[p] \in Contents
  BY ReconciliationAssumption DEF Contents
<1>2. drive \in [Ids -> Objects]
  BY <1>1 DEF Init, Objects, Contents
<1>3. local \in [Devices -> [Paths -> {Absent} \cup Contents]]
  BY <1>1 DEF Init
<1>4. base \in [Devices -> [Paths -> {None} \cup [content : Contents, id : {None} \cup Ids]]]
  BY <1>1 DEF Init
<1>5. mapping \in [Devices -> [Paths -> {None} \cup Ids]]
  BY <1>1 DEF Init
<1>6. acts \in 0..MaxActs /\ crashes \in 0..MaxCrashes
  BY ReconciliationAssumption DEF Init
<1>7. ReconciliationTypeOK
  BY <1>2, <1>3, <1>4, <1>5, <1>6 DEF Init, ReconciliationTypeOK, Steps
<1>8. ASSUME NEW d \in Devices
      PROVE  BackedAt(d) /\ CandidateAt(d) /\ Underway(d)
  <2>1. ASSUME NEW p \in Paths, base[d][p] # None
        PROVE  Uploaded(base[d][p].content)
    <3>1. p \in Notes /\ base[d][p] = [content |-> Written[p], id |-> p]
      BY <2>1 DEF Init
    <3>2. p \in Ids /\ drive[p].status = "live" /\ drive[p].content = Written[p]
      BY <1>1, <3>1 DEF Init
    <3> QED
      BY <3>1, <3>2 DEF Uploaded, Brought
  <2>2. intent[d] = None /\ plan[d] = {} /\ step[d] = "idle"
    BY DEF Init
  <2> QED
    BY <2>1, <2>2 DEF BackedAt, CandidateAt, Underway, Doing
<1>9. \A d, e \in Devices : Apart(d, e)
  BY DEF Init, Apart, Doing
<1> QED
  BY <1>7, <1>8, <1>9 DEF ReconInv

LEMMA BeginOK == ASSUME ReconInv, NEW d \in Devices, Begin(d) PROVE ReconInv'
<1>0. ReconciliationTypeOK
  BY DEF ReconInv
<1>1. plan'[d] \in SUBSET Operations /\ \A o \in plan'[d] : Sound(o)
  BY <1>0, PlanIsSound DEF Begin, ReconciliationTypeOK
<1>2. /\ plan' \in [Devices -> SUBSET Operations]
      /\ \A e \in Devices \ {d} : plan'[e] = plan[e]
  BY <1>0, <1>1 DEF Begin, ReconciliationTypeOK
<1>3. step' \in [Devices -> Steps] /\ step'[d] = "running"
      /\ \A e \in Devices \ {d} : step'[e] = step[e]
  BY <1>0 DEF Begin, Advance, ReconciliationTypeOK, Steps
<1>4. /\ UNCHANGED <<drive, local, base, mapping, intent, fresh, given, bin, acts, crashes>>
      /\ skipped' = [skipped EXCEPT ![d] = Awaiting(Facts(d))]
  BY DEF Begin, knowledge, ghosts, bounds
<1>5. Awaiting(Facts(d)) \in SUBSET Paths
  BY DEF Awaiting, Conflicts
<1>6. skipped' \in [Devices -> SUBSET Paths]
  BY <1>0, <1>4, <1>5 DEF ReconciliationTypeOK
<1>7. ReconciliationTypeOK'
  BY <1>0, <1>2, <1>3, <1>4, <1>6 DEF ReconciliationTypeOK
<1>8. Alone(d)
  BY <1>1, <1>2, <1>3, <1>4 DEF ReconInv, BackedAt, Alone
<1>9. Gentle
  BY <1>4 DEF Gentle
<1> QED
  BY <1>3, <1>4, <1>7, <1>8, <1>9, GentleStep

LEMMA SkipOK ==
    ASSUME ReconInv, NEW d \in Devices, NEW o \in plan[d], Skip(d, o)
    PROVE  ReconInv'
<1>1. o \in Operations /\ Touches(o) \in SUBSET Paths
  BY BoundsTyped DEF Touches, Operations
<1>2. OnlyPass(d) /\ step'[d] \in {"idle", "running"}
  BY <1>1, ProceedFrame DEF Skip, ReconInv
<1> QED
  BY <1>2, BoundsTyped, IdleStep DEF Skip, ghosts, bounds

LEMMA GiveUpOK ==
    ASSUME ReconInv, NEW d \in Devices, NEW o \in plan[d], GiveUp(d, o)
    PROVE  ReconInv'
<1>1. OnlyPass(d) /\ step'[d] = "idle"
  BY StopFrame DEF GiveUp, ReconInv
<1> QED
  BY <1>1, BoundsTyped, IdleStep DEF GiveUp, ghosts, bounds

LEMMA NoteOK ==
    ASSUME ReconInv, NEW d \in Devices, NEW o \in plan[d], Note(d, o)
    PROVE  ReconInv'
<1>0. ReconciliationTypeOK /\ BackedAt(d)
  BY DEF ReconInv
<1>1. o \in Operations /\ Sound(o) /\ o.id \in {None} \cup Ids
  BY <1>0, BoundsTyped DEF BackedAt, Operations
<1>2. o.kind \notin Uploads
  BY DEF Note, Noted, Uploads, Replacing
<1>3. OnlyPass(d) /\ step'[d] \in {"idle", "running"}
  BY <1>0, ProceedFrame DEF Note
<1>4. /\ base' \in [Devices -> [Paths -> {None} \cup [content : Contents, id : {None} \cup Ids]]]
      /\ mapping' \in [Devices -> [Paths -> {None} \cup Ids]]
      /\ \A e \in Devices \ {d} : base'[e] = base[e]
      /\ \A p \in Paths : base'[d][p] # None => Uploaded(base'[d][p].content)
  BY <1>0, <1>1, <1>2, CommitFrame DEF Note
<1>5. UNCHANGED <<drive, local, intent, fresh, given, bin, acts, crashes>>
  BY DEF Note, ghosts, bounds
<1>6. ReconciliationTypeOK'
  BY <1>0, <1>3, <1>4, <1>5 DEF ReconciliationTypeOK, OnlyPass
<1>7. Alone(d)
  BY <1>0, <1>3, <1>4, <1>5 DEF BackedAt, OnlyPass, Alone
<1>8. Gentle
  BY <1>5 DEF Gentle
<1> QED
  BY <1>3, <1>5, <1>6, <1>7, <1>8, GentleStep

(* An intent is written for a version that was just seen.                  *)
LEMMA DispatchOK ==
    ASSUME ReconInv, NEW d \in Devices, NEW o \in plan[d], Dispatch(d, o)
    PROVE  ReconInv'
<1>0. ReconciliationTypeOK /\ BackedAt(d)
  BY DEF ReconInv
<1>1. o \in Operations /\ Sound(o) /\ o.id \in {None} \cup Ids
  BY <1>0, BoundsTyped DEF BackedAt, Operations
<1>2. /\ step' \in [Devices -> Steps] /\ step'[d] = "guarded"
      /\ \A e \in Devices \ {d} : step'[e] = step[e]
  BY <1>0 DEF Dispatch, Advance, ReconciliationTypeOK, Steps
<1>3. UNCHANGED <<local, base, mapping, plan, skipped, fresh, given, bin, acts, crashes>>
  BY DEF Dispatch, knowledge, ghosts, bounds
<1>4. o.kind \in NeedsIdentity => o.id \in Ids /\ Brought(o.id)
  <2>1. SUFFICES ASSUME o.kind \in NeedsIdentity PROVE o.id \in Ids /\ Brought(o.id)
    OBVIOUS
  <2>2. o.kind \in NeedsBase /\ o.kind # "adopt"
    BY <2>1 DEF NeedsBase, NeedsIdentity, Moves
  <2>3. o.id # None
    BY <2>1, <2>2 DEF Dispatch, Ready, Authorized, Converged
  <2>4. o.id \in Live(RemotePlace(o))
    BY <2>2, <2>3 DEF Dispatch, Ready, StillThere
  <2> QED
    BY <2>4 DEF Live, Brought
<1>5. CASE o.kind \in Uploads
  <2>1. NewId \in Ids /\ drive[NewId].status = "unused"
    BY <1>5 DEF Dispatch, NewId, Unused
  <2>2. /\ intent' = [intent EXCEPT ![d] = [op |-> o, new |-> NewId]]
        /\ drive' = [drive EXCEPT ![NewId].status = "reserved"]
    BY <1>5 DEF Dispatch, Becomes
  <2> HIDE DEF NewId
  <2>3. /\ intent'[d] = [op |-> o, new |-> NewId]
        /\ \A e \in Devices \ {d} : intent'[e] = intent[e]
        /\ intent' \in [Devices -> {None} \cup Intents] /\ intent'[d] # None
    BY <1>0, <1>1, <2>1, <2>2, IntentAssumption DEF ReconciliationTypeOK, Intents
  <2>4. /\ drive' \in [Ids -> Objects] /\ drive'[NewId].status = "reserved"
        /\ \A i \in Ids \ {NewId} : drive'[i] = drive[i]
    BY <1>0, <2>1, <2>2 DEF ReconciliationTypeOK, Objects
  <2>5. ReconciliationTypeOK'
    BY <1>0, <1>2, <1>3, <2>3, <2>4 DEF ReconciliationTypeOK
  <2>6. Tame(d)
    BY <2>1, <2>4 DEF Tame
  <2>7. Alone(d)
    BY <1>0, <1>1, <1>2, <1>3, <2>3 DEF BackedAt, Alone
  <2>8. CandidateAt(d)'
    <3>1. o.kind \in NeedsIdentity => Brought(o.id)'
      BY <1>4, <2>1, <2>4 DEF Brought
    <3> QED
      BY <1>2, <1>4, <2>1, <2>3, <2>4, <3>1 DEF CandidateAt, Doing, Brought
  <2>9. \A e \in Devices \ {d} : Doing(d, Uploads)' /\ Doing(e, Uploads)
                                    => intent'[d].new # intent[e].new
    BY <2>1, <2>3 DEF ReconInv, CandidateAt
  <2> QED
    BY <2>3, <2>5, <2>6, <2>7, <2>8, <2>9, StepKeeps
<1>6. CASE o.kind \notin Uploads
  <2>1. intent' = [intent EXCEPT ![d] = [op |-> o, new |-> o.id]] /\ UNCHANGED drive
    BY <1>6 DEF Dispatch
  <2>2. /\ intent'[d] = [op |-> o, new |-> o.id]
        /\ \A e \in Devices \ {d} : intent'[e] = intent[e]
        /\ intent' \in [Devices -> {None} \cup Intents] /\ intent'[d] # None
    BY <1>0, <1>1, <2>1, IntentAssumption DEF ReconciliationTypeOK, Intents
  <2>3. ReconciliationTypeOK'
    BY <1>0, <1>2, <1>3, <2>1, <2>2 DEF ReconciliationTypeOK
  <2>4. Tame(d)
    BY <2>1 DEF Tame
  <2>5. Alone(d)
    BY <1>0, <1>1, <1>2, <1>3, <2>2 DEF BackedAt, Alone
  <2>6. ~Doing(d, Uploads)'
    BY <1>6, <2>2 DEF Doing
  <2>7. CandidateAt(d)'
    BY <1>2, <1>4, <2>1, <2>2, <2>6 DEF CandidateAt, Doing, Brought
  <2> QED
    BY <2>2, <2>3, <2>4, <2>5, <2>6, <2>7, StepKeeps
<1> QED
  BY <1>5, <1>6

LEMMA StartOK == ASSUME ReconInv, NEW d \in Devices, Start(d) PROVE ReconInv'
<1>1. PICK o \in Earliest(plan[d]) : Skip(d, o) \/ GiveUp(d, o) \/ Note(d, o) \/ Dispatch(d, o)
  BY DEF Start
<1>2. o \in plan[d]
  BY DEF Earliest
<1> QED
  BY <1>1, <1>2, SkipOK, GiveUpOK, NoteOK, DispatchOK
(* The upload of a candidate, to where one was reserved for it.            *)
LEMMA UploadedStep ==
    ASSUME ReconInv, NEW d \in Devices, NEW to \in {"uploaded", "applied"},
           Doing(d, Uploads),
           drive' = [drive EXCEPT ![intent[d].new] =
               [status |-> "live", path |-> intent[d].op.path,
                content |-> Result(intent[d].op)]],
           Pass(d, TRUE, to),
           UNCHANGED <<local, knowledge, intent, ghosts, bounds>>
    PROVE  ReconInv'
<1> DEFINE o == intent[d].op
           i == intent[d].new
<1>0. ReconciliationTypeOK /\ BackedAt(d) /\ CandidateAt(d)
  BY DEF ReconInv
<1>1. /\ intent[d] # None /\ o.kind \in Uploads /\ i \in Ids /\ o \in Operations /\ o.path \in Paths
      /\ Brought(i) => drive[i].content = Result(o)
  BY <1>0, IntentTyped DEF CandidateAt, Doing
<1>2. Result(o) \in Contents
  BY <1>0, <1>1, ResultTyped DEF BackedAt
<1>3. OnlyPass(d)
  BY <1>0, PassFrame DEF Steps
<1>4. UNCHANGED <<local, base, mapping, intent, fresh, given, bin, acts, crashes>>
  BY DEF knowledge, ghosts, bounds
<1>5. /\ drive' \in [Ids -> Objects]
      /\ drive'[i].status = "live" /\ drive'[i].content = Result(o)
      /\ \A j \in Ids \ {i} : drive'[j] = drive[j]
  BY <1>0, <1>1, <1>2 DEF ReconciliationTypeOK, Objects
<1>6. ReconciliationTypeOK'
  BY <1>0, <1>3, <1>4, <1>5 DEF ReconciliationTypeOK, OnlyPass
<1>7. Tame(d)
  BY <1>1, <1>5 DEF Tame, Brought
<1>8. Alone(d)
  BY <1>4, <1>3, PassAlone
<1>9. CandidateAt(d)'
  <2>1. /\ Doing(d, NeedsIdentity)' <=> Doing(d, NeedsIdentity)
        /\ intent'[d] = intent[d]
    BY <1>4 DEF Doing
  <2>2. Doing(d, NeedsIdentity) => intent[d].op.id \in Ids /\ Brought(intent[d].op.id)'
    BY <1>0, <1>5 DEF CandidateAt, Brought
  <2>3. Brought(i)'
    BY <1>5 DEF Brought
  <2>4. drive'[i].status # "unused" /\ drive'[i].content = Result(o)
    BY <1>5
  <2> QED
    BY <1>1, <2>1, <2>2, <2>3, <2>4 DEF CandidateAt, Result
<1>10. \A e \in Devices \ {d} : Doing(d, Uploads)' /\ Doing(e, Uploads)
                                   => intent'[d].new # intent[e].new
  BY <1>4 DEF ReconInv, Apart
<1> QED
  BY <1>1, <1>4, <1>6, <1>7, <1>8, <1>9, <1>10, StepKeeps

LEMMA CreateOK == ASSUME ReconInv, NEW d \in Devices, Create(d) PROVE ReconInv'
<1>1. Doing(d, Uploads)
  BY DEF Create, Doing, Uploads
<1> QED
  BY <1>1, UploadedStep DEF Create

LEMMA UploadOK == ASSUME ReconInv, NEW d \in Devices, Upload(d) PROVE ReconInv'
<1>1. Doing(d, Uploads)
  BY DEF Upload, Doing, Uploads, Replacing
<1>2. CASE intent[d].op.id \in Live(intent[d].op.path)
  BY <1>1, <1>2, UploadedStep DEF Upload, Pass
<1>3. CASE intent[d].op.id \notin Live(intent[d].op.path)
  <2>1. Stop(d) /\ UNCHANGED <<drive, local, knowledge, intent, ghosts, bounds>>
    BY <1>3 DEF Upload, Pass
  <2>2. OnlyPass(d) /\ step'[d] = "idle"
    BY <2>1, StopFrame DEF ReconInv
  <2> QED
    BY <2>1, <2>2, BoundsTyped, IdleStep DEF ghosts, bounds
<1> QED
  BY <1>2, <1>3

LEMMA FinalizeOK == ASSUME ReconInv, NEW d \in Devices, Finalize(d) PROVE ReconInv'
<1>1. OnlyPass(d)
  BY PassFrame DEF Finalize, Steps, ReconInv
<1>2. /\ Doing(d, Replacing) => Brought(intent[d].new)
      /\ intent[d] # None
  BY DEF Finalize, ReconInv, CandidateAt, Underway
<1> QED
  BY <1>1, <1>2, BoundsTyped, IdleStep DEF Finalize, ghosts, bounds

(* An object that was in the account goes to the trash.                    *)
LEMMA TrashedStep ==
    ASSUME ReconInv, NEW d \in Devices, Doing(d, NeedsIdentity),
           Becomes(intent[d].op.id, "trashed"), Pass(d, TRUE, "applied"),
           UNCHANGED <<local, knowledge, intent, ghosts, bounds>>
    PROVE  ReconInv'
<1>0. ReconciliationTypeOK /\ CandidateAt(d)
  BY DEF ReconInv
<1>1. intent[d] # None /\ intent[d].op.id \in Ids /\ Brought(intent[d].op.id)
  BY <1>0 DEF CandidateAt, Doing
<1>2. OnlyPass(d) /\ step'[d] \in {"idle", "applied"}
  BY <1>0, PassFrame DEF Steps
<1>3. drive' \in [Ids -> Objects]
  BY <1>0, <1>1 DEF Becomes, ReconciliationTypeOK, Objects
<1>4. Gentle
  BY <1>0, <1>1 DEF Becomes, ReconciliationTypeOK, Gentle, Objects, Brought
<1>5. ReconciliationTypeOK'
  BY <1>0, <1>2, <1>3 DEF ReconciliationTypeOK, OnlyPass, knowledge, ghosts, bounds
<1>6. Alone(d)
  BY <1>2, PassAlone DEF knowledge
<1> QED
  BY <1>1, <1>2, <1>4, <1>5, <1>6, GentleStep

LEMMA RetireOK == ASSUME ReconInv, NEW d \in Devices, Retire(d) PROVE ReconInv'
<1>1. Doing(d, NeedsIdentity)
  BY DEF Retire, Doing, Replacing, NeedsIdentity
<1> QED
  BY <1>1, TrashedStep DEF Retire

LEMMA CheckTrashOK == ASSUME ReconInv, NEW d \in Devices, CheckTrash(d) PROVE ReconInv'
<1>1. OnlyPass(d)
  BY PassFrame DEF CheckTrash, Steps, ReconInv
<1>2. ~Doing(d, Replacing) /\ intent[d] # None
  BY DEF CheckTrash, Doing, Replacing
<1> QED
  BY <1>1, <1>2, BoundsTyped, IdleStep DEF CheckTrash, ghosts, bounds

LEMMA TrashRemoteOK == ASSUME ReconInv, NEW d \in Devices, TrashRemote(d) PROVE ReconInv'
<1>1. Doing(d, NeedsIdentity)
  BY DEF TrashRemote, Doing, NeedsIdentity
<1> QED
  BY <1>1, TrashedStep DEF TrashRemote

LEMMA CheckMoveOK == ASSUME ReconInv, NEW d \in Devices, CheckMove(d) PROVE ReconInv'
<1>1. OnlyPass(d)
  BY PassFrame DEF CheckMove, Steps, ReconInv
<1>2. ~Doing(d, Replacing) /\ intent[d] # None
  BY DEF CheckMove, Doing, Replacing
<1> QED
  BY <1>1, <1>2, BoundsTyped, IdleStep DEF CheckMove, ghosts, bounds

LEMMA MoveRemoteOK == ASSUME ReconInv, NEW d \in Devices, MoveRemote(d) PROVE ReconInv'
<1>0. ReconciliationTypeOK /\ CandidateAt(d) /\ intent[d] # None
  BY DEF ReconInv, MoveRemote, Doing
<1>1. intent[d].op.id \in Ids /\ intent[d].op.path \in Paths
  BY <1>0, IntentTyped DEF CandidateAt, MoveRemote, Doing, NeedsIdentity, Moves
<1>2. OnlyPass(d) /\ step'[d] \in {"idle", "applied"}
  BY <1>0, PassFrame DEF MoveRemote, Steps
<1>3. drive' \in [Ids -> Objects]
  BY <1>0, <1>1 DEF MoveRemote, ReconciliationTypeOK, Objects
<1>4. Gentle
  BY <1>0, <1>1 DEF MoveRemote, ReconciliationTypeOK, Gentle, Objects
<1>5. ReconciliationTypeOK'
  BY <1>0, <1>2, <1>3 DEF MoveRemote, ReconciliationTypeOK, OnlyPass, knowledge, ghosts, bounds
<1>6. Alone(d)
  BY <1>2, PassAlone DEF MoveRemote, knowledge
<1> QED
  BY <1>0, <1>2, <1>4, <1>5, <1>6, GentleStep DEF MoveRemote

(* What an effect on the vault brings has the type of a content.           *)
LEMMA BringsTyped ==
    ASSUME ReconInv, NEW d \in Devices, Doing(d, Downloads \cup {"clean-text-merge"})
    PROVE  /\ Brings(intent[d].op) \in Contents /\ intent[d].op.path \in Paths
           /\ intent[d] # None
<1>1. Sound(intent[d].op) /\ intent[d].op.path \in Paths
  BY IntentTyped DEF ReconInv, BackedAt, Doing
<1> QED
  BY <1>1 DEF Brings, Doing, Sound, Result, Contents, Downloads, Uploads, Replacing

LEMMA ReplaceOK == ASSUME ReconInv, NEW d \in Devices, Replace(d) PROVE ReconInv'
<1>1. Brings(intent[d].op) \in Contents /\ intent[d].op.path \in Paths /\ intent[d] # None
  BY BringsTyped DEF Replace
<1>2. local' \in [Devices -> [Paths -> {Absent} \cup Contents]]
  BY <1>1, BoundsTyped DEF Replace
<1>3. OnlyPass(d) /\ step'[d] \in {"idle", "applied", "merged"}
  BY PassFrame DEF Replace, Steps, ReconInv
<1> QED
  BY <1>1, <1>2, <1>3, BoundsTyped, IdleStep DEF Replace, ghosts, bounds

LEMMA TrashLocalOK == ASSUME ReconInv, NEW d \in Devices, TrashLocal(d) PROVE ReconInv'
<1>1. intent[d].op.path \in Paths /\ intent[d] # None
  BY IntentTyped DEF TrashLocal, Doing, ReconInv
<1>2. local' \in [Devices -> [Paths -> {Absent} \cup Contents]]
  BY <1>1, BoundsTyped DEF TrashLocal
<1>3. OnlyPass(d) /\ step'[d] \in {"idle", "applied"}
  BY PassFrame DEF TrashLocal, Steps, ReconInv
<1>4. bin' \subseteq Edits
  BY <1>1, BoundsTyped DEF TrashLocal, Contents
<1> QED
  BY <1>1, <1>2, <1>3, <1>4, BoundsTyped, IdleStep DEF TrashLocal, bounds

LEMMA MoveLocalOK == ASSUME ReconInv, NEW d \in Devices, MoveLocal(d) PROVE ReconInv'
<1>1. intent[d].op.path \in Paths /\ intent[d].op.source \in Paths /\ intent[d] # None
  BY IntentTyped DEF MoveLocal, Doing, ReconInv
<1>2. local' \in [Devices -> [Paths -> {Absent} \cup Contents]]
  BY <1>1, BoundsTyped DEF MoveLocal
<1>3. OnlyPass(d) /\ step'[d] \in {"idle", "applied"}
  BY PassFrame DEF MoveLocal, Steps, ReconInv
<1> QED
  BY <1>1, <1>2, <1>3, BoundsTyped, IdleStep DEF MoveLocal, ghosts, bounds
(* An upload whose candidate is seen has brought its result.               *)
LEMMA VisibleUpload ==
    ASSUME ReconInv, NEW d \in Devices, intent[d] # None, Visible(d) \/ Observed(d),
           intent[d].op.kind \in Uploads
    PROVE  Uploaded(Result(intent[d].op))
<1>1. CandidateAt(d) /\ Doing(d, Uploads)
  BY DEF ReconInv, Doing
<1>2. intent[d].new \in Live(intent[d].op.path)
  BY DEF Observed, Visible, Uploads, Replacing, Downloads
<1> QED
  BY <1>1, <1>2 DEF CandidateAt, Live, Brought, Uploaded

(* The commit of what the outstanding intent has brought, under the name o.*)
LEMMA CommittedStep ==
    ASSUME ReconInv, NEW d \in Devices, intent[d] # None,
           NEW o \in Operations, Sound(o), NEW i \in {None} \cup Ids,
           o.kind \in Uploads => Uploaded(Result(o)),
           Commit(d, o, i), Closed(d), OnlyPass(d), step'[d] \in {"idle", "running"},
           UNCHANGED <<drive, local, ghosts, bounds>>
    PROVE  ReconInv'
<1>0. ReconciliationTypeOK /\ BackedAt(d)
  BY DEF ReconInv
<1>1. /\ base' \in [Devices -> [Paths -> {None} \cup [content : Contents, id : {None} \cup Ids]]]
      /\ mapping' \in [Devices -> [Paths -> {None} \cup Ids]]
      /\ \A e \in Devices \ {d} : base'[e] = base[e]
      /\ \A p \in Paths : base'[d][p] # None => Uploaded(base'[d][p].content)
  BY <1>0, CommitFrame
<1>2. /\ intent' \in [Devices -> {None} \cup Intents]
      /\ intent'[d] = None
      /\ \A e \in Devices \ {d} : intent'[e] = intent[e]
  BY <1>0 DEF ReconciliationTypeOK, Closed
<1>3. ReconciliationTypeOK'
  BY <1>0, <1>1, <1>2 DEF ReconciliationTypeOK, OnlyPass, ghosts, bounds
<1>4. Alone(d)
  BY <1>0, <1>1, <1>2 DEF BackedAt, OnlyPass, Alone
<1>5. Gentle
  BY DEF Gentle
<1>6. ~(intent'[d] = intent[d])
  BY <1>2
<1> QED
  BY <1>2, <1>3, <1>4, <1>5, <1>6, GentleStep

LEMMA CompleteOK ==
    ASSUME ReconInv, NEW d \in Devices, Complete(d)
    PROVE  ReconInv'
<1>0. ReconciliationTypeOK /\ intent[d] # None
  BY DEF ReconInv, Underway, Complete
<1>1. CASE Verified(d)
  <2>1. /\ intent[d].op \in Operations /\ Sound(intent[d].op)
        /\ intent[d].new \in {None} \cup Ids
    BY <1>0, IntentTyped DEF ReconInv, BackedAt
  <2>2. OnlyPass(d) /\ step'[d] \in {"idle", "running"}
    BY <1>0, <1>1, ProceedFrame DEF Complete
  <2>3. Commit(d, intent[d].op, intent[d].new) /\ Closed(d)
        /\ UNCHANGED <<drive, local, ghosts, bounds>>
    BY <1>1 DEF Complete
  <2>4. intent[d].op.kind \in Uploads => Uploaded(Result(intent[d].op))
    BY <1>0, <1>1, VisibleUpload DEF Verified
  <2> QED
    BY <1>0, <2>1, <2>2, <2>3, <2>4, CommittedStep
<1>2. CASE ~Verified(d)
  <2>1. OnlyPass(d) /\ step'[d] = "idle"
    BY <1>0, <1>2, StopFrame DEF Complete
  <2> QED
    BY <1>2, <2>1, BoundsTyped, IdleStep DEF Complete, ghosts, bounds
<1> QED
  BY <1>1, <1>2

LEMMA CrashOK == ASSUME ReconInv, NEW d \in Devices, Crash(d) PROVE ReconInv'
<1>1. OnlyPass(d) /\ step'[d] = "idle"
  BY StopFrame DEF Crash, ReconInv
<1>2. crashes' \in 0..MaxCrashes
  BY BoundsTyped, ReconciliationAssumption DEF Crash
<1> QED
  BY <1>1, <1>2, BoundsTyped, IdleStep DEF Crash, ghosts

LEMMA RecoverUpdateOK == ASSUME ReconInv, NEW d \in Devices, RecoverUpdate(d) PROVE ReconInv'
<1>0. ReconciliationTypeOK /\ BackedAt(d)
  BY DEF ReconInv
<1>1. intent[d] # None /\ intent[d].op \in Operations /\ Sound(intent[d].op)
  BY <1>0, IntentTyped DEF RecoverUpdate, Outstanding, Doing, BackedAt
<1>2. Brought(intent[d].new)
  BY DEF RecoverUpdate, Live, Brought
<1>3. plan' = plan /\ plan' \in [Devices -> SUBSET Operations]
  BY <1>0 DEF RecoverUpdate, ReconciliationTypeOK
<1>4. step' \in [Devices -> Steps] /\ \A e \in Devices \ {d} : step'[e] = step[e]
  BY <1>0 DEF RecoverUpdate, Advance, ReconciliationTypeOK, Steps
<1>5. UNCHANGED <<drive, local, base, mapping, intent, skipped, fresh, given, bin, acts, crashes>>
  BY DEF RecoverUpdate, knowledge, ghosts, bounds
<1>6. ReconciliationTypeOK'
  BY <1>0, <1>3, <1>4, <1>5 DEF ReconciliationTypeOK
<1>7. Alone(d)
  BY <1>0, <1>1, <1>3, <1>4, <1>5 DEF BackedAt, Alone
<1>8. Gentle
  BY <1>5 DEF Gentle
<1> QED
  BY <1>1, <1>2, <1>5, <1>6, <1>7, <1>8, GentleStep

LEMMA RecoverReplaceOK == ASSUME ReconInv, NEW d \in Devices, RecoverReplace(d) PROVE ReconInv'
<1>1. Brings(intent[d].op) \in Contents /\ intent[d].op.path \in Paths
  BY BringsTyped DEF RecoverReplace, Outstanding
<1>2. local' \in [Devices -> [Paths -> {Absent} \cup Contents]]
  BY <1>1, BoundsTyped DEF RecoverReplace
<1>3. OnlyPass(d) /\ step'[d] = "idle"
  BY BoundsTyped DEF RecoverReplace, Outstanding, pass, OnlyPass
<1> QED
  BY <1>2, <1>3, BoundsTyped, IdleStep DEF RecoverReplace, ghosts, bounds

LEMMA RecoverCommitOK == ASSUME ReconInv, NEW d \in Devices, RecoverCommit(d) PROVE ReconInv'
<1> DEFINE o == Rebuilt(intent[d].op)
<1>0. ReconciliationTypeOK /\ intent[d] # None /\ Observed(d)
  BY DEF ReconInv, RecoverCommit
<1>1. intent[d].op \in Operations /\ Sound(intent[d].op) /\ intent[d].new \in {None} \cup Ids
  BY <1>0, IntentTyped DEF ReconInv, BackedAt
<1>2. /\ o \in Operations /\ o.kind = intent[d].op.kind
      /\ o.mine = intent[d].op.mine /\ o.theirs = intent[d].op.theirs
  BY <1>1 DEF Rebuilt, Operations
<1>3. Sound(o) /\ Result(o) = Result(intent[d].op)
  BY <1>1, <1>2 DEF Sound, Result
<1>4. o.kind \in Uploads => Uploaded(Result(o))
  BY <1>0, <1>2, <1>3, VisibleUpload
<1>5. PICK i \in Identity(d) : Commit(d, o, i)
  BY DEF RecoverCommit
<1>6. i \in {None} \cup Ids
  <2>1. intent[d].op.path \in Paths /\ intent[d].op.id \in {None} \cup Ids
    BY <1>1 DEF Operations
  <2>2. mapping[d][intent[d].op.path] \in {None} \cup Ids
    BY <1>0, <2>1 DEF ReconciliationTypeOK
  <2>3. Live(intent[d].op.path) \subseteq Ids
    BY DEF Live
  <2>4. intent[d].op.kind \in Uploads \cup {"move-remote", "trash-remote"}
                                \cup Downloads \cup {"trash-local", "move-local"}
    BY <1>0 DEF Observed, Visible, Uploads
  <2>5. CASE intent[d].op.kind \in Uploads \cup {"move-remote", "trash-remote"}
    BY <1>1, <1>5, <2>5 DEF Identity, Uploads, Replacing, Downloads
  <2>6. CASE intent[d].op.kind \in Downloads
    BY <1>5, <2>2, <2>3, <2>6 DEF Identity, Uploads, Replacing, Downloads
  <2>7. CASE intent[d].op.kind = "move-local"
    BY <1>5, <2>1, <2>2, <2>3, <2>7 DEF Identity, Uploads, Replacing, Downloads
  <2>8. CASE intent[d].op.kind = "trash-local"
    BY <1>5, <2>8 DEF Identity, Uploads, Replacing, Downloads
  <2> QED
    BY <2>4, <2>5, <2>6, <2>7, <2>8
<1>7. OnlyPass(d) /\ step'[d] = "idle"
  BY BoundsTyped DEF RecoverCommit, pass, OnlyPass
<1> HIDE DEF o
<1>8. Closed(d) /\ UNCHANGED <<drive, local, ghosts, bounds>>
  BY DEF RecoverCommit
<1> QED
  BY <1>0, <1>2, <1>3, <1>4, <1>5, <1>6, <1>7, <1>8, CommittedStep

LEMMA RecoverUnappliedOK == ASSUME ReconInv, NEW d \in Devices, RecoverUnapplied(d) PROVE ReconInv'
<1> DEFINE i == intent[d].new
<1>0. ReconciliationTypeOK /\ BackedAt(d) /\ CandidateAt(d)
  BY DEF ReconInv
<1>1. Doing(d, Uploads) /\ drive[i].status = "reserved"
  BY DEF RecoverUnapplied, Outstanding, Doing, Uploads
<1>2. i \in Ids
  BY <1>0, <1>1 DEF CandidateAt
<1>3. /\ drive' \in [Ids -> Objects]
      /\ \A j \in Ids \ {i} : drive'[j] = drive[j]
  BY <1>0, <1>2 DEF RecoverUnapplied, Becomes, ReconciliationTypeOK, Objects
<1>4. /\ intent' \in [Devices -> {None} \cup Intents]
      /\ intent'[d] = None
      /\ \A e \in Devices \ {d} : intent'[e] = intent[e]
  BY <1>0 DEF RecoverUnapplied, ReconciliationTypeOK, Closed
<1>5. /\ UNCHANGED <<local, base, mapping, plan, skipped, step, fresh, given, bin, acts, crashes>>
      /\ step[d] = "idle"
  BY DEF RecoverUnapplied, Outstanding, knowledge, pass, ghosts, bounds
<1>6. ReconciliationTypeOK'
  BY <1>0, <1>3, <1>4, <1>5 DEF ReconciliationTypeOK
<1>7. Tame(d)
  BY <1>1, <1>3 DEF Tame, Brought
<1>8. Alone(d)
  BY <1>0, <1>4, <1>5 DEF BackedAt, Alone
<1>9. ~Doing(d, Uploads)' /\ CandidateAt(d)'
  BY <1>4 DEF CandidateAt, Doing
<1> QED
  BY <1>5, <1>6, <1>7, <1>8, <1>9, StepKeeps

LEMMA ActsTyped ==
    ASSUME ReconInv, NEW d \in Devices, NEW k, Acts(d, k)
    PROVE  acts' \in 0..MaxActs
BY BoundsTyped, ReconciliationAssumption DEF Acts

(* A step of a user that changes no pass.                                  *)
LEMMA VaultStep ==
    ASSUME ReconInv, NEW d \in Devices, NEW k, Acts(d, k),
           local' \in [Devices -> [Paths -> {Absent} \cup Contents]],
           fresh' \subseteq Edits, given' \subseteq Edits,
           UNCHANGED <<drive, knowledge, intent, pass, bin, crashes>>
    PROVE  ReconInv'
<1>1. OnlyPass(d)
  BY BoundsTyped DEF OnlyPass, pass
<1>2. Doing(d, Replacing) /\ step'[d] \in {"uploaded", "checked"} => Brought(intent[d].new)
  BY DEF ReconInv, CandidateAt, pass
<1>3. step'[d] \in {"idle", "running"} \/ intent[d] # None
  BY DEF ReconInv, Underway, pass
<1> QED
  BY <1>1, <1>2, <1>3, BoundsTyped, ActsTyped, IdleStep

LEMMA WriteOK ==
    ASSUME ReconInv, NEW d \in Devices, NEW p \in Paths, NEW e \in Edits, Write(d, p, e)
    PROVE  ReconInv'
<1>1. InVault(d, p) \cup {e} \in Contents
  BY BoundsTyped DEF InVault, Contents
<1>2. local' \in [Devices -> [Paths -> {Absent} \cup Contents]]
  BY <1>1, BoundsTyped DEF Write
<1> QED
  BY <1>2, BoundsTyped, VaultStep DEF Write

LEMMA DeleteOK ==
    ASSUME ReconInv, NEW d \in Devices, NEW p \in Paths, Delete(d, p)
    PROVE  ReconInv'
<1>1. local' \in [Devices -> [Paths -> {Absent} \cup Contents]]
  BY BoundsTyped DEF Delete
<1>2. given' \subseteq Edits
  BY BoundsTyped DEF Delete, Contents
<1> QED
  BY <1>1, <1>2, BoundsTyped, VaultStep DEF Delete

LEMMA RenameOK ==
    ASSUME ReconInv, NEW d \in Devices, NEW p \in Paths, NEW q \in Paths, Rename(d, p, q)
    PROVE  ReconInv'
<1>1. local' \in [Devices -> [Paths -> {Absent} \cup Contents]]
  BY BoundsTyped DEF Rename
<1> QED
  BY <1>1, BoundsTyped, VaultStep DEF Rename, ghosts

(* What the user decides is an operation like those that are planned.      *)
LEMMA ResolvingIsSound ==
    ASSUME ReconciliationTypeOK, NEW d \in Devices, NEW p \in Conflicts(Facts(d)),
           NEW choice \in Resolutions, NEW operations \in Resolving(d, Facts(d), p, choice),
           NEW o \in operations
    PROVE  o \in Operations /\ Sound(o)
<1> DEFINE f == Facts(d)
<1>0. /\ p \in Paths /\ (LocalHere(f, p) \/ RemoteHere(f, p))
  BY VerdictIsFounded DEF Conflicts
<1>1. {"upload-create", "upload-update", "download-create", "download-update"}
         \subseteq Decisions \ Passive
  BY DEF Decisions, Uploads, Replacing, Downloads, Passive
<1>2. ASSUME LocalHere(f, p), NEW k \in {"upload-create", "upload-update"}
      PROVE  Decided(f, p, k) \in Operations /\ Sound(Decided(f, p, k))
  BY <1>0, <1>1, <1>2, DecidedIsSound DEF Downloads
<1>3. ASSUME RemoteHere(f, p), NEW k \in {"download-create", "download-update"}
      PROVE  Decided(f, p, k) \in Operations /\ Sound(Decided(f, p, k))
  BY <1>0, <1>1, <1>3, DecidedIsSound DEF Uploads, Replacing
<1>4. ASSUME RemoteHere(f, p), NEW q \in Paths,
             o = Operation("download-create", q, p, ObjectId(f, p), Absent, ObjectContent(f, p))
      PROVE  o \in Operations /\ Sound(o)
  <2>1. ObjectId(f, p) \in Ids /\ ObjectContent(f, p) \in Contents /\ Uploaded(ObjectContent(f, p))
    BY <1>0, <1>4, ObjectTyped DEF ObjectId, ObjectContent
  <2> HIDE DEF f
  <2> QED
    BY <1>0, <1>4, <2>1 DEF Operation, Operations, Sound, Uploads, Replacing
<1> HIDE DEF f
<1>5. operations \in Resolving(d, f, p, choice)
  BY DEF f
<1>6. CASE LocalHere(f, p) /\ RemoteHere(f, p) /\ choice = "keep-local"
  <2>1. operations = {Decided(f, p, "upload-update")}
    BY <1>5, <1>6 DEF Resolving
  <2> QED
    BY <1>2, <1>6, <2>1
<1>7. CASE LocalHere(f, p) /\ RemoteHere(f, p) /\ choice = "keep-remote"
  <2>1. operations = {Decided(f, p, "download-update")}
    BY <1>5, <1>7 DEF Resolving
  <2> QED
    BY <1>3, <1>7, <2>1
<1>8. CASE LocalHere(f, p) /\ RemoteHere(f, p) /\ choice = "keep-both"
  <2>1. operations \in
          {{Operation("download-create", q, p, ObjectId(f, p), Absent, ObjectContent(f, p)),
            Decided(f, p, "upload-update")} : q \in {r \in Paths : local[d][r] = Absent}}
    BY <1>5, <1>8 DEF Resolving
  <2>2. PICK q \in Paths : operations =
          {Operation("download-create", q, p, ObjectId(f, p), Absent, ObjectContent(f, p)),
           Decided(f, p, "upload-update")}
    BY <2>1
  <2> QED
    BY <1>2, <1>4, <1>8, <2>2
<1>9. CASE LocalHere(f, p) /\ ~RemoteHere(f, p)
  <2>1. operations = {Decided(f, p, "upload-create")}
    BY <1>5, <1>9 DEF Resolving
  <2> QED
    BY <1>2, <1>9, <2>1
<1>10. CASE ~LocalHere(f, p) /\ RemoteHere(f, p)
  <2>1. operations = {Decided(f, p, "download-create")}
    BY <1>5, <1>10 DEF Resolving
  <2> QED
    BY <1>3, <1>10, <2>1
<1>11. LocalHere(f, p) \/ RemoteHere(f, p)
  BY <1>0 DEF f
<1> QED
  BY <1>6, <1>7, <1>8, <1>9, <1>10, <1>11 DEF Resolutions

LEMMA ResolveOK ==
    ASSUME ReconInv, NEW d \in Devices, NEW p \in Paths, NEW choice \in Resolutions,
           Resolve(d, p, choice)
    PROVE  ReconInv'
<1>0. ReconciliationTypeOK /\ BackedAt(d)
  BY DEF ReconInv
<1>1. PICK operations \in Resolving(d, Facts(d), p, choice) :
         plan' = [plan EXCEPT ![d] = operations]
  BY DEF Resolve
<1>2. \A o \in operations : o \in Operations /\ Sound(o)
  BY <1>0, <1>1, ResolvingIsSound DEF Resolve
<1>3. /\ plan' \in [Devices -> SUBSET Operations] /\ plan'[d] = operations
      /\ \A e \in Devices \ {d} : plan'[e] = plan[e]
  BY <1>0, <1>1, <1>2 DEF ReconciliationTypeOK
<1>4. /\ step' \in [Devices -> Steps] /\ step'[d] = "running"
      /\ \A e \in Devices \ {d} : step'[e] = step[e]
  BY <1>0 DEF Resolve, Advance, ReconciliationTypeOK, Steps
<1>5. UNCHANGED <<drive, local, base, mapping, intent, skipped, fresh, bin, crashes>>
  BY DEF Resolve, knowledge
<1>6. DecidedAgainst(Facts(d), p, choice) \subseteq Edits
  <2>1. LocalHere(Facts(d), p) => Facts(d).local[p] \in Contents
    BY <1>0, FactsTyped DEF LocalHere
  <2>2. RemoteHere(Facts(d), p) => Object(Facts(d), p).content \in Contents
    BY <1>0, ObjectTyped
  <2>3. CASE ~(LocalHere(Facts(d), p) /\ RemoteHere(Facts(d), p))
    BY <2>3 DEF DecidedAgainst
  <2>4. CASE LocalHere(Facts(d), p) /\ RemoteHere(Facts(d), p)
    BY <2>1, <2>2, <2>4 DEF DecidedAgainst, Resolutions, Contents
  <2> QED
    BY <2>3, <2>4
<1>7. given' \subseteq Edits
  BY <1>0, <1>6 DEF Resolve, ReconciliationTypeOK
<1>8. acts' \in 0..MaxActs
  BY ActsTyped DEF Resolve
<1>9. ReconciliationTypeOK'
  BY <1>0, <1>3, <1>4, <1>5, <1>7, <1>8 DEF ReconciliationTypeOK
<1>10. Alone(d)
  BY <1>0, <1>2, <1>3, <1>4, <1>5 DEF BackedAt, Alone
<1>11. Gentle
  BY <1>5 DEF Gentle
<1> QED
  BY <1>4, <1>5, <1>9, <1>10, <1>11, GentleStep
-----------------------------------------------------------------------------
(* The theorems                                                            *)

LEMMA StepOK == ReconInv /\ [Next]_vars => ReconInv'
<1> SUFFICES ASSUME ReconInv, [Next]_vars PROVE ReconInv'
  OBVIOUS
<1>1. CASE UNCHANGED vars
  <2>1. UNCHANGED <<drive, local, base, mapping, intent, plan, skipped, step,
                    fresh, given, bin, acts, crashes>>
    BY <1>1 DEF vars, knowledge, pass, ghosts, bounds
  <2>2. ReconciliationTypeOK'
    BY <2>1 DEF ReconInv, ReconciliationTypeOK
  <2>3. ASSUME NEW d \in Devices PROVE BackedAt(d)'
    BY <2>1 DEF ReconInv, BackedAt, Sound, Uploaded, Brought
  <2>4. ASSUME NEW d \in Devices PROVE CandidateAt(d)' /\ Underway(d)'
    BY <2>1 DEF ReconInv, CandidateAt, Underway, Brought, Doing
  <2>5. ASSUME NEW d \in Devices, NEW e \in Devices PROVE Apart(d, e)'
    BY <2>1 DEF ReconInv, Apart, Doing
  <2> QED
    BY <2>2, <2>3, <2>4, <2>5 DEF ReconInv
<1>2. CASE Next
  <2>1. PICK d \in Devices : Device(d) \/ RecoverReplace(d) \/ Crash(d) \/ User(d)
    BY <1>2 DEF Next
  <2>2. CASE Device(d)
    BY <2>2, BeginOK, StartOK, CreateOK, UploadOK, FinalizeOK, RetireOK, CheckTrashOK,
       TrashRemoteOK, CheckMoveOK, MoveRemoteOK, ReplaceOK, TrashLocalOK, MoveLocalOK,
       CompleteOK, RecoverUpdateOK, RecoverCommitOK, RecoverUnappliedOK
       DEF Device, Effect, Recover
  <2>3. CASE User(d)
    BY <2>3, WriteOK, DeleteOK, RenameOK, ResolveOK DEF User
  <2> QED
    BY <2>1, <2>2, <2>3, RecoverReplaceOK, CrashOK
<1> QED
  BY <1>1, <1>2

(* The invariant holds in every reachable state.                           *)
THEOREM ReconInvariantHolds == Spec => []ReconInv
<1> QED
  BY InitOK, StepOK, PTL DEF Spec

(* Every variable keeps its type: plans and intents hold operations, BASE  *)
(* entries contents and identities.                                        *)
THEOREM ReconciliationTypeCorrect == Spec => []ReconciliationTypeOK
<1>1. ReconInv => ReconciliationTypeOK
  BY DEF ReconInv
<1> QED
  BY <1>1, ReconInvariantHolds, PTL

(* What a device's BASE says was shared, somebody had brought to the       *)
(* account (applySuccessfulOperation), through all crashes and recoveries. *)
THEOREM BaseIsShared == Spec => []BaseWasShared
<1>1. ReconInv => BaseWasShared
  <2> SUFFICES ASSUME ReconInv, NEW d \in Devices, NEW p \in Paths, base[d][p] # None
               PROVE  Uploaded(base[d][p].content)
    BY DEF BaseWasShared, Uploaded, Brought
  <2> QED
    BY DEF ReconInv, BackedAt
<1> QED
  BY <1>1, ReconInvariantHolds, PTL

(* A pass over a vault and an account that agree changes neither of them.  *)
THEOREM EqualSidesAreCalm == Spec => []CalmWhenEqual
<1>1. ReconInv => CalmWhenEqual
  BY CalmNow DEF ReconInv, CalmWhenEqual
<1> QED
  BY <1>1, ReconInvariantHolds, PTL

(* Only the trash of a remote object and the end of an update put one into *)
(* the trash (trashExisting, finalizeVerifiedUpdateCandidate), the latter  *)
(* when its candidate has been brought with all the update was to bring.   *)
THEOREM ObjectsAreReplaced == Spec => TrashedOrReplaced
<1> DEFINE Kept == \A i \in Ids : drive[i].status = "live" /\ drive[i].status' = "trashed" =>
                      \E d \in Devices : Retires(d, i)
<1>1. ReconInv /\ [Next]_vars => [Kept]_vars
  <2> SUFFICES ASSUME ReconInv, Next PROVE Kept
    OBVIOUS
  <2>0. drive \in [Ids -> Objects]
    BY DEF ReconInv, ReconciliationTypeOK
  <2>1. PICK d \in Devices : Device(d) \/ RecoverReplace(d) \/ Crash(d) \/ User(d)
    BY DEF Next
  <2>2. CASE UNCHANGED drive
    BY <2>2
  <2>3. CASE Retire(d)
    <3>1. /\ Doing(d, Replacing) /\ Doing(d, Uploads) /\ step[d] = "checked"
          /\ drive' = [drive EXCEPT ![intent[d].op.id].status = "trashed"]
      BY <2>3 DEF Retire, Becomes, Doing, Uploads
    <3>2. Retires(d, intent[d].op.id)
      BY <3>1 DEF Retires, ReconInv, CandidateAt, Brought
    <3>3. \A i \in Ids \ {intent[d].op.id} : drive'[i] = drive[i]
      BY <2>0, <3>1
    <3> QED
      BY <3>2, <3>3
  <2>4. CASE TrashRemote(d)
    <3>1. /\ Doing(d, {"trash-remote"})
          /\ drive' = [drive EXCEPT ![intent[d].op.id].status = "trashed"]
      BY <2>4 DEF TrashRemote, Becomes
    <3>2. \A i \in Ids \ {intent[d].op.id} : drive'[i] = drive[i]
      BY <2>0, <3>1
    <3> QED
      BY <3>1, <3>2 DEF Retires
  <2>5. ASSUME NEW object, object.status = "live",
               Doing(d, Uploads), drive' = [drive EXCEPT ![intent[d].new] = object]
        PROVE  Kept
    BY <2>0, <2>5
  <2>6. CASE MoveRemote(d)
    BY <2>0, <2>6 DEF MoveRemote
  <2>7. ASSUME NEW i, NEW status \in {"reserved", "unused"}, Becomes(i, status)
        PROVE  Kept
    BY <2>0, <2>7 DEF Becomes
  <2>8. CASE Start(d)
    BY <2>2, <2>7, <2>8 DEF Start, Skip, GiveUp, Note, Dispatch
  <2>9. CASE Create(d)
    BY <2>5, <2>9 DEF Create, Doing, Uploads
  <2>10. CASE Upload(d)
    BY <2>2, <2>5, <2>10 DEF Upload, Doing, Uploads, Replacing
  <2>11. CASE RecoverUnapplied(d)
    BY <2>7, <2>11 DEF RecoverUnapplied
  <2>12. CASE User(d)
    BY <2>2, <2>12 DEF User, Write, Delete, Rename, Resolve
  <2>13. CASE Begin(d) \/ Finalize(d) \/ CheckTrash(d) \/ CheckMove(d) \/ Replace(d)
             \/ TrashLocal(d) \/ MoveLocal(d) \/ Complete(d) \/ Crash(d)
             \/ RecoverUpdate(d) \/ RecoverReplace(d) \/ RecoverCommit(d)
    BY <2>2, <2>13 DEF Begin, Finalize, CheckTrash, CheckMove, Replace, TrashLocal,
       MoveLocal, Complete, Crash, RecoverUpdate, RecoverReplace, RecoverCommit
  <2> QED
    BY <2>1, <2>3, <2>4, <2>6, <2>8, <2>9, <2>10, <2>11, <2>12, <2>13
       DEF Device, Effect, Recover
<1> QED
  BY <1>1, ReconInvariantHolds, PTL DEF Spec, TrashedOrReplaced
-----------------------------------------------------------------------------
(* Edits stay within reach.  A pass replaces the version of a note only    *)
(* where BASE holds that very version, or where the user decided against   *)
(* what only that version has; the operation keeps this in its contents    *)
(* however much later, and after whichever crash, it is carried out.       *)

Kept(x) == \E i \in Ids : Brought(i) /\ x \in drive[i].content
Held(x) == \E d \in Devices, p \in Paths : local[d][p] # Absent /\ x \in local[d][p]

(* What a download is to replace is not lost with it.                      *)
Safe(o) ==
    o.kind \in Downloads /\ o.mine # Absent => \A x \in o.mine : x \in given \/ Kept(x)

SafeAt(d) ==
    /\ \A o \in plan[d] : Safe(o)
    /\ intent[d] # None => Safe(intent[d].op)

Found(x) == x \in given \/ x \in bin \/ Held(x) \/ Kept(x)

ReachInv ==
    /\ ReconInv
    /\ \A d \in Devices : SafeAt(d)
    /\ \A x \in Edits \ fresh : Found(x)

LEMMA UploadedIsKept ==
    ASSUME NEW c, Uploaded(c), NEW x \in c
    PROVE  Kept(x)
BY DEF Uploaded, Kept

(* plan of core/planner.ts: what a download replaces, if anything.         *)
LEMMA DownloadIsFounded ==
    ASSUME NEW f, NEW p
    PROVE  /\ Verdict(f, p) = "download-create" => ~LocalHere(f, p)
           /\ Verdict(f, p) = "download-update" =>
                 f.base[p] # None /\ f.local[p] = f.base[p].content
<1>1. CASE Ambiguous(f, p)
  BY <1>1 DEF Verdict, Ambiguous, RemoteHere
<1>2. CASE ~Ambiguous(f, p) /\ ~LocalHere(f, p) /\ ~RemoteHere(f, p)
  BY <1>2 DEF Verdict, WhenNeither
<1>3. CASE ~Ambiguous(f, p) /\ ~LocalHere(f, p) /\ RemoteHere(f, p)
  BY <1>3 DEF Verdict, WhenRemoteOnly, RemoteChanged
<1>4. CASE ~Ambiguous(f, p) /\ LocalHere(f, p) /\ ~RemoteHere(f, p)
  BY <1>4 DEF Verdict, WhenLocalOnly, LocalChanged
<1>5. CASE ~Ambiguous(f, p) /\ LocalHere(f, p) /\ RemoteHere(f, p)
  BY <1>5 DEF Verdict, WhenBoth, WhenBothDiffer, LocalChanged
<1> QED
  BY <1>1, <1>2, <1>3, <1>4, <1>5

LEMMA PlannedIsSafe ==
    ASSUME ReconInv, NEW d \in Devices, NEW o \in Plan(Facts(d))
    PROVE  Safe(o)
<1> DEFINE f == Facts(d)
<1>0. ReconciliationTypeOK /\ BackedAt(d)
  BY DEF ReconInv
<1>1. CASE o \in MovesOf(f)
  <2>1. o.kind \in Moves
    BY <1>1 DEF MovesOf, Follow, Lead, Operation, Moves
  <2> QED
    BY <2>1 DEF Safe, Downloads, Moves
<1>2. CASE o \notin MovesOf(f)
  <2>1. PICK p \in Paths : o = Decided(f, p, Verdict(f, p))
    BY <1>2 DEF Plan
  <2>2. o.kind = Verdict(f, p) /\ o.mine = f.local[p]
    BY <2>1 DEF Decided, Operation
  <2>a. f.local[p] = local[d][p] /\ f.base[p] = base[d][p]
    BY <1>0, FactsTyped
  <2> HIDE DEF f
  <2>b. /\ o.kind = "download-create" => o.mine = Absent
        /\ o.kind = "download-update" => f.base[p] # None /\ o.mine = f.base[p].content
    BY <2>2, DownloadIsFounded DEF LocalHere
  <2>3. CASE o.kind = "download-create"
    BY <2>b, <2>3 DEF Safe
  <2>4. CASE o.kind = "download-update"
    <3>1. base[d][p] # None /\ o.mine = base[d][p].content
      BY <2>a, <2>b, <2>4
    <3>2. Uploaded(o.mine)
      BY <1>0, <3>1 DEF BackedAt
    <3> QED
      BY <3>2, UploadedIsKept DEF Safe
  <2> QED
    BY <2>3, <2>4 DEF Safe, Downloads
<1> QED
  BY <1>1, <1>2

(* resolutionOperations: what the user decided against is all that goes.   *)
LEMMA ResolvedIsSafe ==
    ASSUME ReconInv, NEW d \in Devices, NEW p \in Conflicts(Facts(d)),
           NEW choice \in Resolutions, NEW operations \in Resolving(d, Facts(d), p, choice),
           NEW o \in operations, o.kind \in Downloads, o.mine # Absent, NEW x \in o.mine
    PROVE  x \in DecidedAgainst(Facts(d), p, choice) \/ Kept(x)
<1> DEFINE f == Facts(d)
<1>0. ReconciliationTypeOK /\ p \in Paths /\ (LocalHere(f, p) \/ RemoteHere(f, p))
  BY VerdictIsFounded DEF Conflicts, ReconInv
<1>1. RemoteHere(f, p) => Uploaded(Object(f, p).content)
  BY <1>0, ObjectTyped
<1> HIDE DEF f
<1>2. operations \in Resolving(d, f, p, choice)
  BY DEF f
<1>3. CASE LocalHere(f, p) /\ RemoteHere(f, p) /\ choice = "keep-local"
  <2>1. operations = {Decided(f, p, "upload-update")}
    BY <1>2, <1>3 DEF Resolving
  <2> QED
    BY <2>1 DEF Decided, Operation, Downloads
<1>4. CASE LocalHere(f, p) /\ RemoteHere(f, p) /\ choice = "keep-remote"
  <2>1. operations = {Decided(f, p, "download-update")}
    BY <1>2, <1>4 DEF Resolving
  <2>2. o.mine = f.local[p]
    BY <2>1 DEF Decided, Operation
  <2>3. DecidedAgainst(f, p, choice) = f.local[p] \ Object(f, p).content
    BY <1>4 DEF DecidedAgainst
  <2>4. CASE x \in Object(f, p).content
    BY <1>1, <1>4, <2>4, UploadedIsKept
  <2> QED
    BY <2>2, <2>3, <2>4 DEF f
<1>5. CASE LocalHere(f, p) /\ RemoteHere(f, p) /\ choice = "keep-both"
  <2>1. operations \in
          {{Operation("download-create", q, p, ObjectId(f, p), Absent, ObjectContent(f, p)),
            Decided(f, p, "upload-update")} : q \in {r \in Paths : local[d][r] = Absent}}
    BY <1>2, <1>5 DEF Resolving
  <2>2. PICK q \in Paths : operations =
          {Operation("download-create", q, p, ObjectId(f, p), Absent, ObjectContent(f, p)),
           Decided(f, p, "upload-update")}
    BY <2>1
  <2> QED
    BY <2>2 DEF Decided, Operation, Downloads
<1>6. CASE LocalHere(f, p) /\ ~RemoteHere(f, p)
  <2>1. operations = {Decided(f, p, "upload-create")}
    BY <1>2, <1>6 DEF Resolving
  <2> QED
    BY <2>1 DEF Decided, Operation, Downloads
<1>7. CASE ~LocalHere(f, p) /\ RemoteHere(f, p)
  <2>1. operations = {Decided(f, p, "download-create")}
    BY <1>2, <1>7 DEF Resolving
  <2> QED
    BY <1>7, <2>1 DEF Decided, Operation, LocalHere
<1> QED
  BY <1>0, <1>3, <1>4, <1>5, <1>6, <1>7 DEF f, Resolutions

(* What has been brought to the account stays there with its content.      *)
Lasting ==
    \A i \in Ids : Brought(i) => Brought(i)' /\ drive'[i].content = drive[i].content

Acting(d) == Device(d) \/ RecoverReplace(d) \/ Crash(d) \/ User(d)

LEMMA AccountLasts ==
    ASSUME ReconInv, NEW d \in Devices, Acting(d)
    PROVE  Lasting
<1>0. drive \in [Ids -> Objects] /\ CandidateAt(d)
  BY DEF ReconInv, ReconciliationTypeOK
<1>1. CASE UNCHANGED drive
  BY <1>1 DEF Lasting, Brought
<1>2. ASSUME NEW i, NEW status \in {"reserved", "unused", "trashed"}, Becomes(i, status),
             i \in Ids => (Brought(i) /\ status = "trashed") \/ ~Brought(i)
      PROVE  Lasting
  BY <1>0, <1>2 DEF Becomes, Lasting, Brought, Objects
<1>3. ASSUME Doing(d, Uploads),
             drive' = [drive EXCEPT ![intent[d].new] =
                 [status |-> "live", path |-> intent[d].op.path,
                  content |-> Result(intent[d].op)]]
      PROVE  Lasting
  BY <1>0, <1>3 DEF CandidateAt, Lasting, Brought
<1>4. CASE Create(d)
  BY <1>3, <1>4 DEF Create, Doing, Uploads
<1>5. CASE Upload(d)
  BY <1>1, <1>3, <1>5 DEF Upload, Doing, Uploads, Replacing
<1>6. CASE Retire(d) \/ TrashRemote(d)
  <2>1. Doing(d, NeedsIdentity)
    BY <1>6 DEF Retire, TrashRemote, Doing, Replacing, NeedsIdentity
  <2> QED
    BY <1>0, <1>2, <1>6, <2>1 DEF Retire, TrashRemote, CandidateAt
<1>7. CASE MoveRemote(d)
  BY <1>0, <1>7 DEF MoveRemote, Lasting, Brought, Objects
<1>8. CASE Start(d)
  <2>1. ASSUME NEW o, Dispatch(d, o) PROVE Lasting
    <3>1. CASE o.kind \in Uploads
      <4>1. NewId \in Ids /\ drive[NewId].status = "unused"
        BY <2>1, <3>1 DEF Dispatch, NewId, Unused
      <4> QED
        BY <1>2, <2>1, <3>1, <4>1 DEF Dispatch, Brought
    <3> QED
      BY <1>1, <2>1, <3>1 DEF Dispatch
  <2> QED
    BY <1>1, <1>8, <2>1 DEF Start, Skip, GiveUp, Note
<1>9. CASE RecoverUnapplied(d)
  BY <1>2, <1>9 DEF RecoverUnapplied, Brought
<1>10. CASE User(d)
  BY <1>1, <1>10 DEF User, Write, Delete, Rename, Resolve
<1>11. CASE Begin(d) \/ Finalize(d) \/ CheckTrash(d) \/ CheckMove(d) \/ Replace(d)
            \/ TrashLocal(d) \/ MoveLocal(d) \/ Complete(d) \/ Crash(d)
            \/ RecoverUpdate(d) \/ RecoverReplace(d) \/ RecoverCommit(d)
  BY <1>1, <1>11 DEF Begin, Finalize, CheckTrash, CheckMove, Replace, TrashLocal,
     MoveLocal, Complete, Crash, RecoverUpdate, RecoverReplace, RecoverCommit
<1> QED
  BY <1>4, <1>5, <1>6, <1>7, <1>8, <1>9, <1>10, <1>11 DEF Acting, Device, Effect, Recover

LEMMA KeptStays ==
    ASSUME Lasting, NEW x, Kept(x)
    PROVE  Kept(x)'
BY DEF Lasting, Kept

LEMMA SafeStays ==
    ASSUME Lasting, given \subseteq given', NEW o, Safe(o)
    PROVE  Safe(o)'
BY KeptStays DEF Safe

(* Nothing that was given up or trashed is forgotten.                      *)
LEMMA GhostsGrow ==
    ASSUME NEW d \in Devices, Acting(d)
    PROVE  given \subseteq given' /\ bin \subseteq bin'
<1>1. CASE UNCHANGED ghosts
  BY <1>1 DEF ghosts
<1>2. CASE User(d)
  BY <1>2 DEF User, Write, Delete, Rename, Resolve, ghosts
<1>3. CASE TrashLocal(d)
  BY <1>3 DEF TrashLocal
<1> QED
  BY <1>1, <1>2, <1>3 DEF Acting, Device, Effect, Recover, Begin, Start, Skip, GiveUp, Note,
     Dispatch, Create, Upload, Finalize, Retire, CheckTrash, TrashRemote, CheckMove, MoveRemote,
     Replace, MoveLocal, Complete, Crash, RecoverUpdate, RecoverReplace, RecoverCommit,
     RecoverUnapplied

-----------------------------------------------------------------------------
(* The steps of a pass and of a user, for what is planned and what is held *)

LEMMA PlansStaySafe ==
    ASSUME ReachInv, NEW d \in Devices, Acting(d), NEW e \in Devices
    PROVE  SafeAt(e)'
<1>0. ReconInv /\ ReconciliationTypeOK /\ Lasting /\ given \subseteq given' /\ SafeAt(d) /\ SafeAt(e)
  BY AccountLasts, GhostsGrow DEF ReachInv, ReconInv
<1>1. ASSUME \A o \in plan'[e] : Safe(o) \/ Safe(o)',
             intent'[e] # None => Safe(intent'[e].op)
      PROVE  SafeAt(e)'
  <2>1. \A o \in plan'[e] : Safe(o)'
    BY <1>0, <1>1, SafeStays
  <2>2. intent'[e] # None => \A o : o = intent'[e].op => Safe(o)'
    BY <1>0, <1>1, SafeStays
  <2> QED
    BY <2>1, <2>2 DEF SafeAt, Safe, Kept, Brought
<1>2. ASSUME OnlyPass(d), intent'[e] \in {intent[e], None}
      PROVE  SafeAt(e)'
  <2>1. plan'[e] \subseteq plan[e]
    BY <1>2 DEF OnlyPass
  <2> QED
    BY <1>0, <1>1, <1>2, <2>1 DEF SafeAt
<1>3. CASE Begin(d)
  <2>1. plan' = [plan EXCEPT ![d] = Plan(Facts(d))] /\ intent' = intent
    BY <1>3 DEF Begin
  <2>2. \A o \in plan'[e] : o \in plan[e] \/ o \in Plan(Facts(d))
    BY <1>0, <2>1 DEF ReconciliationTypeOK
  <2> QED
    BY <1>0, <1>1, <2>1, <2>2, PlannedIsSafe DEF SafeAt
<1>4. CASE Start(d)
  <2>1. PICK o \in plan[d] : Skip(d, o) \/ GiveUp(d, o) \/ Note(d, o) \/ Dispatch(d, o)
    BY <1>4 DEF Start, Earliest
  <2>2. CASE Dispatch(d, o)
    <3>1. plan' = plan /\ \E i : intent' = [intent EXCEPT ![d] = [op |-> o, new |-> i]]
      BY <2>2 DEF Dispatch
    <3>2. intent'[e] # None => intent'[e] = intent[e] \/ intent'[e].op = o
      BY <1>0, <3>1 DEF ReconciliationTypeOK
    <3> QED
      BY <1>0, <1>1, <2>1, <3>1, <3>2 DEF SafeAt
  <2>3. CASE Skip(d, o) \/ GiveUp(d, o) \/ Note(d, o)
    <3>1. o \in Operations /\ Touches(o) \in SUBSET Paths
      BY <1>0, BoundsTyped DEF Touches, Operations
    <3>2. OnlyPass(d)
      BY <1>0, <2>3, <3>1, ProceedFrame, StopFrame DEF Skip, GiveUp, Note
    <3> QED
      BY <1>2, <2>3, <3>2 DEF Skip, GiveUp, Note
  <2> QED
    BY <2>1, <2>2, <2>3
<1>5. CASE Create(d) \/ Upload(d) \/ Finalize(d) \/ Retire(d) \/ CheckTrash(d) \/ TrashRemote(d)
           \/ CheckMove(d) \/ MoveRemote(d) \/ Replace(d) \/ TrashLocal(d) \/ MoveLocal(d)
  <2>1. \E ok, to : to \in Steps /\ Pass(d, ok, to)
    BY <1>5 DEF Create, Upload, Finalize, Retire, CheckTrash, TrashRemote,
       CheckMove, MoveRemote, Replace, TrashLocal, MoveLocal, Steps
  <2>2. OnlyPass(d)
    BY <1>0, <2>1, PassFrame
  <2>3. intent' = intent
    BY <1>5 DEF Create, Upload, Finalize, Retire, CheckTrash, TrashRemote,
       CheckMove, MoveRemote, Replace, TrashLocal, MoveLocal
  <2> QED
    BY <1>2, <2>2, <2>3
<1>6. CASE Complete(d)
  <2>1. OnlyPass(d)
    BY <1>0, <1>6, ProceedFrame, StopFrame DEF Complete
  <2>2. intent'[e] \in {intent[e], None}
    BY <1>0, <1>6 DEF Complete, Closed, ReconciliationTypeOK
  <2> QED
    BY <1>2, <2>1, <2>2
<1>7. CASE Crash(d)
  BY <1>0, <1>2, <1>7, StopFrame DEF Crash
<1>8. CASE RecoverUpdate(d)
  <2>1. plan' = plan /\ intent' = intent
    BY <1>8 DEF RecoverUpdate
  <2> QED
    BY <1>0, <1>1, <2>1 DEF SafeAt
<1>9. CASE RecoverReplace(d) \/ RecoverCommit(d) \/ RecoverUnapplied(d)
  <2>1. plan' = plan
    BY <1>9 DEF RecoverReplace, RecoverCommit, RecoverUnapplied, pass
  <2>2. intent'[e] \in {intent[e], None}
    BY <1>0, <1>9 DEF RecoverReplace, RecoverCommit, RecoverUnapplied, Closed, ReconciliationTypeOK
  <2> QED
    BY <1>0, <1>1, <2>1, <2>2 DEF SafeAt
<1>10. ASSUME NEW p \in Paths, NEW choice \in Resolutions, Resolve(d, p, choice)
       PROVE  SafeAt(e)'
  <2>1. /\ p \in Conflicts(Facts(d)) /\ intent' = intent
        /\ given' = given \cup DecidedAgainst(Facts(d), p, choice)
    BY <1>10 DEF Resolve
  <2>2. PICK operations \in Resolving(d, Facts(d), p, choice) :
           plan' = [plan EXCEPT ![d] = operations]
    BY <1>10 DEF Resolve
  <2>3. ASSUME NEW o \in operations PROVE Safe(o)'
    <3> SUFFICES ASSUME o.kind \in Downloads, o.mine # Absent, NEW x \in o.mine
                 PROVE  x \in given' \/ Kept(x)'
      BY DEF Safe
    <3>1. x \in DecidedAgainst(Facts(d), p, choice) \/ Kept(x)
      BY <1>0, <2>1, ResolvedIsSafe
    <3> QED
      BY <1>0, <2>1, <3>1, KeptStays
  <2>4. \A o \in plan'[e] : o \in plan[e] \/ o \in operations
    BY <1>0, <2>2 DEF ReconciliationTypeOK
  <2> QED
    BY <1>0, <1>1, <2>1, <2>3, <2>4 DEF SafeAt
<1>11. CASE User(d)
  <2>1. CASE UNCHANGED <<plan, intent>>
    BY <1>0, <1>1, <2>1 DEF SafeAt
  <2> QED
    BY <1>10, <1>11, <2>1 DEF User, Write, Delete, Rename, pass
<1> QED
  BY <1>3, <1>4, <1>5, <1>6, <1>7, <1>8, <1>9, <1>11 DEF Acting, Device, Effect, Recover

(* Of what a vault held, a step leaves every edit where it can be found.   *)
LEMMA VaultsLose ==
    ASSUME ReachInv, NEW d \in Devices, Acting(d), NEW x, Held(x)
    PROVE  x \in given' \/ x \in bin' \/ Held(x)' \/ Kept(x)
<1>0. /\ ReconInv /\ ReconciliationTypeOK /\ SafeAt(d)
      /\ given \subseteq given'
      /\ local \in [Devices -> [Paths -> {Absent} \cup Contents]]
  BY GhostsGrow DEF ReachInv, ReconInv, ReconciliationTypeOK
<1>1. PICK e \in Devices, p \in Paths : local[e][p] # Absent /\ x \in local[e][p]
  BY DEF Held
<1>2. ASSUME \E g \in Devices, q \in Paths : local'[g][q] # Absent /\ x \in local'[g][q]
      PROVE  Held(x)'
  BY <1>2 DEF Held
<1>3. CASE UNCHANGED local
  BY <1>1, <1>2, <1>3
<1>4. CASE Replace(d) \/ RecoverReplace(d)
  <2> DEFINE o == intent[d].op
  <2>1. CASE local' = local
    BY <1>3, <2>1
  <2>2. CASE local' # local
    <3>1. /\ Doing(d, Downloads \cup {"clean-text-merge"}) /\ local[d][o.path] = o.mine
          /\ local' = [local EXCEPT ![d][o.path] = Brings(o)]
      BY <1>4, <2>2 DEF Replace, RecoverReplace, Outstanding
    <3>2. /\ intent[d] # None /\ o.path \in Paths /\ Brings(o) \in Contents
          /\ o.kind \in Downloads \cup {"clean-text-merge"} /\ Safe(o)
      BY <1>0, <3>1, BringsTyped DEF Doing, SafeAt
    <3>3. CASE ~(e = d /\ p = o.path)
      <4>1. local'[e][p] = local[e][p]
        BY <1>0, <3>1, <3>2, <3>3
      <4> QED
        BY <1>1, <1>2, <4>1
    <3>4. CASE e = d /\ p = o.path
      <4>1. o.mine # Absent /\ x \in o.mine
        BY <1>1, <3>1, <3>4
      <4>2. CASE o.kind \in Downloads
        BY <1>0, <3>2, <4>1, <4>2 DEF Safe
      <4>3. CASE o.kind = "clean-text-merge"
        <5>1. local'[d][o.path] = Brings(o)
          BY <1>0, <3>1, <3>2
        <5>2. Brings(o) # Absent
          BY <3>2, AbsenceAssumption DEF Contents
        <5>3. x \in Brings(o)
          BY <4>1, <4>3 DEF Brings, Result, Downloads
        <5> QED
          BY <1>2, <3>2, <5>1, <5>2, <5>3
      <4> QED
        BY <3>2, <4>2, <4>3
    <3> QED
      BY <3>3, <3>4
  <2> QED
    BY <2>1, <2>2
<1>5. CASE TrashLocal(d)
  <2> DEFINE q == intent[d].op.path
  <2>1. q \in Paths
    BY <1>0, <1>5, IntentTyped DEF TrashLocal, Doing
  <2>2. /\ local' = [local EXCEPT ![d][q] = Absent]
        /\ bin' = IF local[d][q] # Absent THEN bin \cup local[d][q] ELSE bin
    BY <1>5 DEF TrashLocal
  <2>3. CASE e = d /\ p = q
    BY <1>1, <2>2, <2>3
  <2>4. CASE ~(e = d /\ p = q)
    <3>1. local'[e][p] = local[e][p]
      BY <1>0, <2>1, <2>2, <2>4
    <3> QED
      BY <1>1, <1>2, <3>1
  <2> QED
    BY <2>3, <2>4
<1>6. ASSUME NEW p1 \in Paths, NEW p2 \in Paths, local[d][p1] # Absent, local[d][p2] = Absent,
             local' = [local EXCEPT ![d][p2] = local[d][p1], ![d][p1] = Absent]
      PROVE  Held(x)'
  <2>1. CASE e = d /\ p = p1
    <3>1. local'[d][p2] = local[d][p1]
      BY <1>0, <1>6
    <3> QED
      BY <1>1, <1>2, <1>6, <2>1, <3>1
  <2>2. CASE ~(e = d /\ p = p1)
    <3>1. local'[e][p] = local[e][p]
      BY <1>0, <1>1, <1>6, <2>2
    <3> QED
      BY <1>1, <1>2, <3>1
  <2> QED
    BY <2>1, <2>2
<1>7. CASE MoveLocal(d)
  <2>1. intent[d].op.path \in Paths /\ intent[d].op.source \in Paths
    BY <1>0, <1>7, IntentTyped DEF MoveLocal, Doing
  <2> QED
    BY <1>3, <1>6, <1>7, <2>1 DEF MoveLocal
<1>8. CASE User(d)
  <2>1. ASSUME NEW q \in Paths, NEW edit \in Edits, Write(d, q, edit) PROVE Held(x)'
    <3>1. /\ local' = [local EXCEPT ![d][q] = InVault(d, q) \cup {edit}]
          /\ InVault(d, q) \cup {edit} \in Contents
      BY <1>0, <2>1 DEF Write, InVault, Contents
    <3>2. CASE e = d /\ p = q
      <4>1. local'[d][q] = InVault(d, q) \cup {edit} /\ local'[d][q] # Absent
        BY <1>0, <3>1, AbsenceAssumption DEF Contents
      <4>2. x \in InVault(d, q)
        BY <1>1, <3>2 DEF InVault
      <4> QED
        BY <1>2, <4>1, <4>2
    <3>3. CASE ~(e = d /\ p = q)
      <4>1. local'[e][p] = local[e][p]
        BY <1>0, <3>1, <3>3
      <4> QED
        BY <1>1, <1>2, <4>1
    <3> QED
      BY <3>2, <3>3
  <2>2. ASSUME NEW q \in Paths, Delete(d, q) PROVE x \in given' \/ Held(x)'
    <3>1. local' = [local EXCEPT ![d][q] = Absent] /\ given' = given \cup local[d][q]
      BY <2>2 DEF Delete
    <3>2. CASE e = d /\ p = q
      BY <1>1, <3>1, <3>2
    <3>3. CASE ~(e = d /\ p = q)
      <4>1. local'[e][p] = local[e][p]
        BY <1>0, <3>1, <3>3
      <4> QED
        BY <1>1, <1>2, <4>1
    <3> QED
      BY <3>2, <3>3
  <2>3. ASSUME NEW p1 \in Paths, NEW p2 \in Paths, Rename(d, p1, p2) PROVE Held(x)'
    BY <1>6, <2>3 DEF Rename
  <2>4. ASSUME NEW q \in Paths, NEW choice \in Resolutions, Resolve(d, q, choice) PROVE UNCHANGED local
    BY <2>4 DEF Resolve
  <2> QED
    BY <1>3, <1>8, <2>1, <2>2, <2>3, <2>4 DEF User
<1> QED
  BY <1>3, <1>4, <1>5, <1>7, <1>8 DEF Acting, Device, Effect, Recover, Begin, Start, Skip, GiveUp,
     Note, Dispatch, Create, Upload, Finalize, Retire, CheckTrash, TrashRemote, CheckMove,
     MoveRemote, Complete, Crash, RecoverUpdate, RecoverCommit, RecoverUnapplied

(* An edit that is being written is in a vault.                            *)
LEMMA WrittenIsHeld ==
    ASSUME ReconInv, NEW d \in Devices, Acting(d), NEW x \in fresh, x \notin fresh'
    PROVE  Held(x)'
<1>0. local \in [Devices -> [Paths -> {Absent} \cup Contents]]
  BY DEF ReconInv, ReconciliationTypeOK
<1>1. CASE \E p \in Paths, edit \in Edits : Write(d, p, edit)
  <2>1. PICK p \in Paths, edit \in Edits : Write(d, p, edit)
    BY <1>1
  <2>2. x = edit /\ local' = [local EXCEPT ![d][p] = InVault(d, p) \cup {edit}]
    BY <2>1 DEF Write
  <2>3. InVault(d, p) \cup {edit} \in Contents
    BY <1>0, <2>1 DEF InVault, Contents
  <2>4. local'[d][p] # Absent /\ x \in local'[d][p]
    BY <1>0, <2>2, <2>3, AbsenceAssumption DEF Contents
  <2> QED
    BY <2>4 DEF Held
<1>2. CASE UNCHANGED fresh
  BY <1>2
<1>3. CASE UNCHANGED ghosts
  BY <1>2, <1>3 DEF ghosts
<1>4. CASE User(d)
  BY <1>1, <1>2, <1>4 DEF User, Delete, Rename, Resolve, ghosts
<1> QED
  BY <1>2, <1>3, <1>4 DEF Acting, Device, Effect, Recover, Begin, Start, Skip, GiveUp, Note,
     Dispatch, Create, Upload, Finalize, Retire, CheckTrash, TrashRemote, CheckMove, MoveRemote,
     Replace, TrashLocal, MoveLocal, Complete, Crash, RecoverUpdate, RecoverReplace,
     RecoverCommit, RecoverUnapplied

LEMMA ReachInit == Init => ReachInv
<1> SUFFICES ASSUME Init PROVE ReachInv
  OBVIOUS
<1>1. \A d \in Devices : SafeAt(d)
  BY DEF Init, SafeAt
<1>2. ASSUME NEW x \in Edits \ fresh PROVE Found(x)
  <2>1. PICK p \in Notes : x \in Written[p]
    BY <1>2 DEF Init
  <2>2. p \in Ids /\ drive[p].status = "live" /\ drive[p].content = Written[p]
    BY <2>1, ReconciliationAssumption DEF Init
  <2> QED
    BY <2>1, <2>2 DEF Found, Kept, Brought
<1> QED
  BY <1>1, <1>2, InitOK DEF ReachInv

LEMMA ReachStep == ReachInv /\ [Next]_vars => ReachInv'
<1> SUFFICES ASSUME ReachInv, [Next]_vars PROVE ReachInv'
  OBVIOUS
<1>0. ReconInv'
  BY StepOK DEF ReachInv
<1>1. CASE UNCHANGED vars
  <2>1. UNCHANGED <<drive, local, base, mapping, intent, plan, skipped, step,
                    fresh, given, bin, acts, crashes>>
    BY <1>1 DEF vars, knowledge, pass, ghosts, bounds
  <2>2. \A d \in Devices : SafeAt(d)'
    BY <2>1 DEF ReachInv, SafeAt, Safe, Kept, Brought
  <2>3. \A x \in Edits \ fresh' : Found(x)'
    BY <2>1 DEF ReachInv, Found, Held, Kept, Brought
  <2> QED
    BY <1>0, <2>2, <2>3 DEF ReachInv
<1>2. CASE Next
  <2>1. PICK d \in Devices : Acting(d)
    BY <1>2 DEF Next, Acting
  <2>2. Lasting /\ given \subseteq given' /\ bin \subseteq bin'
    BY <2>1, AccountLasts, GhostsGrow DEF ReachInv
  <2>3. \A e \in Devices : SafeAt(e)'
    BY <2>1, PlansStaySafe
  <2>4. ASSUME NEW x \in Edits \ fresh' PROVE Found(x)'
    <3>1. CASE x \in fresh
      BY <2>1, <2>4, <3>1, WrittenIsHeld DEF ReachInv, Found
    <3>2. CASE x \notin fresh
      <4>1. Found(x)
        BY <2>4, <3>2 DEF ReachInv
      <4>2. Held(x) => x \in given' \/ x \in bin' \/ Held(x)' \/ Kept(x)
        BY <2>1, VaultsLose
      <4>3. Kept(x) => Kept(x)'
        BY <2>2, KeptStays
      <4> QED
        BY <2>2, <4>1, <4>2, <4>3 DEF Found
    <3> QED
      BY <3>1, <3>2
  <2> QED
    BY <1>0, <2>3, <2>4 DEF ReachInv
<1> QED
  BY <1>1, <1>2

(* Whatever the devices, their passes and crashes and the users do, an     *)
(* edit that nobody gave up is in a vault, in an object of the account, be *)
(* it in the trash, or in the trash of a vault: the executor replaces a    *)
(* version (commitReplace) only where the account has it.                  *)
THEOREM NoEditVanishes == Spec => []EditsRecoverable
<1>1. ReachInv => EditsRecoverable
  <2> SUFFICES ASSUME ReachInv, NEW x \in Writing
               PROVE  x \in InVaults \cup InObjects \cup bin
    BY DEF EditsRecoverable
  <2>1. Found(x) /\ x \notin given
    BY DEF ReachInv, Writing
  <2>2. Held(x) => x \in InVaults
    <3> SUFFICES ASSUME NEW d \in Devices, NEW p \in Paths, local[d][p] # Absent, x \in local[d][p]
                 PROVE  x \in InVaults
      BY DEF Held
    <3>1. x \in InVault(d, p)
      BY DEF InVault
    <3> QED
      BY <3>1 DEF InVaults
  <2>3. Kept(x) => x \in InObjects
    BY DEF Kept, Brought, InObjects
  <2> QED
    BY <2>1, <2>2, <2>3 DEF Found
<1> QED
  BY <1>1, ReachInit, ReachStep, PTL DEF Spec

-----------------------------------------------------------------------------
(* Edits stay in place.  What follows is about notes that keep their path: *)
(* as long as each edit is known under one path only, what a pass takes    *)
(* away is spent or lives on in the account, although devices replace one  *)
(* another's objects and nothing coordinates them.                         *)

(* What a user gave up or a pass has put into the trash of a vault.        *)
Spent(x) == x \in given \/ x \in bin
Alive(x) == \E i \in Ids : drive[i].status = "live" /\ x \in drive[i].content

(* Of what BASE holds of a path, the vault has what is not spent.          *)
Noticed(d) ==
    \A p \in Paths : base[d][p] # None =>
        \A x \in base[d][p].content : x \in InVault(d, p) \/ Spent(x)

(* What an operation rests on, since it was planned: what it is to record  *)
(* is in the vault, what it is to replace or to remove it brings or is     *)
(* spent, and the object it names holds the version it saw.                *)
Founded(d, o) ==
    /\ o.kind \in Uploads \cup {"adopt"} =>
          \A x \in o.mine : x \in InVault(d, o.path) \/ Spent(x)
    /\ o.kind \in Replacing => \A x \in o.theirs : x \in Result(o) \/ Spent(x)
    /\ o.kind = "trash-remote" => \A x \in o.theirs : Spent(x)
    /\ o.kind = "move-remote" /\ base[d][o.source] # None =>
          \A x \in base[d][o.source].content : Spent(x)
    /\ o.kind = "adopt" => o.mine = o.theirs
    /\ o.kind \in Downloads /\ o.mine # Absent => o.source = o.path
    /\ o.kind \in Replacing \cup Downloads \cup {"trash-remote"} =>
          o.id \in Ids /\ Brought(o.id) /\ drive[o.id].content = o.theirs

(* A download that is under way brings what BASE holds of the path.        *)
Renewing(d) ==
    Doing(d, Downloads) /\ base[d][intent[d].op.path] # None =>
        \A x \in base[d][intent[d].op.path].content :
            x \in intent[d].op.theirs \/ Spent(x)

(* While an update and what it replaces are both there, nobody else can    *)
(* have seen the update alone at its path, so that nobody is about to      *)
(* replace, move or remove it.                                             *)
Succeeded(d) ==
    Doing(d, Replacing) /\ Brought(intent[d].new) =>
        \/ \A x \in drive[intent[d].op.id].content : Spent(x)
        \/ drive[intent[d].op.id].status = "trashed"
        \/ /\ intent[d].op.id # intent[d].new
           /\ intent[d].op.id \in Live(intent[d].op.path)
           /\ intent[d].new \in Live(intent[d].op.path)
           /\ \A e \in Devices : Doing(e, NeedsIdentity) => intent[e].op.id # intent[d].new

(* The operations of a pass are about different paths, the one with an     *)
(* intent is one of them, and a candidate is uploaded once.                *)
Changes(o) == IF o.kind \in Moves THEN {o.path, o.source} ELSE {o.path}

Orderly(d) ==
    /\ step[d] = "idle" => plan[d] = {}
    /\ step[d] = "running" => intent[d] = None
    /\ intent[d] # None /\ plan[d] # {} => intent[d].op \in plan[d]
    /\ \A o, r \in plan[d] : o # r /\ o.kind \notin Moves => o.path \notin Changes(r)
    /\ step[d] \in {"guarded", "merged"} /\ Doing(d, Uploads) => ~Brought(intent[d].new)

(* A pass that goes on after the vault got its half of a merge: what was   *)
(* merged is in the vault, or a user has given it up since.                *)
Merging(d) ==
    /\ plan[d] # {} /\ step[d] \in {"merged", "uploaded", "checked", "applied"}
    /\ Doing(d, {"clean-text-merge"})
    => \A x \in Result(intent[d].op) : x \in InVault(d, intent[d].op.path) \/ Spent(x)

(* The account keeps what is not spent, in one live object or another.     *)
Surviving ==
    \A i \in Ids : Brought(i) =>
        /\ drive[i].path \in Paths
        /\ \A x \in drive[i].content : Spent(x) \/ Alive(x)

KeptInv ==
    /\ ReconInv
    /\ \A d \in Devices : /\ Noticed(d) /\ Renewing(d) /\ Succeeded(d)
                          /\ Orderly(d) /\ Merging(d)
                          /\ \A o \in InHand(d) : Founded(d, o)
    /\ Surviving

(* The places at which an edit is known under a path (KnownAt).            *)
Where(x, p) ==
    \/ \E d \in Devices :
          \/ x \in InVault(d, p)
          \/ base[d][p] # None /\ x \in base[d][p].content
          \/ \E o \in InHand(d) : o.kind \in Recording /\ o.path = p /\ x \in Recorded(o)
    \/ \E i \in Live(p) : x \in drive[i].content

(* What a step starts from and leads to.                                   *)
Placed == KeptInv /\ OnePath /\ ReconInv' /\ OnePath'

LEMMA HandTyped ==
    ASSUME ReconInv, NEW d \in Devices, NEW o \in InHand(d)
    PROVE  /\ o \in Operations /\ o.path \in Paths /\ o.source \in Paths
           /\ o \in plan[d] \/ (intent[d] # None /\ o = intent[d].op)
<1>1. o \in plan[d] \/ (intent[d] # None /\ o = intent[d].op)
  BY DEF InHand
<1>2. o \in Operations
  BY <1>1, IntentTyped, BoundsTyped DEF ReconInv
<1> QED
  BY <1>1, <1>2 DEF Operations

(* Of what a vault held at a path, a step leaves each edit there, or it is *)
(* spent, or moves elsewhere, or a download replaces it.                   *)
LEMMA VaultsForget ==
    ASSUME KeptInv, NEW d \in Devices, Acting(d), NEW e \in Devices, NEW p \in Paths,
           NEW x \in InVault(e, p)
    PROVE  \/ x \in InVault(e, p)'
           \/ Spent(x)'
           \/ base' = base /\ \E q \in Paths : q # p /\ x \in InVault(e, q)'
           \/ /\ e = d /\ Doing(d, Downloads) /\ p = intent[d].op.path
              /\ x \notin intent[d].op.theirs /\ UNCHANGED <<base, intent>>
              /\ plan'[d] \subseteq plan[d]
<1> DEFINE Goal == \/ x \in InVault(e, p)'
                   \/ Spent(x)'
                   \/ base' = base /\ \E q \in Paths : q # p /\ x \in InVault(e, q)'
                   \/ /\ e = d /\ Doing(d, Downloads) /\ p = intent[d].op.path
                      /\ x \notin intent[d].op.theirs /\ UNCHANGED <<base, intent>>
                      /\ plan'[d] \subseteq plan[d]
<1>0. /\ ReconInv /\ ReconciliationTypeOK
      /\ local \in [Devices -> [Paths -> {Absent} \cup Contents]]
      /\ local[e][p] # Absent /\ x \in local[e][p]
  BY DEF KeptInv, ReconInv, ReconciliationTypeOK, InVault
<1>1. ASSUME local'[e][p] = local[e][p] PROVE Goal
  BY <1>0, <1>1 DEF InVault
<1>2. CASE Replace(d) \/ RecoverReplace(d)
  <2> DEFINE o == intent[d].op
  <2>1. CASE local' = local
    BY <1>1, <2>1
  <2>2. CASE local' # local
    <3>1. /\ Doing(d, Downloads \cup {"clean-text-merge"}) /\ local[d][o.path] = o.mine
          /\ local' = [local EXCEPT ![d][o.path] = Brings(o)]
          /\ UNCHANGED <<base, intent>>
      BY <1>2, <2>2 DEF Replace, RecoverReplace, Outstanding, knowledge
    <3>2. /\ intent[d] # None /\ o.path \in Paths /\ Brings(o) \in Contents
          /\ o.kind \in Downloads \cup {"clean-text-merge"}
      BY <1>0, <3>1, BringsTyped DEF Doing
    <3>3. plan'[d] \subseteq plan[d]
      BY <1>0, <1>2, PassFrame DEF Replace, RecoverReplace, pass, OnlyPass, Steps
    <3>4. CASE ~(e = d /\ p = o.path)
      <4>1. local'[e][p] = local[e][p]
        BY <1>0, <3>1, <3>2, <3>4
      <4> QED
        BY <1>1, <4>1
    <3>5. CASE e = d /\ p = o.path
      <4>1. local'[e][p] = Brings(o) /\ Brings(o) # Absent
        BY <1>0, <3>1, <3>2, <3>5, AbsenceAssumption DEF Contents
      <4>2. CASE o.kind \in Downloads
        <5>1. CASE x \in o.theirs
          BY <4>1, <4>2, <5>1 DEF InVault, Brings
        <5>2. CASE x \notin o.theirs
          BY <3>1, <3>2, <3>3, <3>5, <4>2, <5>2 DEF Doing
        <5> QED
          BY <5>1, <5>2
      <4>3. CASE o.kind = "clean-text-merge"
        <5>1. x \in Brings(o)
          BY <1>0, <3>1, <3>5, <4>3 DEF Brings, Result, Downloads
        <5> QED
          BY <4>1, <5>1 DEF InVault
      <4> QED
        BY <3>2, <4>2, <4>3
    <3> QED
      BY <3>4, <3>5
  <2> QED
    BY <2>1, <2>2
<1>3. ASSUME NEW q \in Paths, local' = [local EXCEPT ![d][q] = Absent],
             local[d][q] # Absent => \A y \in local[d][q] : Spent(y)'
      PROVE  Goal
  <2>1. CASE e = d /\ p = q
    BY <1>0, <1>3, <2>1
  <2>2. CASE ~(e = d /\ p = q)
    <3>1. local'[e][p] = local[e][p]
      BY <1>0, <1>3, <2>2
    <3> QED
      BY <1>1, <3>1
  <2> QED
    BY <2>1, <2>2
<1>4. ASSUME NEW p1 \in Paths, NEW p2 \in Paths, local[d][p1] # Absent, local[d][p2] = Absent,
             local' = [local EXCEPT ![d][p2] = local[d][p1], ![d][p1] = Absent], base' = base
      PROVE  Goal
  <2>1. CASE e = d /\ p = p1
    <3>1. local'[d][p2] = local[d][p1] /\ p2 # p
      BY <1>0, <1>4, <2>1
    <3> QED
      BY <1>0, <1>4, <2>1, <3>1 DEF InVault
  <2>2. CASE ~(e = d /\ p = p1)
    <3>1. local'[e][p] = local[e][p]
      BY <1>0, <1>4, <2>2
    <3> QED
      BY <1>1, <3>1
  <2> QED
    BY <2>1, <2>2
<1>5. CASE TrashLocal(d)
  <2>1. intent[d].op.path \in Paths
    BY <1>0, <1>5, IntentTyped DEF TrashLocal, Doing
  <2>2. /\ local' = [local EXCEPT ![d][intent[d].op.path] = Absent]
        /\ local[d][intent[d].op.path] # Absent => bin' = bin \cup local[d][intent[d].op.path]
    BY <1>5 DEF TrashLocal
  <2>3. local[d][intent[d].op.path] # Absent => \A y \in local[d][intent[d].op.path] : Spent(y)'
    BY <2>2 DEF Spent
  <2> QED
    BY <1>3, <2>1, <2>2, <2>3
<1>6. CASE MoveLocal(d)
  <2>1. intent[d].op.path \in Paths /\ intent[d].op.source \in Paths
    BY <1>0, <1>6, IntentTyped DEF MoveLocal, Doing
  <2>2. CASE local' = local
    BY <1>1, <2>2
  <2> QED
    BY <1>4, <1>6, <2>1, <2>2 DEF MoveLocal, knowledge
<1>7. CASE User(d)
  <2>1. ASSUME NEW q \in Paths, NEW edit \in Edits, Write(d, q, edit) PROVE Goal
    <3>1. /\ local' = [local EXCEPT ![d][q] = InVault(d, q) \cup {edit}]
          /\ InVault(d, q) \cup {edit} # Absent
      BY <1>0, <2>1, AbsenceAssumption DEF Write, InVault, Contents
    <3>2. CASE e = d /\ p = q
      BY <1>0, <3>1, <3>2 DEF InVault
    <3>3. CASE ~(e = d /\ p = q)
      <4>1. local'[e][p] = local[e][p]
        BY <1>0, <3>1, <3>3
      <4> QED
        BY <1>1, <4>1
    <3> QED
      BY <3>2, <3>3
  <2>2. ASSUME NEW q \in Paths, Delete(d, q) PROVE Goal
    <3>1. local' = [local EXCEPT ![d][q] = Absent] /\ given' = given \cup local[d][q]
      BY <2>2 DEF Delete
    <3> QED
      BY <1>3, <3>1 DEF Spent
  <2>3. ASSUME NEW p1 \in Paths, NEW p2 \in Paths, Rename(d, p1, p2) PROVE Goal
    BY <1>4, <2>3 DEF Rename, knowledge
  <2>4. ASSUME NEW q \in Paths, NEW choice \in Resolutions, Resolve(d, q, choice) PROVE local' = local
    BY <2>4 DEF Resolve
  <2> QED
    BY <1>1, <1>7, <2>1, <2>2, <2>3, <2>4 DEF User
<1>8. CASE local' = local
  BY <1>1, <1>8
<1> QED
  BY <1>2, <1>5, <1>6, <1>7, <1>8 DEF Acting, Device, Effect, Recover, Begin, Start, Skip, GiveUp,
     Note, Dispatch, Create, Upload, Finalize, Retire, CheckTrash, TrashRemote, CheckMove,
     MoveRemote, Complete, Crash, RecoverUpdate, RecoverCommit, RecoverUnapplied

-----------------------------------------------------------------------------
(* What a step does to the account, to BASE and to what is in hand         *)

(* No object comes into the account and none in it is touched.             *)
Quiet == \A i \in Ids : /\ Brought(i)' => Brought(i)
                        /\ Brought(i) => drive'[i] = drive[i]

Sends(d) ==
    /\ step[d] \in {"guarded", "merged"} /\ Doing(d, Uploads) /\ intent' = intent
    /\ drive' = [drive EXCEPT ![intent[d].new] =
           [status |-> "live", path |-> intent[d].op.path, content |-> Result(intent[d].op)]]
    /\ Doing(d, Replacing) => intent[d].op.id \in Live(intent[d].op.path)

LEMMA AccountSteps ==
    ASSUME ReconInv, NEW d \in Devices, Acting(d)
    PROVE  Quiet \/ Sends(d) \/ Retire(d) \/ TrashRemote(d) \/ MoveRemote(d)
<1>0. drive \in [Ids -> Objects]
  BY DEF ReconInv, ReconciliationTypeOK
<1>1. ASSUME UNCHANGED drive PROVE Quiet
  BY <1>1 DEF Quiet, Brought
<1>2. ASSUME NEW i, NEW status \in {"reserved", "unused"}, Becomes(i, status),
             drive[i].status \in {"reserved", "unused"}
      PROVE  Quiet
  BY <1>0, <1>2 DEF Becomes, Quiet, Brought
<1>3. CASE Create(d)
  BY <1>3 DEF Create, Sends, Doing, Uploads, Replacing
<1>4. CASE Upload(d)
  BY <1>1, <1>4 DEF Upload, Sends, Doing, Uploads, Replacing
<1>5. CASE Start(d)
  <2>1. ASSUME NEW o, Dispatch(d, o) PROVE Quiet
    <3>1. CASE o.kind \in Uploads
      <4>1. drive[NewId].status = "unused"
        BY <2>1, <3>1 DEF Dispatch, NewId, Unused
      <4> QED
        BY <1>2, <2>1, <3>1, <4>1 DEF Dispatch
    <3> QED
      BY <1>1, <2>1, <3>1 DEF Dispatch
  <2> QED
    BY <1>1, <1>5, <2>1 DEF Start, Skip, GiveUp, Note
<1>6. CASE RecoverUnapplied(d)
  BY <1>2, <1>6 DEF RecoverUnapplied
<1>7. CASE User(d)
  BY <1>1, <1>7 DEF User, Write, Delete, Rename, Resolve
<1>8. CASE Begin(d) \/ Finalize(d) \/ CheckTrash(d) \/ CheckMove(d) \/ Replace(d)
           \/ TrashLocal(d) \/ MoveLocal(d) \/ Complete(d) \/ Crash(d)
           \/ RecoverUpdate(d) \/ RecoverReplace(d) \/ RecoverCommit(d)
  BY <1>1, <1>8 DEF Begin, Finalize, CheckTrash, CheckMove, Replace, TrashLocal,
     MoveLocal, Complete, Crash, RecoverUpdate, RecoverReplace, RecoverCommit
<1> QED
  BY <1>3, <1>4, <1>5, <1>6, <1>7, <1>8 DEF Acting, Device, Effect, Recover

(* BASE and the mapping change in a commit only.                           *)
LEMMA BaseSteps ==
    ASSUME ReconInv, NEW d \in Devices, Acting(d)
    PROVE  \/ UNCHANGED knowledge
           \/ \E o \in plan[d] : step[d] = "running" /\ Note(d, o)
           \/ Complete(d) /\ Verified(d)
           \/ RecoverCommit(d)
<1>1. CASE UNCHANGED knowledge
  BY <1>1
<1>2. CASE Start(d)
  <2>1. PICK o \in Earliest(plan[d]) : Skip(d, o) \/ GiveUp(d, o) \/ Note(d, o) \/ Dispatch(d, o)
    BY <1>2 DEF Start
  <2>2. o \in plan[d] /\ step[d] = "running"
    BY <1>2, <2>1 DEF Earliest, Start
  <2>3. CASE Note(d, o)
    BY <2>2, <2>3
  <2> QED
    BY <1>1, <2>1, <2>3 DEF Skip, GiveUp, Dispatch
<1>3. CASE Complete(d)
  BY <1>1, <1>3 DEF Complete
<1>4. CASE User(d)
  BY <1>1, <1>4 DEF User, Write, Delete, Rename, Resolve
<1>5. CASE Begin(d) \/ Create(d) \/ Upload(d) \/ Finalize(d) \/ Retire(d) \/ CheckTrash(d)
           \/ TrashRemote(d) \/ CheckMove(d) \/ MoveRemote(d) \/ Replace(d) \/ TrashLocal(d)
           \/ MoveLocal(d) \/ Crash(d) \/ RecoverUpdate(d) \/ RecoverReplace(d)
           \/ RecoverUnapplied(d)
  BY <1>1, <1>5 DEF Begin, Create, Upload, Finalize, Retire, CheckTrash, TrashRemote, CheckMove,
     MoveRemote, Replace, TrashLocal, MoveLocal, Crash, RecoverUpdate, RecoverReplace,
     RecoverUnapplied
<1> QED
  BY <1>2, <1>3, <1>4, <1>5 DEF Acting, Device, Effect, Recover

(* The decision of a user, with the operations it leads to.                *)
Decides(d, p, choice, operations) ==
    /\ Resolve(d, p, choice)
    /\ operations \in Resolving(d, Facts(d), p, choice)
    /\ plan' = [plan EXCEPT ![d] = operations]

(* An operation is in hand because it was, or because it is planned now.   *)
LEMMA HandSteps ==
    ASSUME ReconInv, NEW d \in Devices, Acting(d), NEW e \in Devices, NEW o \in InHand(e)'
    PROVE  \/ o \in InHand(e)
           \/ e = d /\ Begin(d) /\ o \in Plan(Facts(d))
           \/ e = d /\ \E p \in Paths, choice \in Resolutions :
                           \E operations \in Resolving(d, Facts(d), p, choice) :
                               Decides(d, p, choice, operations) /\ o \in operations
<1> DEFINE Goal == \/ o \in InHand(e)
                   \/ e = d /\ Begin(d) /\ o \in Plan(Facts(d))
                   \/ e = d /\ \E p \in Paths, choice \in Resolutions :
                                   \E operations \in Resolving(d, Facts(d), p, choice) :
                                       Decides(d, p, choice, operations) /\ o \in operations
<1>0. ReconciliationTypeOK
  BY DEF ReconInv
<1>a. o \in plan'[e] \/ (intent'[e] # None /\ o = intent'[e].op)
  BY DEF InHand
<1>1. ASSUME o \in plan'[e] => o \in plan[e] \/ (intent[e] # None /\ o = intent[e].op),
             intent'[e] # None => intent'[e] = intent[e] \/ intent'[e].op \in plan[e]
      PROVE  Goal
  BY <1>a, <1>1 DEF InHand
<1>2. ASSUME OnlyPass(d), intent'[e] \in {intent[e], None}
      PROVE  Goal
  <2>1. plan'[e] \subseteq plan[e]
    BY <1>2 DEF OnlyPass
  <2> QED
    BY <1>1, <1>2, <2>1
<1>3. CASE Begin(d)
  <2>1. plan' = [plan EXCEPT ![d] = Plan(Facts(d))] /\ intent' = intent
    BY <1>3 DEF Begin
  <2>2. o \in plan'[e] => o \in plan[e] \/ (e = d /\ o \in Plan(Facts(d)))
    BY <1>0, <2>1 DEF ReconciliationTypeOK
  <2> QED
    BY <1>1, <1>3, <2>1, <2>2
<1>4. CASE Start(d)
  <2>1. PICK r \in plan[d] : Skip(d, r) \/ GiveUp(d, r) \/ Note(d, r) \/ Dispatch(d, r)
    BY <1>4 DEF Start, Earliest
  <2>2. CASE Dispatch(d, r)
    <3>1. plan' = plan /\ \E i : intent' = [intent EXCEPT ![d] = [op |-> r, new |-> i]]
      BY <2>2 DEF Dispatch
    <3>2. intent'[e] # None => intent'[e] = intent[e] \/ (e = d /\ intent'[e].op = r)
      BY <1>0, <3>1 DEF ReconciliationTypeOK
    <3> QED
      BY <1>1, <2>1, <3>1, <3>2
  <2>3. CASE Skip(d, r) \/ GiveUp(d, r) \/ Note(d, r)
    <3>1. r \in Operations /\ Touches(r) \in SUBSET Paths
      BY <1>0, BoundsTyped DEF Touches, Operations
    <3>2. OnlyPass(d)
      BY <1>0, <2>3, <3>1, ProceedFrame, StopFrame DEF Skip, GiveUp, Note
    <3> QED
      BY <1>2, <2>3, <3>2 DEF Skip, GiveUp, Note
  <2> QED
    BY <2>1, <2>2, <2>3
<1>5. CASE Create(d) \/ Upload(d) \/ Finalize(d) \/ Retire(d) \/ CheckTrash(d) \/ TrashRemote(d)
           \/ CheckMove(d) \/ MoveRemote(d) \/ Replace(d) \/ TrashLocal(d) \/ MoveLocal(d)
  <2>1. \E ok, to : to \in Steps /\ Pass(d, ok, to)
    BY <1>5 DEF Create, Upload, Finalize, Retire, CheckTrash, TrashRemote,
       CheckMove, MoveRemote, Replace, TrashLocal, MoveLocal, Steps
  <2>2. OnlyPass(d)
    BY <1>0, <2>1, PassFrame
  <2>3. intent' = intent
    BY <1>5 DEF Create, Upload, Finalize, Retire, CheckTrash, TrashRemote,
       CheckMove, MoveRemote, Replace, TrashLocal, MoveLocal
  <2> QED
    BY <1>2, <2>2, <2>3
<1>6. CASE Complete(d)
  <2>1. OnlyPass(d)
    BY <1>0, <1>6, ProceedFrame, StopFrame DEF Complete
  <2>2. intent'[e] \in {intent[e], None}
    BY <1>0, <1>6 DEF Complete, Closed, ReconciliationTypeOK
  <2> QED
    BY <1>2, <2>1, <2>2
<1>7. CASE Crash(d)
  BY <1>0, <1>2, <1>7, StopFrame DEF Crash
<1>8. CASE RecoverUpdate(d)
  <2>1. plan' = plan /\ intent' = intent
    BY <1>8 DEF RecoverUpdate
  <2> QED
    BY <1>1, <2>1
<1>9. CASE RecoverReplace(d) \/ RecoverCommit(d) \/ RecoverUnapplied(d)
  <2>1. plan' = plan
    BY <1>9 DEF RecoverReplace, RecoverCommit, RecoverUnapplied, pass
  <2>2. intent'[e] \in {intent[e], None}
    BY <1>0, <1>9 DEF RecoverReplace, RecoverCommit, RecoverUnapplied, Closed, ReconciliationTypeOK
  <2> QED
    BY <1>1, <2>1, <2>2
<1>10. ASSUME NEW p \in Paths, NEW choice \in Resolutions, Resolve(d, p, choice)
       PROVE  Goal
  <2>1. intent' = intent
    BY <1>10 DEF Resolve
  <2>2. PICK operations \in Resolving(d, Facts(d), p, choice) :
           plan' = [plan EXCEPT ![d] = operations]
    BY <1>10 DEF Resolve
  <2>3. o \in plan'[e] => o \in plan[e] \/ (e = d /\ o \in operations)
    BY <1>0, <2>2 DEF ReconciliationTypeOK
  <2> QED
    BY <1>1, <1>10, <2>1, <2>2, <2>3 DEF Decides
<1>11. CASE User(d)
  <2>1. CASE UNCHANGED <<plan, intent>>
    BY <1>1, <2>1
  <2> QED
    BY <1>10, <1>11, <2>1 DEF User, Write, Delete, Rename, pass
<1> QED
  BY <1>3, <1>4, <1>5, <1>6, <1>7, <1>8, <1>9, <1>11 DEF Acting, Device, Effect, Recover

(* The entry a commit leaves at a path, and what it is made of.            *)
LEMMA CommitsAt ==
    ASSUME ReconInv, NEW d \in Devices, NEW o \in Operations, NEW i, Commit(d, o, i),
           NEW p \in Paths, base'[d][p] # None
    PROVE  \/ base'[d][p] = base[d][p] /\ p \notin Changes(o)
           \/ p = o.path /\ o.kind \in Recording /\ base'[d][p].content = Recorded(o)
           \/ /\ p = o.path /\ o.kind \in Moves
              /\ \E q \in {o.source, o.path} : base[d][q] # None
                                              /\ base'[d][p].content = base[d][q].content
<1>0. /\ base \in [Devices -> [Paths -> {None} \cup [content : Contents, id : {None} \cup Ids]]]
      /\ o.path \in Paths /\ o.source \in Paths
  BY DEF ReconInv, ReconciliationTypeOK, Operations
<1>1. CASE o.kind \in Replacing \cup {"upload-create"} /\ CommitVersion(d, o, i, Result(o))
  BY <1>0, <1>1 DEF CommitVersion, Known, Recording, Recorded, Uploads, Replacing, Moves, Changes
<1>2. CASE o.kind \in Downloads \cup {"adopt"} /\ CommitVersion(d, o, i, o.theirs)
  BY <1>0, <1>2 DEF CommitVersion, Known, Recording, Recorded, Downloads, Uploads, Replacing, Moves, Changes
<1>3. CASE o.kind \in Downloads /\ CommitCopy(d, o)
  BY <1>0, <1>3 DEF CommitCopy, Known, Recording, Recorded, Downloads, Uploads, Replacing, Moves, Changes
<1>4. CASE o.kind \in {"trash-local", "trash-remote", "forget"} /\ CommitAbsence(d, o)
  BY <1>0, <1>4 DEF CommitAbsence, Known, Moves, Changes
<1>5. CASE o.kind \in Moves /\ CommitMove(d, o, i)
  <2>1. PICK q \in {o.source, o.path} :
          /\ base[d][q] # None
          /\ base' = [base EXCEPT ![d] =
                [r \in Paths |-> IF r = o.path THEN [content |-> base[d][q].content, id |-> i]
                                 ELSE IF r = o.source THEN None ELSE base[d][r]]]
    BY <1>5 DEF CommitMove
  <2> QED
    BY <1>0, <1>5, <2>1 DEF Changes
<1> QED
  BY <1>1, <1>2, <1>3, <1>4, <1>5 DEF Commit

-----------------------------------------------------------------------------
(* Nothing in hand rests on what is lost                                   *)

LEMMA SpentStays ==
    ASSUME NEW d \in Devices, Acting(d), NEW x, Spent(x)
    PROVE  Spent(x)'
BY GhostsGrow DEF Spent

(* Two places of one edit have one path.                                   *)
LEMMA OnePathThen ==
    ASSUME OnePath', NEW x \in Edits, NEW p \in Paths, NEW q \in Paths,
           Where(x, p)', Where(x, q)'
    PROVE  p = q
<1>1. x \in KnownAt(p)' /\ x \in KnownAt(q)'
  BY DEF Where, KnownAt, VersionsAt
<1>2. p \in Nat /\ q \in Nat
  BY PathsAssumption
<1> QED
  BY <1>1, <1>2 DEF OnePath

LEMMA EditsTyped ==
    ASSUME ReconInv
    PROVE  /\ \A d \in Devices, p \in Paths : InVault(d, p) \subseteq Edits
           /\ \A d \in Devices, p \in Paths : base[d][p] # None => base[d][p].content \subseteq Edits
           /\ \A i \in Ids : drive[i].content \subseteq Edits
BY DEF ReconInv, ReconciliationTypeOK, InVault, Contents, Objects

(* What is recorded by an operation that is done is in the vault.          *)
LEMMA RecordedIsNoticed ==
    ASSUME KeptInv, NEW d \in Devices, NEW o \in InHand(d), o.kind \in Recording,
           \/ o.kind = "adopt"
           \/ /\ intent[d] # None /\ o = intent[d].op /\ Verified(d)
              /\ plan[d] # {} => step[d] = "applied",
           NEW x \in Recorded(o)
    PROVE  x \in InVault(d, o.path) \/ Spent(x)
<1>0. Founded(d, o) /\ ReconInv /\ o.path \in Paths /\ o \in Operations
  BY HandTyped DEF KeptInv
<1>1. CASE o.kind = "adopt"
  BY <1>0, <1>1 DEF Founded, Recorded, Uploads, Replacing
<1>2. CASE o.kind \in {"upload-create", "upload-update"}
  BY <1>0, <1>2 DEF Founded, Recorded, Result, Uploads, Replacing
<1>3. CASE o.kind = "clean-text-merge"
  <2>0. x \in Result(o) /\ intent[d] # None /\ o = intent[d].op
    BY <1>3 DEF Recorded, Uploads, Replacing
  <2>1. CASE plan[d] # {}
    BY <1>3, <2>0, <2>1 DEF KeptInv, Merging, Doing
  <2>2. CASE plan[d] = {}
    <3>1. local[d][o.path] = Result(o)
      BY <1>3, <2>0, <2>2 DEF Verified, Recovering, MergeStands, Doing
    <3>2. Result(o) \in Contents
      BY <1>0, <1>3, HandTyped, ResultTyped DEF ReconInv, BackedAt, Uploads, Replacing
    <3>3. local[d][o.path] # Absent
      BY <3>1, <3>2, AbsenceAssumption DEF Contents
    <3> QED
      BY <2>0, <3>1, <3>3 DEF InVault
  <2> QED
    BY <2>1, <2>2
<1>4. CASE o.kind \in Downloads
  <2>1. local[d][o.path] = o.theirs
    BY <1>4 DEF Verified, Visible, Uploads, Replacing, Downloads
  <2>2. o.theirs # Absent
    <3>1. Sound(o)
      BY <1>0, HandTyped DEF ReconInv, BackedAt
    <3> QED
      BY <1>4, <3>1, AbsenceAssumption DEF Sound, Contents
  <2> QED
    BY <1>4, <2>1, <2>2 DEF Recorded, InVault, Uploads, Replacing, Downloads
<1> QED
  BY <1>1, <1>2, <1>3, <1>4 DEF Recording, Uploads, Replacing

(* A move that is done leaves nothing of its source behind.                *)
LEMMA SourceIsSpent ==
    ASSUME KeptInv, NEW d \in Devices, NEW o \in InHand(d), o.kind \in Moves,
           intent[d] # None, o = intent[d].op, Visible(d), base[d][o.source] # None,
           NEW x \in base[d][o.source].content
    PROVE  Spent(x)
<1>0. Founded(d, o) /\ Noticed(d) /\ o.source \in Paths
  BY HandTyped DEF KeptInv
<1>1. CASE o.kind = "move-remote"
  BY <1>0, <1>1 DEF Founded
<1>2. CASE o.kind = "move-local"
  <2>1. local[d][o.source] = Absent
    BY <1>2 DEF Visible, Uploads, Replacing, Downloads
  <2> QED
    BY <1>0, <2>1 DEF Noticed, InVault
<1> QED
  BY <1>1, <1>2 DEF Moves

(* A commit records what the vault has.                                    *)
LEMMA CommitIsNoticed ==
    ASSUME ReconInv, NEW d \in Devices, Noticed(d), NEW o \in Operations, NEW i,
           Commit(d, o, i), UNCHANGED <<local, given, bin>>,
           o.kind \in Recording => \A x \in Recorded(o) : x \in InVault(d, o.path) \/ Spent(x),
           o.kind \in Moves /\ base[d][o.source] # None =>
               \A x \in base[d][o.source].content : Spent(x)
    PROVE  Noticed(d)'
<1> SUFFICES ASSUME NEW p \in Paths, base'[d][p] # None, NEW x \in base'[d][p].content
             PROVE  x \in InVault(d, p) \/ Spent(x)
  BY DEF Noticed, InVault, Spent
<1>1. CASE base'[d][p] = base[d][p]
  BY <1>1 DEF Noticed
<1>2. CASE p = o.path /\ o.kind \in Recording /\ base'[d][p].content = Recorded(o)
  BY <1>2
<1>3. CASE /\ p = o.path /\ o.kind \in Moves
           /\ \E q \in {o.source, o.path} : base[d][q] # None
                                           /\ base'[d][p].content = base[d][q].content
  BY <1>3 DEF Noticed
<1> QED
  BY <1>1, <1>2, <1>3, CommitsAt

(* A commit leaves the sources of other moves spent.                       *)
LEMMA CommitSparesSources ==
    ASSUME ReconInv, NEW d \in Devices, NEW o \in Operations, NEW i, Commit(d, o, i),
           o.kind \in Moves /\ base[d][o.source] # None =>
               \A x \in base[d][o.source].content : Spent(x),
           NEW r \in Operations,
           base[d][r.source] # None => \A x \in base[d][r.source].content : Spent(x),
           o.kind \notin Moves => o.path # r.source,
           base'[d][r.source] # None, NEW x \in base'[d][r.source].content
    PROVE  Spent(x)
<1>0. r.source \in Paths
  BY DEF Operations
<1>1. CASE base'[d][r.source] = base[d][r.source]
  BY <1>1
<1>2. CASE r.source = o.path /\ o.kind \in Recording
  BY <1>2 DEF Recording, Moves, Uploads, Replacing, Downloads
<1>3. CASE /\ r.source = o.path /\ o.kind \in Moves
           /\ \E q \in {o.source, o.path} : base[d][q] # None
                                           /\ base'[d][r.source].content = base[d][q].content
  BY <1>3
<1> QED
  BY <1>0, <1>1, <1>2, <1>3, CommitsAt

(* A commit of device d, by whatever step: what it rests on.               *)
LEMMA CommitSteps ==
    ASSUME KeptInv, NEW d \in Devices, Acting(d), base' # base
    PROVE  \E o \in InHand(d), s \in Operations :
              /\ \E i : Commit(d, s, i)
              /\ s.kind = o.kind /\ s.path = o.path /\ s.mine = o.mine /\ s.theirs = o.theirs
              /\ o.kind \in Moves => s = o
              /\ UNCHANGED <<drive, local, given, bin>>
              /\ o.kind \in Recording =>
                    \A x \in Recorded(o) : x \in InVault(d, o.path) \/ Spent(x)
              /\ o.kind \in Moves /\ base[d][o.source] # None =>
                    \A x \in base[d][o.source].content : Spent(x)
              /\ o \in plan[d] \/ plan[d] = {}
              /\ intent'[d] = None /\ plan'[d] \subseteq plan[d] \ {o}
              /\ \A e \in Devices \ {d} : intent'[e] = intent[e] /\ plan'[e] = plan[e] /\ base'[e] = base[e]
<1>0. ReconInv /\ ReconciliationTypeOK /\ Orderly(d) /\ BackedAt(d)
  BY DEF KeptInv, ReconInv
<1>c. ASSUME NEW s \in Operations, NEW i, Commit(d, s, i)
      PROVE  \A e \in Devices \ {d} : base'[e] = base[e]
  BY <1>0, <1>c DEF Commit, CommitVersion, CommitCopy, CommitAbsence, CommitMove, Known,
     ReconciliationTypeOK
<1>1. CASE \E o \in plan[d] : step[d] = "running" /\ Note(d, o)
  <2>1. PICK o \in plan[d] : step[d] = "running" /\ Note(d, o)
    BY <1>1
  <2>2. o \in InHand(d) /\ o \in Operations
    BY <1>0, BoundsTyped DEF InHand, Operations
  <2>3. /\ Commit(d, o, o.id) /\ Proceed(d, o, {}) /\ o.kind \in Noted
        /\ UNCHANGED <<drive, local, intent, given, bin>>
    BY <2>1 DEF Note, ghosts
  <2>4. intent'[d] = None
    BY <1>0, <2>1, <2>3 DEF Orderly
  <2>5. plan'[d] = plan[d] \ {o} /\ \A e \in Devices \ {d} : plan'[e] = plan[e]
    BY <1>0, <2>3 DEF Proceed, ReconciliationTypeOK
  <2>6. o.kind \in Recording => \A x \in Recorded(o) : x \in InVault(d, o.path) \/ Spent(x)
    BY <2>2, <2>3, RecordedIsNoticed DEF Noted, Recording, Uploads, Replacing, Downloads
  <2>7. o.kind \notin Moves
    BY <2>3 DEF Noted, Moves
  <2> QED
    BY <1>c, <2>2, <2>3, <2>4, <2>5, <2>6, <2>7
<1>2. CASE Complete(d) /\ Verified(d)
  <2> DEFINE o == intent[d].op
  <2>1. /\ step[d] = "applied" /\ Commit(d, o, intent[d].new) /\ Closed(d) /\ Proceed(d, o, {})
        /\ UNCHANGED <<drive, local, given, bin>>
    BY <1>2 DEF Complete, ghosts
  <2>2. intent[d] # None
    BY <1>0, <2>1 DEF ReconInv, Underway
  <2>3. o \in InHand(d) /\ o \in Operations
    BY <1>0, <2>2, IntentTyped DEF InHand
  <2>4. /\ intent'[d] = None
        /\ \A e \in Devices \ {d} : intent'[e] = intent[e]
    BY <1>0, <2>1 DEF Closed, ReconciliationTypeOK
  <2>5. plan'[d] = plan[d] \ {o} /\ \A e \in Devices \ {d} : plan'[e] = plan[e]
    BY <1>0, <2>1 DEF Proceed, ReconciliationTypeOK
  <2>6. o \in plan[d] \/ plan[d] = {}
    BY <1>0, <2>2 DEF Orderly
  <2> HIDE DEF o
  <2>7. o.kind \in Recording => \A x \in Recorded(o) : x \in InVault(d, o.path) \/ Spent(x)
    BY <1>2, <2>1, <2>2, <2>3, RecordedIsNoticed DEF o
  <2>8. o.kind \in Moves /\ base[d][o.source] # None =>
            \A x \in base[d][o.source].content : Spent(x)
    BY <1>2, <2>2, <2>3, SourceIsSpent DEF o, Verified
  <2> QED
    BY <1>c, <2>1, <2>3, <2>4, <2>5, <2>6, <2>7, <2>8
<1>3. CASE RecoverCommit(d)
  <2> DEFINE o == intent[d].op
             s == Rebuilt(o)
  <2>1. /\ step[d] = "idle" /\ intent[d] # None /\ Observed(d) /\ Closed(d)
        /\ UNCHANGED <<drive, local, plan, given, bin>>
    BY <1>3 DEF RecoverCommit, ghosts, pass
  <2>2. PICK i : Commit(d, s, i)
    BY <1>3 DEF RecoverCommit
  <2>3. o \in InHand(d) /\ o \in Operations
    BY <1>0, <2>1, IntentTyped DEF InHand
  <2>4. /\ s \in Operations /\ s.kind = o.kind /\ s.path = o.path
        /\ s.mine = o.mine /\ s.theirs = o.theirs
    BY <2>3 DEF Rebuilt, Operations
  <2>5. o.kind \in Moves => s = o
    BY DEF Rebuilt, Moves, Downloads
  <2>6. /\ intent'[d] = None
        /\ \A e \in Devices \ {d} : intent'[e] = intent[e]
    BY <1>0, <2>1 DEF Closed, ReconciliationTypeOK
  <2>7. plan[d] = {} /\ plan' = plan
    BY <1>0, <2>1 DEF Orderly
  <2>9. o.kind \in Recording => \A x \in Recorded(o) : x \in InVault(d, o.path) \/ Spent(x)
    <3>1. CASE Visible(d) /\ MergeStands(d)
      BY <2>1, <2>3, <2>7, <3>1, RecordedIsNoticed DEF Verified
    <3>2. CASE ~(Visible(d) /\ MergeStands(d))
      <4>1. o.kind \in {"upload-create", "trash-remote"}
        BY <2>1, <3>2 DEF Observed
      <4>2. Founded(d, o)
        BY <2>3 DEF KeptInv
      <4> QED
        BY <4>1, <4>2 DEF Founded, Recording, Recorded, Result, Uploads, Replacing, Downloads
    <3> QED
      BY <3>1, <3>2
  <2>10. o.kind \in Moves => Visible(d)
    BY <2>1 DEF Observed, Moves
  <2>11. o.kind \in Moves /\ base[d][o.source] # None =>
            \A x \in base[d][o.source].content : Spent(x)
    BY <2>1, <2>3, <2>10, SourceIsSpent
  <2> HIDE DEF o, s
  <2> QED
    BY <1>c, <2>1, <2>2, <2>3, <2>4, <2>5, <2>6, <2>7, <2>9, <2>11
<1> QED
  BY <1>0, <1>1, <1>2, <1>3, BaseSteps DEF knowledge

LEMMA OthersRest ==
    ASSUME ReconInv, NEW d \in Devices, Acting(d), NEW e \in Devices \ {d}
    PROVE  plan'[e] = plan[e] /\ step'[e] = step[e] /\ intent'[e] = intent[e]
<1>0. /\ ReconciliationTypeOK
      /\ plan \in [Devices -> SUBSET Operations] /\ step \in [Devices -> Steps]
      /\ intent \in [Devices -> {None} \cup Intents]
  BY DEF ReconInv, ReconciliationTypeOK
<1>1. ASSUME OnlyPass(d) PROVE plan'[e] = plan[e] /\ step'[e] = step[e]
  BY <1>1 DEF OnlyPass
<1>2. CASE Begin(d)
  BY <1>0, <1>2 DEF Begin, Advance
<1>3. CASE Start(d)
  <2>1. PICK r \in plan[d] : Skip(d, r) \/ GiveUp(d, r) \/ Note(d, r) \/ Dispatch(d, r)
    BY <1>3 DEF Start, Earliest
  <2>2. CASE Dispatch(d, r)
    BY <1>0, <2>2 DEF Dispatch, Advance
  <2>3. CASE Skip(d, r) \/ GiveUp(d, r) \/ Note(d, r)
    <3>1. r \in Operations /\ Touches(r) \in SUBSET Paths
      BY <1>0, BoundsTyped DEF Touches, Operations
    <3>2. OnlyPass(d)
      BY <1>0, <2>3, <3>1, ProceedFrame, StopFrame DEF Skip, GiveUp, Note
    <3> QED
      BY <1>1, <2>3, <3>2 DEF Skip, GiveUp, Note
  <2> QED
    BY <2>1, <2>2, <2>3
<1>4. CASE Create(d) \/ Upload(d) \/ Finalize(d) \/ Retire(d) \/ CheckTrash(d) \/ TrashRemote(d)
           \/ CheckMove(d) \/ MoveRemote(d) \/ Replace(d) \/ TrashLocal(d) \/ MoveLocal(d)
  <2>1. \E ok, to : to \in Steps /\ Pass(d, ok, to)
    BY <1>4 DEF Create, Upload, Finalize, Retire, CheckTrash, TrashRemote,
       CheckMove, MoveRemote, Replace, TrashLocal, MoveLocal, Steps
  <2>2. OnlyPass(d)
    BY <1>0, <2>1, PassFrame
  <2>3. intent' = intent
    BY <1>4 DEF Create, Upload, Finalize, Retire, CheckTrash, TrashRemote,
       CheckMove, MoveRemote, Replace, TrashLocal, MoveLocal
  <2> QED
    BY <1>1, <2>2, <2>3
<1>5. CASE Complete(d)
  <2>1. OnlyPass(d)
    BY <1>0, <1>5, ProceedFrame, StopFrame DEF Complete
  <2> QED
    BY <1>0, <1>1, <1>5, <2>1 DEF Complete, Closed
<1>6. CASE Crash(d)
  BY <1>0, <1>1, <1>6, StopFrame DEF Crash
<1>7. CASE RecoverUpdate(d)
  BY <1>0, <1>7 DEF RecoverUpdate, Advance
<1>8. CASE RecoverReplace(d) \/ RecoverCommit(d) \/ RecoverUnapplied(d)
  BY <1>0, <1>8 DEF RecoverReplace, RecoverCommit, RecoverUnapplied, Closed, pass
<1>9. CASE User(d)
  BY <1>0, <1>9 DEF User, Write, Delete, Rename, Resolve, Advance, pass
<1> QED
  BY <1>2, <1>3, <1>4, <1>5, <1>6, <1>7, <1>8, <1>9 DEF Acting, Device, Effect, Recover

(* An intent stays, is closed or is written for an operation of the pass.  *)
LEMMA IntentSteps ==
    ASSUME ReconInv, NEW d \in Devices, Acting(d)
    PROVE  \/ intent'[d] \in {intent[d], None}
           \/ /\ step[d] = "running"
              /\ \E o \in plan[d] : Dispatch(d, o) /\ intent'[d].op = o
                                    /\ (o.kind \in Uploads =>
                                          drive'[intent'[d].new].status = "reserved")
<1>0. intent \in [Devices -> {None} \cup Intents] /\ drive \in [Ids -> Objects]
  BY DEF ReconInv, ReconciliationTypeOK
<1>1. CASE UNCHANGED intent
  BY <1>1
<1>2. CASE Start(d)
  <2>1. PICK r \in plan[d] : Skip(d, r) \/ GiveUp(d, r) \/ Note(d, r) \/ Dispatch(d, r)
    BY <1>2 DEF Start, Earliest
  <2>2. CASE Dispatch(d, r)
    <3>1. CASE r.kind \in Uploads
      <4>1. NewId \in Ids
        BY <2>2, <3>1 DEF Dispatch, NewId, Unused
      <4>2. /\ intent' = [intent EXCEPT ![d] = [op |-> r, new |-> NewId]]
            /\ drive' = [drive EXCEPT ![NewId].status = "reserved"]
        BY <2>2, <3>1 DEF Dispatch, Becomes
      <4> HIDE DEF NewId
      <4>3. intent'[d] = [op |-> r, new |-> NewId] /\ drive'[NewId].status = "reserved"
        BY <1>0, <4>1, <4>2 DEF Objects
      <4> QED
        BY <1>2, <2>1, <2>2, <4>3 DEF Start
    <3>2. CASE r.kind \notin Uploads
      <4>1. intent'[d] = [op |-> r, new |-> r.id]
        BY <1>0, <2>2, <3>2 DEF Dispatch
      <4> QED
        BY <1>2, <2>1, <2>2, <3>2, <4>1 DEF Start
    <3> QED
      BY <3>1, <3>2
  <2> QED
    BY <1>1, <2>1, <2>2 DEF Skip, GiveUp, Note
<1>3. CASE Complete(d) \/ RecoverCommit(d) \/ RecoverUnapplied(d)
  BY <1>0, <1>3 DEF Complete, RecoverCommit, RecoverUnapplied, Closed
<1>4. CASE User(d)
  BY <1>1, <1>4 DEF User, Write, Delete, Rename, Resolve
<1>5. CASE Begin(d) \/ Create(d) \/ Upload(d) \/ Finalize(d) \/ Retire(d) \/ CheckTrash(d)
           \/ TrashRemote(d) \/ CheckMove(d) \/ MoveRemote(d) \/ Replace(d) \/ TrashLocal(d)
           \/ MoveLocal(d) \/ Crash(d) \/ RecoverUpdate(d) \/ RecoverReplace(d)
  BY <1>1, <1>5 DEF Begin, Create, Upload, Finalize, Retire, CheckTrash, TrashRemote, CheckMove,
     MoveRemote, Replace, TrashLocal, MoveLocal, Crash, RecoverUpdate, RecoverReplace
<1> QED
  BY <1>2, <1>3, <1>4, <1>5 DEF Acting, Device, Effect, Recover

(* BASE of a path and the vault stay in step.                              *)
LEMMA NoticedStays ==
    ASSUME Placed, NEW d \in Devices, Acting(d), NEW e \in Devices
    PROVE  Noticed(e)'
<1>0. KeptInv /\ ReconInv /\ ReconInv' /\ Noticed(e) /\ Renewing(e)
  BY DEF Placed, KeptInv
<1>1. CASE base'[e] = base[e]
  <2> SUFFICES ASSUME NEW p \in Paths, base[e][p] # None, NEW x \in base[e][p].content
               PROVE  x \in InVault(e, p)' \/ Spent(x)'
    BY <1>1 DEF Noticed
  <2>1. x \in Edits /\ Where(x, p)'
    BY <1>0, <1>1, EditsTyped DEF Where
  <2>2. CASE Spent(x)
    BY <2>2, SpentStays
  <2>3. CASE x \in InVault(e, p)
    <3>1. CASE \E q \in Paths : q # p /\ x \in InVault(e, q)'
      <4>1. PICK q \in Paths : q # p /\ x \in InVault(e, q)'
        BY <3>1
      <4>2. Where(x, q)'
        BY <4>1 DEF Where
      <4> QED
        BY <2>1, <4>1, <4>2, OnePathThen DEF Placed
    <3>2. CASE /\ e = d /\ Doing(d, Downloads) /\ p = intent[d].op.path
               /\ x \notin intent[d].op.theirs
      BY <1>0, <3>2, SpentStays DEF Renewing
    <3> QED
      BY <1>0, <2>3, <3>1, <3>2, VaultsForget
  <2> QED
    BY <1>0, <2>2, <2>3 DEF Noticed
<1>2. CASE base'[e] # base[e]
  <2>1. PICK o \in InHand(d), s \in Operations :
              /\ \E i : Commit(d, s, i)
              /\ s.kind = o.kind /\ s.path = o.path /\ s.mine = o.mine /\ s.theirs = o.theirs
              /\ o.kind \in Moves => s = o
              /\ UNCHANGED <<drive, local, given, bin>>
              /\ o.kind \in Recording =>
                    \A x \in Recorded(o) : x \in InVault(d, o.path) \/ Spent(x)
              /\ o.kind \in Moves /\ base[d][o.source] # None =>
                    \A x \in base[d][o.source].content : Spent(x)
              /\ \A c \in Devices \ {d} : base'[c] = base[c]
    BY <1>0, <1>2, CommitSteps
  <2>2. Recorded(s) = Recorded(o)
    BY <2>1 DEF Recorded, Result
  <2>3. Noticed(d)'
    BY <1>0, <1>2, <2>1, <2>2, CommitIsNoticed
  <2> QED
    BY <1>2, <2>1, <2>3
<1> QED
  BY <1>1, <1>2

(* How a merge comes to be in execution behind its half in the vault.      *)
LEMMA MergingSteps ==
    ASSUME KeptInv, NEW d \in Devices, Acting(d), plan'[d] # {},
           step'[d] \in {"merged", "uploaded", "checked", "applied"},
           Doing(d, {"clean-text-merge"})'
    PROVE  /\ intent'[d] = intent[d]
           /\ \/ Replace(d) /\ local[d][intent[d].op.path] = intent[d].op.mine
              \/ plan[d] # {} /\ step[d] \in {"merged", "uploaded", "checked", "applied"}
<1> DEFINE Behind == {"merged", "uploaded", "checked", "applied"}
<1>0. /\ ReconInv /\ ReconciliationTypeOK /\ Orderly(d)
      /\ plan \in [Devices -> SUBSET Operations] /\ step \in [Devices -> Steps]
      /\ intent \in [Devices -> {None} \cup Intents]
  BY DEF KeptInv, ReconInv, ReconciliationTypeOK
<1>1. ASSUME Stop(d) PROVE FALSE
  BY <1>0, <1>1 DEF Stop
<1>2. ASSUME NEW o, NEW skips, Proceed(d, o, skips) PROVE FALSE
  BY <1>0, <1>2 DEF Proceed, Advance
<1>3. CASE Begin(d)
  BY <1>0, <1>3 DEF Begin, Advance
<1>4. CASE Start(d)
  <2>1. PICK o \in plan[d] : Skip(d, o) \/ GiveUp(d, o) \/ Note(d, o) \/ Dispatch(d, o)
    BY <1>4 DEF Start, Earliest
  <2>2. Dispatch(d, o)
    BY <1>1, <1>2, <2>1 DEF Skip, GiveUp, Note
  <2> QED
    BY <1>0, <2>2 DEF Dispatch, Advance
<1>5. ASSUME NEW ok, NEW to, Pass(d, ok, to)
      PROVE  ok /\ plan' = plan
  BY <1>1, <1>5 DEF Pass
<1>6. CASE Upload(d) \/ Finalize(d) \/ Retire(d)
  <2>1. intent' = intent /\ step[d] \in Behind \cup {"guarded"}
    BY <1>6 DEF Upload, Finalize, Retire
  <2>2. plan' = plan
    BY <1>5, <1>6 DEF Upload, Finalize, Retire
  <2>3. step[d] \in Behind
    BY <1>6, <2>1 DEF Upload, Finalize, Retire, Doing
  <2> QED
    BY <2>1, <2>2, <2>3
<1>7. CASE Replace(d)
  BY <1>5, <1>7 DEF Replace
<1>8. CASE \/ Create(d) \/ CheckTrash(d) \/ TrashRemote(d) \/ CheckMove(d) \/ MoveRemote(d)
            \/ TrashLocal(d) \/ MoveLocal(d)
  <2>1. intent' = intent
    BY <1>8 DEF Create, CheckTrash, TrashRemote, CheckMove, MoveRemote, TrashLocal, MoveLocal
  <2> QED
    BY <1>8, <2>1 DEF Create, CheckTrash, TrashRemote, CheckMove, MoveRemote, TrashLocal,
       MoveLocal, Doing
<1>9. CASE Complete(d) \/ Crash(d)
  BY <1>1, <1>2, <1>9 DEF Complete, Crash
<1>10. CASE RecoverUpdate(d) \/ RecoverReplace(d) \/ RecoverCommit(d) \/ RecoverUnapplied(d)
  <2>1. step[d] = "idle" /\ plan' = plan
    BY <1>10 DEF RecoverUpdate, RecoverReplace, RecoverCommit, RecoverUnapplied, Outstanding, pass
  <2> QED
    BY <1>0, <2>1 DEF Orderly
<1>11. CASE User(d)
  <2>1. CASE UNCHANGED <<plan, step, intent>>
    BY <2>1
  <2>2. ASSUME NEW p \in Paths, NEW choice \in Resolutions, Resolve(d, p, choice)
        PROVE  FALSE
    BY <1>0, <2>2 DEF Resolve, Advance
  <2> QED
    BY <1>11, <2>1, <2>2 DEF User, Write, Delete, Rename, pass
<1> QED
  BY <1>3, <1>4, <1>6, <1>7, <1>8, <1>9, <1>10, <1>11 DEF Acting, Device, Effect, Recover

(* What was merged stays in the vault for the rest of the pass.            *)
LEMMA MergingStays ==
    ASSUME Placed, NEW d \in Devices, Acting(d), NEW e \in Devices
    PROVE  Merging(e)'
<1>0. KeptInv /\ ReconInv /\ ReconInv' /\ Merging(e)
  BY DEF Placed, KeptInv
<1> SUFFICES ASSUME plan'[e] # {},
                    step'[e] \in {"merged", "uploaded", "checked", "applied"},
                    Doing(e, {"clean-text-merge"})',
                    NEW x \in Result(intent'[e].op)
             PROVE  x \in InVault(e, intent[e].op.path)' \/ Spent(x)'
  BY DEF Merging, Result
<1>1. /\ intent'[e] = intent[e]
      /\ \/ /\ e = d /\ Replace(d) /\ local[d][intent[d].op.path] = intent[d].op.mine
         \/ plan[e] # {} /\ step[e] \in {"merged", "uploaded", "checked", "applied"}
  BY <1>0, MergingSteps, OthersRest
<1>2. PICK o \in Operations : o = intent[e].op
  BY <1>0, <1>1, IntentTyped DEF Doing, ReconInv
<1>3. /\ intent[e] # None /\ o.kind = "clean-text-merge" /\ o.path \in Paths
      /\ Doing(e, {"clean-text-merge"}) /\ x \in Result(o)
  BY <1>1, <1>2 DEF Doing, Operations
<1>4. CASE e = d /\ Replace(d) /\ local[d][intent[d].op.path] = intent[d].op.mine
  <2>1. local' = [local EXCEPT ![d][o.path] = Brings(o)]
    BY <1>2, <1>4 DEF Replace
  <2>2. Brings(o) \in Contents /\ Brings(o) = Result(o)
    BY <1>0, <1>2, <1>3, BringsTyped DEF Brings, Downloads, ReconInv, Doing
  <2>3. local'[d][o.path] = Result(o)
    BY <1>0, <1>3, <2>1, <2>2 DEF ReconInv, ReconciliationTypeOK
  <2> QED
    BY <1>1, <1>2, <1>3, <1>4, <2>2, <2>3, AbsenceAssumption DEF InVault, Contents
<1>5. CASE plan[e] # {} /\ step[e] \in {"merged", "uploaded", "checked", "applied"}
  <2>1. x \in InVault(e, o.path) \/ Spent(x)
    BY <1>0, <1>2, <1>3, <1>5 DEF Merging
  <2>2. CASE Spent(x)
    BY <2>2, SpentStays
  <2>3. CASE x \in InVault(e, o.path)
    <3>1. x \in Edits
      BY <1>0, <1>3, <2>3, EditsTyped
    <3>2. Where(x, o.path)'
      BY <1>1, <1>2, <1>3 DEF Where, InHand, Recording, Recorded, Uploads, Replacing, Result
    <3>3. ASSUME NEW q \in Paths, x \in InVault(e, q)' PROVE q = o.path
      <4>1. Where(x, q)'
        BY <3>3 DEF Where
      <4> QED
        BY <1>3, <3>1, <3>2, <4>1, OnePathThen DEF Placed
    <3>4. ~(e = d /\ Doing(d, Downloads))
      BY <1>2, <1>3 DEF Doing, Downloads
    <3> QED
      BY <1>0, <1>1, <1>2, <1>3, <2>3, <3>3, <3>4, VaultsForget
  <2> QED
    BY <1>1, <1>2, <2>1, <2>2, <2>3
<1> QED
  BY <1>1, <1>4, <1>5

(* What an operation was planned on stays as long as it is in hand.        *)
LEMMA FoundedStays ==
    ASSUME Placed, NEW d \in Devices, Acting(d), NEW e \in Devices,
           NEW o \in InHand(e), o \in InHand(e)'
    PROVE  Founded(e, o)'
<1>0. /\ KeptInv /\ ReconInv /\ Founded(e, o) /\ Orderly(e) /\ Lasting
      /\ o \in Operations /\ o.path \in Paths
  BY AccountLasts, HandTyped DEF Placed, KeptInv
<1>1. ASSUME o.kind \in Uploads \cup {"adopt"}, NEW x \in o.mine
      PROVE  x \in InVault(e, o.path)' \/ Spent(x)'
  <2>1. x \in Recorded(o) /\ o.kind \in Recording
    BY <1>0, <1>1 DEF Founded, Recorded, Recording, Result, Uploads, Replacing
  <2>2. Where(x, o.path)'
    BY <2>1 DEF Where, Recorded, Recording, Result
  <2>3. CASE Spent(x)
    BY <2>3, SpentStays
  <2>4. CASE x \in InVault(e, o.path)
    <3>0. x \in Edits
      BY <1>0, <2>4, EditsTyped
    <3>1. CASE \E q \in Paths : q # o.path /\ x \in InVault(e, q)'
      <4>1. PICK q \in Paths : q # o.path /\ x \in InVault(e, q)'
        BY <3>1
      <4>2. Where(x, q)'
        BY <4>1 DEF Where
      <4> QED
        BY <1>0, <2>2, <3>0, <4>1, <4>2, OnePathThen DEF Placed
    <3>2. CASE /\ e = d /\ Doing(d, Downloads) /\ o.path = intent[d].op.path
               /\ intent' = intent /\ plan'[d] \subseteq plan[d]
      <4>1. o # intent[d].op
        BY <1>1, <3>2 DEF Doing, Uploads, Replacing, Downloads
      <4>2. o \in plan[d] /\ intent[d] # None
        BY <3>2, <4>1 DEF InHand, Doing
      <4>3. intent[d].op \in plan[d] /\ o.kind \notin Moves
        BY <1>0, <1>1, <3>2, <4>2 DEF Orderly, Moves, Uploads, Replacing
      <4>4. o.path \notin Changes(intent[d].op)
        BY <1>0, <3>2, <4>1, <4>2, <4>3 DEF Orderly
      <4> QED
        BY <3>2, <4>4 DEF Changes
    <3> QED
      BY <1>0, <2>4, <3>1, <3>2, VaultsForget
  <2> QED
    BY <1>0, <1>1, <2>3, <2>4 DEF Founded
<1>2. ASSUME o.kind = "move-remote", base'[e][o.source] # None,
             NEW x \in base'[e][o.source].content
      PROVE  Spent(x)'
  <2>1. CASE base'[e] = base[e]
    BY <1>0, <1>2, <2>1, SpentStays DEF Founded
  <2>2. CASE base'[e] # base[e]
    <3>1. PICK c \in InHand(d), s \in Operations :
              /\ \E i : Commit(d, s, i)
              /\ s.kind = c.kind /\ s.path = c.path
              /\ c.kind \in Moves => s = c
              /\ c.kind \in Moves /\ base[d][c.source] # None =>
                    \A y \in base[d][c.source].content : Spent(y)
              /\ c \in plan[d] \/ plan[d] = {}
              /\ intent'[d] = None /\ plan'[d] \subseteq plan[d] \ {c}
              /\ \A a \in Devices \ {d} : base'[a] = base[a]
      BY <1>0, <2>2, CommitSteps
    <3>2. e = d
      BY <2>2, <3>1
    <3>3. o \in plan[d] /\ o # c
      BY <3>1, <3>2 DEF InHand
    <3>4. c.kind \notin Moves => c.path # o.source
      BY <1>0, <1>2, <3>1, <3>2, <3>3 DEF Orderly, Changes, Moves
    <3>5. Spent(x)
      BY <1>0, <1>2, <3>1, <3>2, <3>4, CommitSparesSources DEF Founded
    <3> QED
      BY <3>5, SpentStays
  <2> QED
    BY <2>1, <2>2
<1>3. o.kind \in Replacing => \A x \in o.theirs : x \in Result(o) \/ Spent(x)'
  BY <1>0, SpentStays DEF Founded
<1>4. o.kind = "trash-remote" => \A x \in o.theirs : Spent(x)'
  BY <1>0, SpentStays DEF Founded
<1>5. o.kind \in Replacing \cup Downloads \cup {"trash-remote"} =>
          o.id \in Ids /\ Brought(o.id)' /\ drive'[o.id].content = o.theirs
  BY <1>0 DEF Founded, Lasting
<1> QED
  BY <1>0, <1>1, <1>2, <1>3, <1>4, <1>5 DEF Founded, Result

(* A download goes on bringing what BASE holds of its path.                *)
LEMMA RenewingStays ==
    ASSUME Placed, NEW d \in Devices, Acting(d), NEW e \in Devices
    PROVE  Renewing(e)'
<1>0. /\ KeptInv /\ ReconInv /\ Renewing(e) /\ ReconciliationTypeOK
      /\ BackedAt(e) /\ Noticed(e) /\ Surviving
  BY DEF Placed, KeptInv, ReconInv
<1> SUFFICES ASSUME intent'[e] # None, intent'[e].op.kind \in Downloads,
                    base'[e][intent'[e].op.path] # None,
                    NEW x \in base'[e][intent'[e].op.path].content
             PROVE  x \in intent'[e].op.theirs \/ Spent(x)'
  BY DEF Renewing, Doing
<1>1. base'[e] = base[e]
  <2>1. CASE base' # base
    <3>1. intent'[d] = None /\ \A c \in Devices \ {d} : base'[c] = base[c]
      BY <1>0, <2>1, CommitSteps
    <3> QED
      BY <3>1
  <2> QED
    BY <2>1
<1>2. CASE intent'[e] = intent[e]
  BY <1>0, <1>1, <1>2, SpentStays DEF Renewing, Doing
<1>3. CASE intent'[e] # intent[e]
  <2>1. e = d
    BY <1>0, <1>3, OthersRest
  <2>2. PICK o \in plan[d] : Dispatch(d, o) /\ intent'[d].op = o
    BY <1>0, <1>3, <2>1, IntentSteps
  <2>3. /\ o.kind \in Downloads /\ base[d][o.path] # None /\ x \in base[d][o.path].content
        /\ o.path \in Paths /\ o \in InHand(d)
    BY <1>0, <1>1, <2>1, <2>2, HandTyped DEF InHand
  <2>4. /\ StillThere(d, o) /\ UNCHANGED <<local, base>>
        /\ o.kind # "adopt" /\ o.kind \notin Moves /\ o.kind \notin Uploads
    BY <2>2, <2>3 DEF Dispatch, Ready, knowledge, Noted, Downloads, Moves, Uploads, Replacing
  <2>5. /\ local[d][o.path] = o.mine /\ Live(o.source) = IF o.id = None THEN {} ELSE {o.id}
    BY <2>3, <2>4 DEF StillThere, LocalPlace, RemotePlace, Moves
  <2>6. CASE Spent(x)
    BY <2>6, SpentStays
  <2>7. CASE ~Spent(x)
    <3>1. x \in InVault(d, o.path)
      BY <1>0, <2>1, <2>3, <2>7 DEF Noticed
    <3>2. o.mine # Absent
      BY <2>5, <3>1 DEF InVault
    <3>3. Founded(d, o)
      BY <1>0, <2>3 DEF KeptInv
    <3>4. o.source = o.path /\ o.id \in Ids /\ drive[o.id].content = o.theirs
      BY <2>3, <3>2, <3>3 DEF Founded
    <3>5. PICK i \in Ids : Brought(i) /\ drive[i].content = base[d][o.path].content
      BY <1>0, <2>1, <2>3 DEF BackedAt, Uploaded
    <3>6. PICK j \in Ids : drive[j].status = "live" /\ x \in drive[j].content
      BY <1>0, <2>3, <2>7, <3>5 DEF Surviving, Alive
    <3>7. PICK q \in Paths : q = drive[j].path
      BY <1>0, <3>6 DEF Surviving, Brought
    <3>8. UNCHANGED drive
      BY <2>2, <2>4 DEF Dispatch
    <3>9. Where(x, o.path)'
      BY <2>3, <2>4 DEF Where
    <3>10. Where(x, q)'
      BY <3>6, <3>7, <3>8 DEF Where, Live
    <3>11. x \in Edits
      BY <1>0, <2>3, EditsTyped
    <3>12. drive[j].path = o.path
      BY <2>3, <3>7, <3>9, <3>10, <3>11, OnePathThen DEF Placed
    <3>13. j \in Live(o.path)
      BY <3>6, <3>12 DEF Live
    <3> QED
      BY <2>1, <2>2, <2>5, <3>4, <3>6, <3>13
  <2> QED
    BY <2>6, <2>7
<1> QED
  BY <1>2, <1>3

-----------------------------------------------------------------------------
(* The operations of a pass and the candidates                             *)

LEMMA PlanIsOrderly ==
    ASSUME NEW f, NEW o \in Plan(f), NEW r \in Plan(f), o # r, o.kind \notin Moves
    PROVE  o.path \notin Changes(r)
<1>1. ASSUME NEW m \in MovesOf(f)
      PROVE  m.kind \in Moves /\ m.path \in Handled(f) /\ m.source \in Handled(f)
  <2>1. PICK p \in Paths :
          m \in {Follow(f, p, q) : q \in {s \in Paths : MovedInDrive(f, p, s)}} \cup
                {Lead(f, p, q) : q \in {s \in Paths : MovedInVault(f, p, s)}}
    BY <1>1, Zenon DEF MovesOf
  <2>2. PICK q \in Paths : \/ MovedInDrive(f, p, q) /\ m = Follow(f, p, q)
                           \/ MovedInVault(f, p, q) /\ m = Lead(f, p, q)
    BY <2>1, Zenon
  <2>3. m.kind \in Moves /\ m.path = q /\ m.source = p
    BY <2>2 DEF Follow, Lead, Operation, Moves
  <2> QED
    BY <2>2, <2>3 DEF Handled
<1>2. ASSUME NEW a \in Plan(f), a \notin MovesOf(f)
      PROVE  \E p \in Paths \ Handled(f) :
                 a = Decided(f, p, Verdict(f, p)) /\ a.path = p /\ a.kind \notin Moves
  <2>1. PICK p \in Paths \ Handled(f) : a = Decided(f, p, Verdict(f, p))
    BY <1>2 DEF Plan
  <2>2. Verdict(f, p) \notin Moves
    BY VerdictIsFounded DEF Decisions, Moves, Uploads, Replacing, Downloads
  <2>3. a.path = p /\ a.kind = Verdict(f, p)
    BY <2>1 DEF Decided, Operation
  <2> QED
    BY <2>1, <2>2, <2>3
<1>3. o \notin MovesOf(f)
  BY <1>1
<1>4. CASE r \in MovesOf(f)
  BY <1>1, <1>2, <1>3, <1>4 DEF Changes
<1>5. CASE r \notin MovesOf(f)
  BY <1>2, <1>3, <1>5 DEF Changes
<1> QED
  BY <1>4, <1>5

LEMMA ResolvingIsOrderly ==
    ASSUME ReconInv, NEW d \in Devices, NEW p \in Conflicts(Facts(d)),
           NEW choice \in Resolutions, NEW operations \in Resolving(d, Facts(d), p, choice),
           NEW o \in operations, NEW r \in operations, o # r
    PROVE  o.path \notin Changes(r)
<1> DEFINE f == Facts(d)
<1>0. /\ ReconciliationTypeOK /\ p \in Paths /\ (LocalHere(f, p) \/ RemoteHere(f, p))
      /\ f.local[p] = local[d][p]
  BY VerdictIsFounded, FactsTyped DEF Conflicts, ReconInv
<1> HIDE DEF f
<1>2. operations \in Resolving(d, f, p, choice)
  BY DEF f
<1>3. CASE LocalHere(f, p) /\ RemoteHere(f, p) /\ choice = "keep-local"
  BY <1>2, <1>3 DEF Resolving
<1>4. CASE LocalHere(f, p) /\ RemoteHere(f, p) /\ choice = "keep-remote"
  BY <1>2, <1>4 DEF Resolving
<1>5. CASE LocalHere(f, p) /\ RemoteHere(f, p) /\ choice = "keep-both"
  <2>1. operations \in
          {{Operation("download-create", q, p, ObjectId(f, p), Absent, ObjectContent(f, p)),
            Decided(f, p, "upload-update")} : q \in {s \in Paths : local[d][s] = Absent}}
    BY <1>2, <1>5 DEF Resolving
  <2>2. PICK q \in {s \in Paths : local[d][s] = Absent} : operations =
          {Operation("download-create", q, p, ObjectId(f, p), Absent, ObjectContent(f, p)),
           Decided(f, p, "upload-update")}
    BY <2>1
  <2>3. q # p
    BY <1>0, <1>5, <2>2 DEF LocalHere
  <2> QED
    BY <2>2, <2>3 DEF Decided, Operation, Changes, Moves
<1>6. CASE LocalHere(f, p) /\ ~RemoteHere(f, p)
  BY <1>2, <1>6 DEF Resolving
<1>7. CASE ~LocalHere(f, p) /\ RemoteHere(f, p)
  BY <1>2, <1>7 DEF Resolving
<1> QED
  BY <1>0, <1>3, <1>4, <1>5, <1>6, <1>7 DEF Resolutions

LEMMA OrderlyStays ==
    ASSUME ReconInv, \A c \in Devices : Orderly(c),
           NEW d \in Devices, Acting(d), NEW e \in Devices
    PROVE  Orderly(e)'
<1>0. /\ ReconInv /\ ReconciliationTypeOK /\ Orderly(e) /\ Orderly(d)
      /\ CandidateAt(d) /\ Apart(d, e)
  BY DEF ReconInv
<1>t. /\ plan \in [Devices -> SUBSET Operations] /\ step \in [Devices -> Steps]
      /\ intent \in [Devices -> {None} \cup Intents] /\ drive \in [Ids -> Objects]
  BY <1>0 DEF ReconciliationTypeOK
<1>a. CASE e # d
  <2>1. plan'[e] = plan[e] /\ step'[e] = step[e] /\ intent'[e] = intent[e]
    BY <1>0, <1>a, OthersRest
  <2>2. ASSUME Doing(e, Uploads), ~Brought(intent[e].new)
        PROVE  ~Brought(intent[e].new)'
    <3> DEFINE i == intent[e].new
    <3>1. i \in Ids
      BY <1>0, <2>2 DEF ReconInv, CandidateAt
    <3>2. CASE Quiet
      BY <2>1, <2>2, <3>1, <3>2 DEF Quiet, Brought
    <3>3. CASE Sends(d)
      <4>1. i # intent[d].new
        BY <1>0, <1>a, <2>2, <3>3 DEF Sends, Apart
      <4> QED
        BY <1>t, <2>1, <2>2, <3>1, <3>3, <4>1 DEF Sends, Brought
    <3>4. CASE Retire(d) \/ TrashRemote(d)
      <4>1. /\ Brought(intent[d].op.id) /\ Becomes(intent[d].op.id, "trashed")
        BY <1>0, <3>4 DEF Retire, TrashRemote, CandidateAt, Doing, Replacing, NeedsIdentity
      <4> QED
        BY <1>t, <2>1, <2>2, <3>1, <4>1 DEF Becomes, Brought
    <3>5. CASE MoveRemote(d)
      BY <1>t, <2>1, <2>2, <3>1, <3>5 DEF MoveRemote, Brought, Objects
    <3> QED
      BY <1>0, <3>2, <3>3, <3>4, <3>5, AccountSteps
  <2> HIDE DEF Brought
  <2> QED
    BY <1>0, <2>1, <2>2 DEF Orderly, Doing
<1>b. Orderly(d)'
  <2>1. ASSUME plan'[d] = {}, step'[d] = "idle"
        PROVE  Orderly(d)'
    BY <2>1 DEF Orderly
  <2>2. ASSUME Stop(d) PROVE Orderly(d)'
    BY <1>t, <2>1, <2>2 DEF Stop, Advance
  <2>3. ASSUME NEW ok, NEW to \in {"uploaded", "checked", "applied"},
               Pass(d, ok, to), intent' = intent
        PROVE  Orderly(d)'
    BY <1>0, <1>t, <2>2, <2>3 DEF Pass, Advance, Orderly
  <2>4. ASSUME NEW o, NEW skips, Proceed(d, o, skips), intent'[d] = None
        PROVE  Orderly(d)'
    <3>1. plan'[d] = plan[d] \ {o}
      BY <1>t, <2>4 DEF Proceed
    <3>2. /\ step'[d] \in {"idle", "running"}
          /\ step'[d] = "idle" => plan'[d] = {}
      BY <1>t, <2>4, <3>1 DEF Proceed, Advance
    <3> QED
      BY <1>0, <2>4, <3>1, <3>2 DEF Orderly
  <2>5. CASE Begin(d)
    <3>1. plan'[d] = Plan(Facts(d)) /\ step'[d] = "running" /\ intent'[d] = None
      BY <1>t, <2>5 DEF Begin, Advance
    <3> QED
      BY <3>1, PlanIsOrderly DEF Orderly
  <2>6. CASE Start(d)
    <3>1. PICK r \in plan[d] : Skip(d, r) \/ GiveUp(d, r) \/ Note(d, r) \/ Dispatch(d, r)
      BY <2>6 DEF Start, Earliest
    <3>2. step[d] = "running" /\ intent[d] = None
      BY <1>0, <2>6 DEF Start, Orderly
    <3>3. CASE Skip(d, r) \/ Note(d, r)
      BY <2>4, <3>2, <3>3 DEF Skip, Note
    <3>4. CASE GiveUp(d, r)
      BY <2>2, <3>4 DEF GiveUp
    <3>5. CASE Dispatch(d, r)
      <4>1. plan' = plan /\ step'[d] = "guarded"
        BY <1>t, <3>5 DEF Dispatch, Advance
      <4>2. CASE r.kind \in Uploads
        <5>1. NewId \in Ids
          BY <3>5, <4>2 DEF Dispatch, NewId, Unused
        <5>2. /\ intent' = [intent EXCEPT ![d] = [op |-> r, new |-> NewId]]
              /\ drive' = [drive EXCEPT ![NewId].status = "reserved"]
          BY <3>5, <4>2 DEF Dispatch, Becomes
        <5> HIDE DEF NewId
        <5>3. intent'[d] = [op |-> r, new |-> NewId] /\ drive'[NewId].status = "reserved"
          BY <1>t, <5>1, <5>2 DEF Objects
        <5>4. ~Brought(intent[d].new)'
          BY <5>3 DEF Brought
        <5> QED
          BY <1>0, <3>1, <4>1, <5>3, <5>4 DEF Orderly
      <4>3. CASE r.kind \notin Uploads
        <5>1. intent'[d] = [op |-> r, new |-> r.id]
          BY <1>t, <3>5, <4>3 DEF Dispatch
        <5> QED
          BY <1>0, <3>1, <4>1, <4>3, <5>1 DEF Orderly, Doing
      <4> QED
        BY <4>2, <4>3
    <3> QED
      BY <3>1, <3>3, <3>4, <3>5
  <2>7. CASE Create(d) \/ Upload(d) \/ Finalize(d) \/ Retire(d) \/ CheckTrash(d) \/ TrashRemote(d)
             \/ CheckMove(d) \/ MoveRemote(d) \/ TrashLocal(d) \/ MoveLocal(d)
    <3>1. intent' = intent
      BY <2>7 DEF Create, Upload, Finalize, Retire, CheckTrash, TrashRemote,
         CheckMove, MoveRemote, TrashLocal, MoveLocal
    <3>2. \E ok, to : to \in {"uploaded", "checked", "applied"} /\ Pass(d, ok, to)
      BY <2>7 DEF Create, Upload, Finalize, Retire, CheckTrash, TrashRemote,
         CheckMove, MoveRemote, TrashLocal, MoveLocal
    <3> QED
      BY <2>3, <3>1, <3>2
  <2>8. CASE Replace(d)
    <3> DEFINE ok == local[d][intent[d].op.path] = intent[d].op.mine
    <3>1. /\ step[d] = "guarded" /\ intent' = intent /\ drive' = drive
          /\ Doing(d, Downloads \cup {"clean-text-merge"})
          /\ Pass(d, ok, IF intent[d].op.kind \in Downloads THEN "applied" ELSE "merged")
      BY <2>8 DEF Replace
    <3> HIDE DEF ok
    <3>2. CASE intent[d].op.kind \in Downloads
      BY <2>3, <3>1, <3>2
    <3>3. CASE intent[d].op.kind \notin Downloads
      <4>1. CASE ok
        <5>1. plan' = plan /\ step'[d] = "merged" /\ intent' = intent /\ drive' = drive
          BY <1>t, <3>1, <3>3, <4>1 DEF Pass, Advance, Steps
        <5> QED
          BY <1>0, <3>1, <5>1 DEF Orderly, Doing, Brought
      <4>2. CASE ~ok
        BY <2>2, <3>1, <4>2 DEF Pass
      <4> QED
        BY <4>1, <4>2
    <3> QED
      BY <3>2, <3>3
  <2>9. CASE Complete(d)
    <3>1. CASE Verified(d)
      BY <1>t, <2>4, <2>9, <3>1 DEF Complete, Closed
    <3>2. CASE ~Verified(d)
      BY <2>2, <2>9, <3>2 DEF Complete
    <3> QED
      BY <3>1, <3>2
  <2>10. CASE Crash(d)
    BY <2>2, <2>10 DEF Crash
  <2>11. CASE RecoverUpdate(d)
    <3>1. /\ step[d] = "idle" /\ plan' = plan
          /\ step'[d] = "uploaded" /\ intent' = intent
      BY <1>t, <2>11 DEF RecoverUpdate, Outstanding, Advance
    <3> QED
      BY <1>0, <3>1 DEF Orderly
  <2>12. CASE RecoverReplace(d) \/ RecoverCommit(d) \/ RecoverUnapplied(d)
    <3>1. step[d] = "idle" /\ plan' = plan /\ step' = step
      BY <2>12 DEF RecoverReplace, RecoverCommit, RecoverUnapplied, Outstanding, pass
    <3> QED
      BY <1>0, <2>1, <3>1 DEF Orderly
  <2>13. CASE User(d)
    <3>1. CASE UNCHANGED <<drive, plan, step, intent>>
      BY <1>0, <3>1 DEF Orderly, Doing, Brought
    <3>2. ASSUME NEW p \in Paths, NEW choice \in Resolutions, Resolve(d, p, choice)
          PROVE  Orderly(d)'
      <4>1. p \in Conflicts(Facts(d)) /\ intent'[d] = None /\ step'[d] = "running"
        BY <1>t, <3>2 DEF Resolve, Advance
      <4>2. PICK operations \in Resolving(d, Facts(d), p, choice) :
               plan' = [plan EXCEPT ![d] = operations]
        BY <3>2 DEF Resolve
      <4>3. plan'[d] = operations
        BY <1>t, <4>2
      <4> QED
        BY <1>0, <4>1, <4>2, <4>3, ResolvingIsOrderly DEF Orderly
    <3> QED
      BY <2>13, <3>1, <3>2 DEF User, Write, Delete, Rename, pass
  <2> QED
    BY <2>5, <2>6, <2>7, <2>8, <2>9, <2>10, <2>11, <2>12, <2>13
       DEF Acting, Device, Effect, Recover
<1> QED
  BY <1>a, <1>b

-----------------------------------------------------------------------------
(* What is planned rests on what is there                                  *)

(* plan of core/planner.ts: what a decision about the account rests on.    *)
LEMMA DecisionIsFounded ==
    ASSUME NEW f, NEW p
    PROVE  /\ Verdict(f, p) \in Replacing \cup {"trash-remote"} => RemoteHere(f, p)
           /\ Verdict(f, p) \in {"upload-update", "trash-remote"} =>
                 f.base[p] # None /\ Object(f, p).content = f.base[p].content
           /\ Verdict(f, p) = "trash-remote" => ~LocalHere(f, p)
           /\ Verdict(f, p) = "adopt" => f.local[p] = Object(f, p).content
<1> USE DEF Replacing
<1>1. CASE Ambiguous(f, p)
  BY <1>1 DEF Verdict, Ambiguous, RemoteHere
<1>2. CASE ~Ambiguous(f, p) /\ ~LocalHere(f, p) /\ ~RemoteHere(f, p)
  BY <1>2 DEF Verdict, WhenNeither
<1>3. CASE ~Ambiguous(f, p) /\ ~LocalHere(f, p) /\ RemoteHere(f, p)
  BY <1>3 DEF Verdict, WhenRemoteOnly, RemoteChanged, Shared
<1>4. CASE ~Ambiguous(f, p) /\ LocalHere(f, p) /\ ~RemoteHere(f, p)
  BY <1>4 DEF Verdict, WhenLocalOnly, LocalChanged
<1>5. CASE ~Ambiguous(f, p) /\ LocalHere(f, p) /\ RemoteHere(f, p)
  BY <1>5 DEF Verdict, WhenBoth, WhenBothDiffer, RemoteChanged
<1> QED
  BY <1>1, <1>2, <1>3, <1>4, <1>5

(* What an operation about one path names in the account.                  *)
LEMMA DecidedNames ==
    ASSUME ReconInv, NEW d \in Devices, NEW p \in Paths, NEW q \in Paths, NEW kind, NEW mine,
           RemoteHere(Facts(d), p),
           NEW o, o = Operation(kind, q, p, ObjectId(Facts(d), p), mine, ObjectContent(Facts(d), p))
    PROVE  o.id \in Live(p) /\ o.id \in Ids /\ Brought(o.id) /\ drive[o.id].content = o.theirs
<1>1. PICK i \in Live(p) : Object(Facts(d), p) = [id |-> i, content |-> drive[i].content]
  BY ObjectIsLive DEF ReconInv
<1>2. i \in Ids /\ Brought(i)
  BY DEF Live, Brought
<1>3. ObjectId(Facts(d), p) = i /\ ObjectContent(Facts(d), p) = drive[i].content
  BY <1>1 DEF ObjectId, ObjectContent
<1>4. o.id = i /\ o.theirs = drive[i].content
  BY <1>3 DEF Operation
<1> QED
  BY <1>2, <1>4

LEMMA PlannedIsFounded ==
    ASSUME KeptInv, NEW d \in Devices, NEW o \in Plan(Facts(d))
    PROVE  Founded(d, o)
<1> DEFINE f == Facts(d)
<1>0. ReconInv /\ ReconciliationTypeOK /\ Noticed(d)
  BY DEF KeptInv, ReconInv
<1>1. CASE o \in MovesOf(f)
  <2> HIDE DEF f
  <2>1. PICK p \in Paths :
          o \in {Follow(f, p, q) : q \in {s \in Paths : MovedInDrive(f, p, s)}} \cup
                {Lead(f, p, q) : q \in {s \in Paths : MovedInVault(f, p, s)}}
    BY <1>1, Zenon DEF MovesOf
  <2>2. PICK q \in Paths : \/ MovedInDrive(f, p, q) /\ o = Follow(f, p, q)
                           \/ MovedInVault(f, p, q) /\ o = Lead(f, p, q)
    BY <2>1, Zenon
  <2>3. o.kind \in Moves /\ o.source = p
    BY <2>2 DEF Follow, Lead, Operation, Moves
  <2>4. CASE o.kind = "move-remote"
    <3>1. ~LocalHere(f, p)
      BY <2>2, <2>4 DEF Follow, Operation, MovedInVault, Gone
    <3>2. InVault(d, p) = {}
      BY <1>0, <3>1, FactsTyped DEF f, LocalHere, InVault
    <3> QED
      BY <1>0, <2>3, <2>4, <3>2 DEF Founded, Noticed, Uploads, Replacing, Downloads
  <2> QED
    BY <2>3, <2>4 DEF Founded, Moves, Uploads, Replacing, Downloads
<1>2. CASE o \notin MovesOf(f)
  <2>1. PICK p \in Paths : o = Decided(f, p, Verdict(f, p))
    BY <1>2 DEF Plan
  <2>2. /\ o.kind = Verdict(f, p) /\ o.path = p /\ o.source = p /\ o.mine = f.local[p]
        /\ o.theirs = ObjectContent(f, p)
    BY <2>1 DEF Decided, Operation
  <2>3. f.local[p] = local[d][p] /\ f.base[p] = base[d][p]
    BY <1>0, FactsTyped
  <2>n. RemoteHere(f, p) => o.id \in Ids /\ Brought(o.id) /\ drive[o.id].content = o.theirs
    BY <1>0, <2>1, DecidedNames DEF Decided
  <2>4. o.kind \notin Moves
    BY <2>2, VerdictIsFounded DEF Decisions, Moves, Uploads, Replacing, Downloads
  <2>t. RemoteHere(f, p) => o.theirs = Object(f, p).content
    BY <2>2 DEF ObjectContent
  <2> HIDE DEF f
  <2>v. /\ o.kind \in Replacing \cup Downloads \cup {"trash-remote", "adopt"} => RemoteHere(f, p)
        /\ o.kind \in Uploads => LocalHere(f, p)
    <3>1. /\ Verdict(f, p) \in Downloads \cup {"adopt", "clean-text-merge"} => RemoteHere(f, p)
          /\ Verdict(f, p) \in Uploads => LocalHere(f, p)
      BY VerdictIsFounded
    <3>2. Verdict(f, p) \in Replacing \cup {"trash-remote"} => RemoteHere(f, p)
      BY DecisionIsFounded
    <3> QED
      BY <2>2, <3>1, <3>2
  <2>w. /\ o.kind \in {"upload-update", "trash-remote"} =>
              f.base[p] # None /\ o.theirs = f.base[p].content
        /\ o.kind = "trash-remote" => ~LocalHere(f, p)
        /\ o.kind = "adopt" => o.mine = o.theirs
    <3>1. /\ Verdict(f, p) \in {"upload-update", "trash-remote"} =>
                 f.base[p] # None /\ Object(f, p).content = f.base[p].content
          /\ Verdict(f, p) = "trash-remote" => ~LocalHere(f, p)
          /\ Verdict(f, p) = "adopt" => f.local[p] = Object(f, p).content
      BY DecisionIsFounded
    <3> QED
      BY <2>2, <2>v, <2>t, <3>1 DEF Replacing
  <2>5. o.kind \in Uploads \cup {"adopt"} => \A x \in o.mine : x \in InVault(d, p)
    <3>1. o.kind \in Uploads => o.mine # Absent
      BY <2>2, <2>v DEF LocalHere
    <3>2. o.kind = "adopt" => o.mine # Absent
      <4>1. o.kind = "adopt" => RemoteHere(f, p) /\ o.mine = Object(f, p).content
        BY <2>t, <2>v, <2>w
      <4> QED
        BY <1>0, <4>1, ObjectTyped, AbsenceAssumption DEF f, Contents
    <3> QED
      BY <2>2, <2>3, <3>1, <3>2 DEF InVault
  <2>6. o.kind \in Replacing => \A x \in o.theirs : x \in Result(o) \/ Spent(x)
    <3>1. CASE o.kind = "upload-update"
      <4>1. base[d][p] # None /\ o.theirs = base[d][p].content
        BY <2>3, <2>w, <3>1
      <4>2. \A x \in InVault(d, p) : x \in Result(o)
        BY <2>2, <2>3, <3>1 DEF InVault, Result
      <4> QED
        BY <1>0, <4>1, <4>2 DEF Noticed
    <3>2. CASE o.kind = "clean-text-merge"
      BY <3>2 DEF Result
    <3> QED
      BY <3>1, <3>2 DEF Replacing
  <2>7. o.kind = "trash-remote" => \A x \in o.theirs : Spent(x)
    <3> SUFFICES ASSUME o.kind = "trash-remote" PROVE \A x \in o.theirs : Spent(x)
      OBVIOUS
    <3>1. base[d][p] # None /\ o.theirs = base[d][p].content /\ local[d][p] = Absent
      BY <2>3, <2>w DEF LocalHere
    <3> QED
      BY <1>0, <3>1 DEF Noticed, InVault
  <2> QED
    BY <2>2, <2>n, <2>v, <2>w, <2>4, <2>5, <2>6, <2>7 DEF Founded, Moves
<1> QED
  BY <1>1, <1>2

(* What a user decided: the rest of the version that goes is given up, or  *)
(* is kept as a copy.                                                      *)
LEMMA ResolvedIsFounded ==
    ASSUME Placed, NEW d \in Devices, NEW p \in Paths, NEW choice \in Resolutions,
           NEW operations \in Resolving(d, Facts(d), p, choice),
           Decides(d, p, choice, operations), NEW o \in operations
    PROVE  Founded(d, o)'
<1> DEFINE f == Facts(d)
<1>0. /\ ReconInv /\ ReconciliationTypeOK /\ p \in Conflicts(f)
      /\ UNCHANGED <<drive, local, base>>
      /\ given' = given \cup DecidedAgainst(f, p, choice)
      /\ plan' = [plan EXCEPT ![d] = operations]
      /\ f.local[p] = local[d][p]
  BY FactsTyped DEF Placed, KeptInv, ReconInv, Decides, Resolve, knowledge
<1>1. LocalHere(f, p) \/ RemoteHere(f, p)
  BY <1>0, VerdictIsFounded DEF Conflicts
<1>p. plan'[d] = operations
  BY <1>0 DEF ReconciliationTypeOK
<1>k. ASSUME NEW q \in Paths, NEW kind, NEW mine, RemoteHere(f, p),
             o = Operation(kind, q, p, ObjectId(f, p), mine, ObjectContent(f, p))
      PROVE  o.id \in Live(p) /\ o.id \in Ids /\ Brought(o.id)' /\ drive'[o.id].content = o.theirs
  BY <1>0, <1>k, DecidedNames DEF Brought
<1>u. ASSUME LocalHere(f, p), NEW kind, kind \in {"upload-create", "upload-update"},
             o = Decided(f, p, kind)
      PROVE  /\ o.kind = kind /\ o.path = p /\ o.source = p
             /\ o.mine = f.local[p] /\ o.theirs = ObjectContent(f, p) /\ Result(o) = o.mine
             /\ \A x \in o.mine : x \in InVault(d, o.path)'
  <2>1. o.kind = kind /\ o.path = p /\ o.source = p /\ o.mine = f.local[p] /\ o.theirs = ObjectContent(f, p)
    BY <1>u DEF Decided, Operation
  <2> QED
    BY <1>0, <1>u, <2>1 DEF Result, InVault, LocalHere
<1> HIDE DEF f
<1>2. operations \in Resolving(d, f, p, choice)
  BY DEF f
<1>3. CASE LocalHere(f, p) /\ RemoteHere(f, p) /\ choice = "keep-local"
  <2>1. o = Decided(f, p, "upload-update")
    BY <1>2, <1>3 DEF Resolving
  <2>2. \A x \in o.theirs : x \in Result(o) \/ x \in given'
    BY <1>0, <1>3, <1>u, <2>1 DEF DecidedAgainst, ObjectContent
  <2>3. o.id \in Ids /\ Brought(o.id)' /\ drive'[o.id].content = o.theirs
    BY <1>3, <1>k, <2>1 DEF Decided
  <2> QED
    BY <1>3, <1>u, <2>1, <2>2, <2>3 DEF Founded, Spent, Result, Downloads
<1>4. CASE RemoteHere(f, p) /\ \E kind \in Downloads : o = Decided(f, p, kind)
  <2>1. o.kind \in Downloads /\ o.source = o.path
    BY <1>4 DEF Decided, Operation
  <2>2. o.id \in Ids /\ Brought(o.id)' /\ drive'[o.id].content = o.theirs
    BY <1>4, <1>k DEF Decided
  <2> QED
    BY <2>1, <2>2 DEF Founded, Uploads, Replacing, Downloads
<1>5. CASE LocalHere(f, p) /\ RemoteHere(f, p) /\ choice = "keep-both"
  <2>1. operations \in
          {{Operation("download-create", q, p, ObjectId(f, p), Absent, ObjectContent(f, p)),
            Decided(f, p, "upload-update")} : q \in {s \in Paths : local[d][s] = Absent}}
    BY <1>2, <1>5 DEF Resolving
  <2>2. PICK q \in {s \in Paths : local[d][s] = Absent} : operations =
          {Operation("download-create", q, p, ObjectId(f, p), Absent, ObjectContent(f, p)),
           Decided(f, p, "upload-update")}
    BY <2>1
  <2> DEFINE copy == Operation("download-create", q, p, ObjectId(f, p), Absent, ObjectContent(f, p))
  <2>3. CASE o = copy
    <3>1. o.kind = "download-create" /\ o.mine = Absent
      BY <2>3 DEF Operation
    <3>2. o.id \in Ids /\ Brought(o.id)' /\ drive'[o.id].content = o.theirs
      BY <1>5, <1>k, <2>3
    <3> QED
      BY <3>1, <3>2 DEF Founded, Uploads, Replacing, Downloads
  <2>4. CASE o = Decided(f, p, "upload-update")
    <3>1. o.id \in Live(p) /\ o.id \in Ids /\ Brought(o.id)' /\ drive'[o.id].content = o.theirs
      BY <1>5, <1>k, <2>4 DEF Decided
    <3>2. ASSUME NEW x \in o.theirs PROVE FALSE
      <4>1. x \in Edits
        BY <1>0, <3>1, <3>2, EditsTyped
      <4>2. Where(x, p)'
        BY <1>0, <3>1, <3>2 DEF Where, Live
      <4>3. copy \in InHand(d)'
        BY <1>p, <2>2 DEF InHand
      <4>4. copy.kind \in Recording /\ copy.path = q /\ x \in Recorded(copy)
        BY <1>5, <1>u, <2>4, <3>2
           DEF Operation, Recording, Recorded, Uploads, Replacing, Downloads
      <4>5. Where(x, q)'
        BY <4>3, <4>4 DEF Where, Recorded, Result
      <4>6. q # p
        BY <1>0, <1>5, <2>2 DEF LocalHere
      <4> QED
        BY <4>1, <4>2, <4>5, <4>6, OnePathThen DEF Placed
    <3> QED
      BY <1>5, <1>u, <2>4, <3>1, <3>2 DEF Founded, Downloads
  <2> QED
    BY <2>2, <2>3, <2>4
<1>6. CASE LocalHere(f, p) /\ ~RemoteHere(f, p)
  <2>1. o = Decided(f, p, "upload-create")
    BY <1>2, <1>6 DEF Resolving
  <2> QED
    BY <1>6, <1>u, <2>1 DEF Founded, Replacing, Downloads
<1>7. CASE ~LocalHere(f, p) /\ RemoteHere(f, p)
  <2>1. o = Decided(f, p, "download-create")
    BY <1>2, <1>7 DEF Resolving
  <2> QED
    BY <1>4, <1>7, <2>1 DEF Downloads
<1>8. CASE LocalHere(f, p) /\ RemoteHere(f, p) /\ choice = "keep-remote"
  <2>1. o = Decided(f, p, "download-update")
    BY <1>2, <1>8 DEF Resolving
  <2> QED
    BY <1>4, <1>8, <2>1 DEF Downloads
<1> QED
  BY <1>1, <1>3, <1>5, <1>6, <1>7, <1>8 DEF Resolutions

LEMMA HandStaysFounded ==
    ASSUME Placed, NEW d \in Devices, Acting(d), NEW e \in Devices, NEW o \in InHand(e)'
    PROVE  Founded(e, o)'
<1>0. KeptInv /\ ReconInv
  BY DEF Placed, KeptInv
<1>1. CASE o \in InHand(e)
  BY <1>1, FoundedStays
<1>2. CASE e = d /\ Begin(d) /\ o \in Plan(Facts(d))
  <2>1. Founded(d, o)
    BY <1>0, <1>2, PlannedIsFounded
  <2>2. UNCHANGED <<drive, local, base, given, bin>>
    BY <1>2 DEF Begin, knowledge, ghosts
  <2> QED
    BY <1>2, <2>1, <2>2 DEF Founded, Spent, InVault, Brought, Result
<1>3. CASE e = d /\ \E p \in Paths, choice \in Resolutions :
                       \E operations \in Resolving(d, Facts(d), p, choice) :
                           Decides(d, p, choice, operations) /\ o \in operations
  BY <1>3, ResolvedIsFounded
<1> QED
  BY <1>0, <1>1, <1>2, <1>3, HandSteps

-----------------------------------------------------------------------------
(* An update and what it replaces                                          *)

(* What becomes of the objects that were brought, and which come.          *)
LEMMA StatusSteps ==
    ASSUME ReconInv, NEW d \in Devices, Orderly(d), Acting(d)
    PROVE  /\ \A i \in Ids : Brought(i)' /\ ~Brought(i) => Sends(d) /\ i = intent[d].new
           /\ \A i \in Ids : Brought(i) /\ drive'[i] # drive[i] =>
                  /\ Retire(d) \/ TrashRemote(d) \/ MoveRemote(d)
                  /\ i = intent[d].op.id
           /\ Sends(d) => /\ ~Brought(intent[d].new) /\ intent[d].new \in Ids
                          /\ drive'[intent[d].new].status = "live"
                          /\ drive'[intent[d].new].path = intent[d].op.path
           /\ Retire(d) \/ TrashRemote(d) \/ MoveRemote(d) =>
                  /\ Doing(d, NeedsIdentity) /\ intent[d].op.id \in Ids /\ intent' = intent
           /\ Retire(d) \/ TrashRemote(d) => drive'[intent[d].op.id].status = "trashed"
           /\ MoveRemote(d) => drive' = [drive EXCEPT ![intent[d].op.id].path = intent[d].op.path]
<1>0. /\ ReconInv /\ CandidateAt(d) /\ drive \in [Ids -> Objects] /\ Orderly(d)
  BY DEF ReconInv, ReconciliationTypeOK
<1>1. Sends(d) => /\ ~Brought(intent[d].new) /\ intent[d].new \in Ids
                  /\ drive' = [drive EXCEPT ![intent[d].new] =
                       [status |-> "live", path |-> intent[d].op.path,
                        content |-> Result(intent[d].op)]]
  BY <1>0 DEF Sends, Orderly, CandidateAt
<1>2. ASSUME Retire(d) \/ TrashRemote(d) \/ MoveRemote(d)
      PROVE  /\ Doing(d, NeedsIdentity) /\ intent[d].op.id \in Ids /\ intent' = intent
             /\ Brought(intent[d].op.id)
  BY <1>0, <1>2 DEF Retire, TrashRemote, MoveRemote, CandidateAt, Doing, Replacing,
     NeedsIdentity, Moves
<1>3. Retire(d) \/ TrashRemote(d) => drive' = [drive EXCEPT ![intent[d].op.id].status = "trashed"]
  BY DEF Retire, TrashRemote, Becomes
<1>4. MoveRemote(d) => drive' = [drive EXCEPT ![intent[d].op.id].path = intent[d].op.path]
  BY DEF MoveRemote
<1>5. CASE Quiet
  BY <1>0, <1>1, <1>2, <1>3, <1>4, <1>5 DEF Quiet, Objects
<1>6. CASE Sends(d)
  BY <1>0, <1>1, <1>2, <1>3, <1>4, <1>6 DEF Brought, Objects
<1>7. CASE Retire(d) \/ TrashRemote(d) \/ MoveRemote(d)
  BY <1>0, <1>1, <1>2, <1>3, <1>4, <1>7 DEF Brought, Objects
<1> QED
  BY <1>0, <1>5, <1>6, <1>7, AccountSteps

(* Who is about to touch an update has not seen it next to what it         *)
(* replaces.                                                               *)
LEMMA SucceededStays ==
    ASSUME Placed, NEW d \in Devices, Acting(d), NEW e \in Devices
    PROVE  Succeeded(e)'
<1>0. /\ KeptInv /\ ReconInv /\ ReconciliationTypeOK /\ Succeeded(e) /\ Orderly(d) /\ Lasting
      /\ CandidateAt(e) /\ Apart(d, e)
      /\ intent \in [Devices -> {None} \cup Intents] /\ drive \in [Ids -> Objects]
  BY AccountLasts DEF Placed, KeptInv, ReconInv, ReconciliationTypeOK
<1> SUFFICES ASSUME intent'[e] # None, intent'[e].op.kind \in Replacing, Brought(intent[e].new)'
             PROVE  \/ \A x \in drive'[intent'[e].op.id].content : Spent(x)'
                    \/ drive'[intent'[e].op.id].status = "trashed"
                    \/ /\ intent'[e].op.id # intent'[e].new
                       /\ intent'[e].op.id \in Live(intent[e].op.path)'
                       /\ intent'[e].new \in Live(intent[e].op.path)'
                       /\ \A c \in Devices : Doing(c, NeedsIdentity)' =>
                              intent'[c].op.id # intent'[e].new
  BY DEF Succeeded, Doing
<1>1. intent'[e] = intent[e]
  <2>1. CASE e # d
    BY <1>0, <2>1, OthersRest
  <2>2. CASE e = d /\ intent'[e] # intent[e]
    <3>1. drive'[intent'[d].new].status = "reserved"
      BY <1>0, <2>2, IntentSteps DEF Uploads
    <3> QED
      BY <2>2, <3>1 DEF Brought
  <2> QED
    BY <2>1, <2>2
<1> DEFINE o == intent[e].op
           i == intent[e].op.id
           n == intent[e].new
<1>2. /\ Doing(e, Replacing) /\ Doing(e, Uploads) /\ Doing(e, NeedsIdentity)
      /\ i \in Ids /\ Brought(i) /\ n \in Ids /\ o \in InHand(e)
      /\ o.kind \in Replacing /\ o.path \in Paths
  BY <1>0, <1>1, IntentTyped DEF CandidateAt, Doing, Uploads, NeedsIdentity, Replacing, InHand
<1>3. PICK k \in Ids : k = n /\ Brought(k)'
  BY <1>1, <1>2 DEF Brought
<1> DEFINE Spoiled == \A x \in drive'[i].content : Spent(x)'
           Apart2  == /\ i # n
                      /\ drive'[i].status = "live" /\ drive'[i].path = o.path
                      /\ drive'[n].status = "live" /\ drive'[n].path = o.path
                      /\ \A c \in Devices : Doing(c, NeedsIdentity)' => intent'[c].op.id # n
           Goal    == Spoiled \/ drive'[i].status = "trashed" \/ Apart2
<1> SUFFICES Goal
  BY <1>1, <1>2 DEF Live
<1> HIDE DEF Goal
<1>4. CASE ~Brought(n)
  <2>1. Sends(d) /\ n = intent[d].new
    BY <1>0, <1>2, <1>3, <1>4, StatusSteps
  <2>2. e = d
    BY <1>0, <1>2, <2>1 DEF Apart, Sends
  <2>3. /\ drive'[n].status = "live" /\ drive'[n].path = o.path /\ i # n
        /\ drive'[i] = drive[i] /\ i \in Live(o.path)
    BY <1>0, <1>2, <1>4, <2>1, <2>2 DEF Sends
  <2>4. ASSUME NEW c \in Devices, Doing(c, NeedsIdentity)' PROVE intent'[c].op.id # n
    <3>1. Doing(c, NeedsIdentity) /\ intent'[c].op.id = intent[c].op.id
      BY <2>1, <2>4 DEF Sends, Doing
    <3>2. Brought(intent[c].op.id)
      BY <1>0, <3>1 DEF ReconInv, CandidateAt
    <3> QED
      BY <1>4, <3>1, <3>2
  <2> QED
    BY <2>3, <2>4 DEF Goal, Live
<1>5. CASE Brought(n)
  <2>0. drive'[i].content = drive[i].content /\ drive'[n].content = drive[n].content
    BY <1>0, <1>2, <1>5 DEF Lasting
  <2>1. CASE \A x \in drive[i].content : Spent(x)
    BY <2>0, <2>1, SpentStays DEF Goal
  <2>2. CASE drive[i].status = "trashed"
    <3>1. CASE drive'[i] = drive[i]
      BY <2>2, <3>1 DEF Goal
    <3>2. CASE drive'[i] # drive[i]
      <4>1. (Retire(d) \/ TrashRemote(d) \/ MoveRemote(d)) /\ i = intent[d].op.id
        BY <1>0, <1>2, <3>2, StatusSteps
      <4>2. MoveRemote(d) => drive'[i].status = drive[i].status
        BY <1>0, <1>2, <4>1 DEF MoveRemote, Objects
      <4>3. Retire(d) \/ TrashRemote(d) => drive'[i].status = "trashed"
        BY <1>0, <4>1, StatusSteps
      <4> QED
        BY <2>2, <4>1, <4>2, <4>3 DEF Goal
    <3> QED
      BY <3>1, <3>2
  <2>3. CASE /\ i # n /\ i \in Live(o.path) /\ n \in Live(o.path)
             /\ \A c \in Devices : Doing(c, NeedsIdentity) => intent[c].op.id # n
    <3>1. drive'[n] = drive[n]
      BY <1>0, <1>2, <1>5, <2>3, StatusSteps
    <3>2. ASSUME NEW c \in Devices, Doing(c, NeedsIdentity)' PROVE intent'[c].op.id # n
      <4>1. CASE intent'[c] = intent[c]
        BY <2>3, <3>2, <4>1 DEF Doing
      <4>2. CASE intent'[c] # intent[c]
        <5>1. c = d /\ intent'[c] # None
          BY <1>0, <3>2, <4>2, OthersRest DEF Doing
        <5>2. PICK r \in plan[d] : Dispatch(d, r) /\ intent'[d].op = r
          BY <1>0, <4>2, <5>1, IntentSteps
        <5>3. r.kind \in NeedsIdentity
          BY <3>2, <5>1, <5>2 DEF Doing
        <5>4. StillThere(d, r) /\ Authorized(d, r) /\ r.kind # "adopt"
          BY <5>2, <5>3 DEF Dispatch, Ready, NeedsIdentity, Moves
        <5>5. r.id # None
          BY <5>3, <5>4 DEF Authorized, Converged, NeedsBase
        <5>6. Live(RemotePlace(r)) = {r.id}
          BY <5>4, <5>5 DEF StillThere
        <5> QED
          BY <2>3, <5>1, <5>2, <5>6 DEF Live
      <4> QED
        BY <4>1, <4>2
    <3>3. CASE drive'[i] = drive[i]
      BY <2>3, <3>1, <3>2, <3>3 DEF Goal, Live
    <3>4. CASE drive'[i] # drive[i]
      <4>1. (Retire(d) \/ TrashRemote(d) \/ MoveRemote(d)) /\ i = intent[d].op.id
        BY <1>0, <1>2, <3>4, StatusSteps
      <4>2. CASE Retire(d) \/ TrashRemote(d)
        BY <1>0, <4>1, <4>2, StatusSteps DEF Goal
      <4>3. CASE MoveRemote(d)
        <5>1. PICK q \in Paths : q = intent[d].op.path
          BY <1>0, <4>3, IntentTyped DEF MoveRemote, Doing
        <5>2. drive'[i].status = "live" /\ drive'[i].path = q
          BY <1>0, <1>2, <2>3, <4>1, <4>3, <5>1 DEF MoveRemote, Live, Objects
        <5>3. CASE q = o.path
          BY <2>3, <3>1, <3>2, <5>2, <5>3 DEF Goal, Live
        <5>4. CASE q # o.path
          <6> SUFFICES ASSUME NEW x \in drive[i].content PROVE Spent(x)
            BY <2>0, SpentStays DEF Goal
          <6>1. Founded(e, o)
            BY <1>0, <1>2 DEF KeptInv
          <6>2. x \in Result(o) \/ Spent(x)
            BY <1>2, <6>1 DEF Founded
          <6>3. CASE x \in Result(o)
            <7>1. x \in drive[n].content /\ x \in Edits
              BY <1>0, <1>2, <1>5, <6>3, EditsTyped DEF CandidateAt
            <7>2. PICK p \in Paths : p = o.path
              BY <1>2
            <7>3. Where(x, p)'
              BY <1>2, <2>3, <3>1, <7>1, <7>2 DEF Where, Live
            <7>4. Where(x, q)'
              BY <1>2, <2>0, <5>2 DEF Where, Live
            <7> QED
              BY <5>4, <7>1, <7>2, <7>3, <7>4, OnePathThen DEF Placed
          <6> QED
            BY <6>2, <6>3
        <5> QED
          BY <5>3, <5>4
      <4> QED
        BY <4>1, <4>2, <4>3
    <3> QED
      BY <3>3, <3>4
  <2> QED
    BY <1>0, <1>2, <1>5, <2>1, <2>2, <2>3 DEF Succeeded
<1> QED
  BY <1>4, <1>5

(* The account loses no edit that is not spent.                            *)
LEMMA SurvivingStays ==
    ASSUME Placed, NEW d \in Devices, Acting(d)
    PROVE  Surviving'
<1>0. /\ KeptInv /\ ReconInv /\ ReconciliationTypeOK /\ Surviving /\ Succeeded(d) /\ Orderly(d) /\ Lasting
      /\ CandidateAt(d)
      /\ intent \in [Devices -> {None} \cup Intents] /\ drive \in [Ids -> Objects]
  BY AccountLasts DEF Placed, KeptInv, ReconInv, ReconciliationTypeOK
<1> DEFINE i == intent[d].op.id
           n == intent[d].new
           o == intent[d].op
<1>1. ASSUME NEW j \in Ids, drive[j].status = "live", NEW x \in drive[j].content
      PROVE  Spent(x)' \/ Alive(x)'
  <2>0. drive'[j].content = drive[j].content
    BY <1>0, <1>1 DEF Lasting, Brought
  <2>1. CASE drive'[j].status = "live"
    BY <1>1, <2>0, <2>1 DEF Alive
  <2>2. CASE drive'[j].status # "live"
    <3>1. (Retire(d) \/ TrashRemote(d)) /\ j = i
      <4>1. (Retire(d) \/ TrashRemote(d) \/ MoveRemote(d)) /\ j = i
        BY <1>0, <1>1, <2>2, StatusSteps DEF Brought
      <4>2. MoveRemote(d) => drive'[j].status = drive[j].status
        BY <1>0, <4>1 DEF MoveRemote, Objects
      <4> QED
        BY <1>1, <2>2, <4>1, <4>2
    <3>2. o \in InHand(d) /\ intent[d] # None
      BY <3>1 DEF InHand, Retire, TrashRemote, Doing
    <3>3. Founded(d, o)
      BY <1>0, <3>2 DEF KeptInv
    <3>4. CASE TrashRemote(d)
      BY <1>1, <3>1, <3>3, <3>4, SpentStays DEF Founded, TrashRemote, Doing
    <3>5. CASE Retire(d)
      <4>1. Doing(d, Replacing) /\ Doing(d, Uploads) /\ Brought(n) /\ n \in Ids /\ step[d] = "checked"
        BY <1>0, <3>5 DEF Retire, CandidateAt, Doing, Uploads
      <4>2. x \in Result(o) \/ Spent(x)
        BY <1>1, <3>1, <3>3, <4>1 DEF Founded, Doing
      <4>3. CASE x \in Result(o)
        <5>1. x \in drive[n].content
          BY <1>0, <4>1, <4>3 DEF CandidateAt
        <5>2. (\A y \in drive[i].content : Spent(y)) \/ (i # n /\ drive[n].status = "live")
          BY <1>0, <1>1, <3>1, <4>1 DEF Succeeded, Live
        <5>3. CASE i # n /\ drive[n].status = "live"
          <6>1. drive'[n] = drive[n]
            BY <1>0, <3>5, <5>3 DEF Retire, Becomes
          <6> QED
            BY <4>1, <5>1, <5>3, <6>1 DEF Alive
        <5> QED
          BY <1>1, <3>1, <5>2, <5>3, SpentStays
      <4> QED
        BY <4>2, <4>3, SpentStays
    <3> QED
      BY <3>1, <3>4, <3>5
  <2> QED
    BY <2>1, <2>2
<1> HIDE DEF i, n, o
<1>2. ASSUME NEW j \in Ids, Brought(j)'
      PROVE  /\ drive'[j].path \in Paths
             /\ \A x \in drive'[j].content : Spent(x)' \/ Alive(x)'
  <2>1. CASE ~Brought(j)
    <3>1. Sends(d) /\ drive'[j].status = "live" /\ drive'[j].path = intent[d].op.path
      BY <1>0, <1>2, <2>1, StatusSteps
    <3> QED
      BY <1>0, <3>1, IntentTyped DEF Sends, Doing, Alive
  <2>2. CASE Brought(j)
    <3>1. drive'[j].path \in Paths
      <4>1. CASE drive'[j] = drive[j]
        BY <1>0, <2>2, <4>1 DEF Surviving
      <4>2. CASE drive'[j] # drive[j]
        <5>1. (Retire(d) \/ TrashRemote(d) \/ MoveRemote(d)) /\ j = intent[d].op.id
          BY <1>0, <2>2, <4>2, StatusSteps
        <5>2. MoveRemote(d) => drive'[j].path \in Paths
          BY <1>0, <5>1, IntentTyped DEF MoveRemote, Doing, Objects
        <5>3. Retire(d) \/ TrashRemote(d) => drive'[j].path = drive[j].path
          BY <1>0, <5>1 DEF Retire, TrashRemote, Becomes, Objects
        <5> QED
          BY <1>0, <2>2, <5>1, <5>2, <5>3 DEF Surviving
      <4> QED
        BY <4>1, <4>2
    <3>2. ASSUME NEW x \in drive'[j].content PROVE Spent(x)' \/ Alive(x)'
      <4>1. x \in drive[j].content
        BY <1>0, <2>2, <3>2 DEF Lasting
      <4>2. Spent(x) \/ Alive(x)
        BY <1>0, <2>2, <4>1 DEF Surviving
      <4> QED
        BY <1>1, <4>2, SpentStays DEF Alive
    <3> QED
      BY <3>1, <3>2
  <2> QED
    BY <2>1, <2>2
<1> QED
  BY <1>2 DEF Surviving, Brought

LEMMA KeptInit == Init => KeptInv
<1> SUFFICES ASSUME Init PROVE KeptInv
  OBVIOUS
<1>0. ReconInv
  BY InitOK
<1>1. ASSUME NEW d \in Devices
      PROVE  /\ Noticed(d) /\ Renewing(d) /\ Succeeded(d) /\ Orderly(d) /\ Merging(d)
             /\ \A o \in InHand(d) : Founded(d, o)
  <2>1. intent[d] = None /\ plan[d] = {} /\ step[d] = "idle"
    BY DEF Init
  <2>2. Noticed(d)
    <3> SUFFICES ASSUME NEW p \in Paths, base[d][p] # None, NEW x \in base[d][p].content
                 PROVE  x \in InVault(d, p)
      BY DEF Noticed
    <3>1. p \in Notes /\ base[d][p].content = Written[p] /\ local[d][p] = Written[p]
      BY DEF Init
    <3>2. local[d][p] # Absent
      BY <3>1, ReconciliationAssumption, AbsenceAssumption
    <3> QED
      BY <3>1, <3>2 DEF InVault
  <2> QED
    BY <2>1, <2>2 DEF Renewing, Succeeded, Orderly, Merging, Doing, InHand
<1>2. Surviving
  <2> SUFFICES ASSUME NEW i \in Ids, Brought(i)
               PROVE  /\ drive[i].path \in Paths
                      /\ \A x \in drive[i].content : Alive(x)
    BY DEF Surviving
  <2>1. i \in Notes /\ drive[i].status = "live" /\ drive[i].path = i
    BY DEF Init, Brought
  <2> QED
    BY <2>1, ReconciliationAssumption DEF Alive
<1> QED
  BY <1>0, <1>1, <1>2 DEF KeptInv

LEMMA KeptStep == KeptInv /\ OnePath /\ OnePath' /\ [Next]_vars => KeptInv'
<1> SUFFICES ASSUME KeptInv, OnePath, OnePath', [Next]_vars PROVE KeptInv'
  OBVIOUS
<1>0. ReconInv'
  BY StepOK DEF KeptInv
<1>1. CASE UNCHANGED vars
  <2>1. UNCHANGED <<drive, local, base, mapping, intent, plan, skipped, step,
                    fresh, given, bin, acts, crashes>>
    BY <1>1 DEF vars, knowledge, pass, ghosts, bounds
  <2>2. ASSUME NEW d \in Devices
        PROVE  /\ Noticed(d)' /\ Renewing(d)' /\ Succeeded(d)' /\ Orderly(d)' /\ Merging(d)'
               /\ \A o \in InHand(d)' : Founded(d, o)'
    <3>1. Noticed(d) /\ Renewing(d) /\ Succeeded(d) /\ Orderly(d) /\ Merging(d)
      BY DEF KeptInv
    <3>2. Noticed(d)' /\ Renewing(d)'
      BY <2>1, <3>1 DEF Noticed, Renewing, Spent, InVault, Doing
    <3>3. Succeeded(d)'
      BY <2>1, <3>1 DEF Succeeded, Spent, Doing, Brought, Live
    <3>4. Orderly(d)'
      BY <2>1, <3>1 DEF Orderly, Doing, Brought
    <3>6. Merging(d)'
      BY <2>1, <3>1 DEF Merging, Spent, InVault, Doing, Result
    <3>5. ASSUME NEW o \in InHand(d)' PROVE Founded(d, o)'
      <4>1. o \in InHand(d)
        BY <2>1, <3>5 DEF InHand
      <4> QED
        BY <2>1, <4>1 DEF KeptInv, Founded, Spent, InVault, Brought, Result
    <3> QED
      BY <3>2, <3>3, <3>4, <3>5, <3>6
  <2>3. Surviving'
    BY <2>1 DEF KeptInv, Surviving, Spent, Alive, Brought
  <2> QED
    BY <1>0, <2>2, <2>3 DEF KeptInv
<1>2. CASE Next
  <2>1. PICK d \in Devices : Acting(d)
    BY <1>2 DEF Next, Acting
  <2>2. Placed
    BY <1>0 DEF Placed
  <2>3. ASSUME NEW e \in Devices
        PROVE  /\ Noticed(e)' /\ Renewing(e)' /\ Succeeded(e)' /\ Orderly(e)' /\ Merging(e)'
               /\ \A o \in InHand(e)' : Founded(e, o)'
    <3>1. Orderly(e)'
      BY <2>1, OrderlyStays DEF KeptInv
    <3> QED
      BY <2>1, <2>2, <3>1, NoticedStays, RenewingStays, SucceededStays,
         MergingStays, HandStaysFounded
  <2>4. Surviving'
    BY <2>1, <2>2, SurvivingStays
  <2> QED
    BY <1>0, <2>3, <2>4 DEF KeptInv
<1> QED
  BY <1>1, <1>2

(* As long as no edit is known under two paths, an edit that nobody gave   *)
(* up is in a vault, in a live object of the account or in the trash of a  *)
(* vault, although devices replace, trash and move one another's objects   *)
(* (commitReplace, finalizeVerifiedUpdateCandidate, trashExisting).  Where *)
(* notes are carried back and forth this fails.                            *)
THEOREM EditsStay == Spec => EditsStayInPlace
<1>1. KeptInv /\ EditsRecoverable => EditsKept
  <2> SUFFICES ASSUME KeptInv, EditsRecoverable, NEW x \in Writing, x \notin InVaults, x \notin bin
               PROVE  x \in InAccount
    BY DEF EditsKept
  <2>1. x \in InObjects /\ x \notin given
    BY DEF EditsRecoverable, Writing
  <2>2. PICK i \in Ids : Brought(i) /\ x \in drive[i].content
    BY <2>1 DEF InObjects, Brought
  <2>3. Alive(x)
    BY <2>1, <2>2 DEF KeptInv, Surviving, Spent
  <2> QED
    BY <2>3 DEF Alive, InAccount
<1> QED
  BY <1>1, KeptInit, KeptStep, NoEditVanishes, PTL DEF Spec, EditsStayInPlace

-----------------------------------------------------------------------------
(* Where nobody renames and every conflict is left to wait, no edit comes  *)
(* under a second path, whatever the devices do.                           *)

(* An object that has come to the account at a path and has stayed there.  *)
HasHome(i, p) == i \in Ids /\ Brought(i) /\ drive[i].path = p

(* All that is known of a path.                                            *)
Seen(x, p) ==
    \/ \E d \in Devices :
          \/ x \in InVault(d, p)
          \/ base[d][p] # None /\ x \in base[d][p].content
          \/ \E o \in InHand(d) : /\ o.path = p
                                  /\ (o.mine # Absent /\ x \in o.mine)
                                        \/ (o.theirs # Absent /\ x \in o.theirs)
    \/ \E i \in Ids : HasHome(i, p) /\ x \in drive[i].content

(* An operation about one note that has a content.                         *)
Homely(o) ==
    /\ o.kind \notin Moves /\ o.source = o.path
    /\ o.mine # {} /\ o.theirs # {}
    /\ o.id # None => HasHome(o.id, o.path)

Homes(d) ==
    /\ \A o \in InHand(d) : Homely(o)
    /\ intent[d] # None /\ intent[d].op.kind \notin Uploads => intent[d].new = intent[d].op.id
    /\ \A p \in Paths :
          /\ base[d][p] # None => /\ base[d][p].content # {}
                                  /\ base[d][p].id # None => HasHome(base[d][p].id, p)
          /\ mapping[d][p] # None => HasHome(mapping[d][p], p)
          /\ local[d][p] # {}

StillInv ==
    /\ ReconInv
    /\ \A d \in Devices : Homes(d) /\ Orderly(d)
    /\ \A i \in Ids : Brought(i) => drive[i].content # {}
    /\ \A x \in Edits : \A p, q \in Paths : Seen(x, p) /\ Seen(x, q) => p = q
    /\ \A x \in fresh : \A p \in Paths : ~Seen(x, p)

(* The notes of the start share nothing, and nobody renames one or decides *)
(* a conflict.                                                             *)
NotesStay ==
    /\ Actions \subseteq {"write", "delete"}
    /\ \A p \in Notes : Written[p] # {}
    /\ \A p, q \in Notes : p # q => Written[p] \cap Written[q] = {}

LEMMA HomelyHand ==
    ASSUME StillInv, NEW d \in Devices
    PROVE  /\ \A o \in InHand(d) : /\ Homely(o) /\ o \in Operations /\ Sound(o)
                                   /\ o.path \in Paths /\ o.source = o.path
           /\ intent[d] # None => intent[d].op \in InHand(d)
           /\ ~Doing(d, Moves)
<1>0. ReconInv /\ Homes(d) /\ BackedAt(d)
  BY DEF StillInv, ReconInv
<1>1. ASSUME NEW o \in InHand(d)
      PROVE  Homely(o) /\ o \in Operations /\ Sound(o) /\ o.path \in Paths /\ o.source = o.path
  BY <1>0, <1>1, HandTyped DEF Homes, Homely, BackedAt
<1>2. intent[d] # None => intent[d].op \in InHand(d)
  BY DEF InHand
<1> QED
  BY <1>1, <1>2 DEF Homely, Doing

LEMMA HomeStays ==
    ASSUME StillInv, NEW d \in Devices, Acting(d), NEW i, NEW p, HasHome(i, p)
    PROVE  HasHome(i, p)'
<1>0. ReconInv /\ Orderly(d) /\ Lasting /\ ~Doing(d, Moves)
  BY AccountLasts, HomelyHand DEF StillInv
<1>1. i \in Ids /\ Brought(i) /\ Brought(i)'
  BY <1>0 DEF HasHome, Lasting
<1>2. CASE drive'[i] = drive[i]
  BY <1>1, <1>2 DEF HasHome
<1>3. CASE drive'[i] # drive[i]
  <2>1. (Retire(d) \/ TrashRemote(d)) /\ i = intent[d].op.id
    BY <1>0, <1>1, <1>3, StatusSteps DEF MoveRemote, Doing, Moves
  <2>2. drive' = [drive EXCEPT ![i].status = "trashed"]
    BY <2>1 DEF Retire, TrashRemote, Becomes
  <2> QED
    BY <1>0, <1>1, <2>2 DEF HasHome, ReconInv, ReconciliationTypeOK, Objects
<1> QED
  BY <1>2, <1>3

(* The planner proposes nothing but what is seen of a path, for that path. *)
LEMMA PlannedIsHomely ==
    ASSUME StillInv, NEW d \in Devices, NEW o \in Plan(Facts(d))
    PROVE  /\ Homely(o) /\ o.path \in Paths
           /\ \A x : (o.mine # Absent /\ x \in o.mine) \/ (o.theirs # Absent /\ x \in o.theirs)
                         => Seen(x, o.path)
<1> DEFINE f == Facts(d)
<1>0. ReconInv /\ ReconciliationTypeOK /\ Homes(d)
  BY DEF StillInv, ReconInv
<1>1. ASSUME NEW p \in Paths, NEW q \in Paths, MovedInDrive(f, p, q) PROVE FALSE
  <2>1. base[d][p] # None /\ base[d][p].id # None /\ f.base[p] = base[d][p]
    BY <1>0, <1>1, FactsTyped DEF MovedInDrive, Shared
  <2>2. q # p /\ RemoteHere(f, q) /\ Object(f, q).id = base[d][p].id
    BY <1>1, <2>1 DEF MovedInDrive, Candidates
  <2>3. PICK i \in Live(q) : Object(f, q) = [id |-> i, content |-> drive[i].content]
    BY <1>0, <2>2, ObjectIsLive
  <2> QED
    BY <1>0, <2>1, <2>2, <2>3 DEF Homes, HasHome, Live
<1>2. ASSUME NEW p \in Paths, NEW q \in Paths, MovedInVault(f, p, q) PROVE FALSE
  <2>1. base[d][p] # None /\ f.base[p] = base[d][p] /\ f.local[q] = local[d][q]
    BY <1>0, <1>2, FactsTyped DEF MovedInVault, Gone, Shared
  <2>2. q # p /\ local[d][q] = base[d][p].content
    BY <1>2, <2>1 DEF MovedInVault, Matches
  <2>3. base[d][p].content \in Contents /\ base[d][p].content # {}
    BY <1>0, <2>1, FactsTyped DEF Homes
  <2>4. PICK x \in base[d][p].content : x \in Edits
    BY <2>3 DEF Contents
  <2>5. x \in InVault(d, q)
    BY <2>2, <2>3, <2>4, AbsenceAssumption DEF InVault, Contents
  <2>6. Seen(x, p) /\ Seen(x, q)
    BY <2>1, <2>4, <2>5 DEF Seen
  <2> QED
    BY <2>2, <2>4, <2>6 DEF StillInv
<1>3. o \notin MovesOf(f)
  <2> SUFFICES ASSUME o \in MovesOf(f) PROVE FALSE
    OBVIOUS
  <2> HIDE DEF f
  <2>1. PICK p \in Paths :
          o \in {Follow(f, p, q) : q \in {s \in Paths : MovedInDrive(f, p, s)}} \cup
                {Lead(f, p, q) : q \in {s \in Paths : MovedInVault(f, p, s)}}
    BY Zenon DEF MovesOf
  <2> QED
    BY <1>1, <1>2, <2>1, Zenon DEF f
<1>4. PICK p \in Paths : o = Decided(f, p, Verdict(f, p))
  BY <1>3 DEF Plan
<1>5. /\ o.kind = Verdict(f, p) /\ o.path = p /\ o.source = p /\ o.mine = local[d][p]
      /\ o.id = ObjectId(f, p) /\ o.theirs = ObjectContent(f, p)
  BY <1>0, <1>4, FactsTyped DEF Decided, Operation
<1>6. o.kind \notin Moves
  BY <1>5, VerdictIsFounded DEF Decisions, Moves, Uploads, Replacing, Downloads
<1>7. CASE RemoteHere(f, p)
  <2>1. o.id \in Live(p) /\ o.id \in Ids /\ Brought(o.id) /\ drive[o.id].content = o.theirs
    BY <1>0, <1>4, <1>7, DecidedNames DEF Decided
  <2>2. HasHome(o.id, p) /\ o.theirs # {}
    BY <2>1 DEF HasHome, Live, StillInv
  <2>3. \A x \in o.theirs : Seen(x, p)
    BY <2>1, <2>2 DEF Seen
  <2> QED
    BY <1>0, <1>5, <1>6, <2>2, <2>3 DEF Homely, Homes, Seen, InVault
<1>8. CASE ~RemoteHere(f, p)
  <2>1. o.id = None /\ o.theirs = Absent
    BY <1>5, <1>8 DEF ObjectId, ObjectContent
  <2>2. Absent # {}
    BY AbsenceAssumption
  <2> QED
    BY <1>0, <1>5, <1>6, <2>1, <2>2 DEF Homely, Homes, Seen, InVault
<1> QED
  BY <1>7, <1>8

(* What is in hand was, or is planned now.                                 *)
LEMMA HandIsHomely ==
    ASSUME StillInv, NotesStay, NEW d \in Devices, Acting(d), NEW e \in Devices,
           NEW o \in InHand(e)'
    PROVE  /\ Homely(o)' /\ o.path \in Paths
           /\ \A x : (o.mine # Absent /\ x \in o.mine) \/ (o.theirs # Absent /\ x \in o.theirs)
                         => Seen(x, o.path)
<1>1. ReconInv
  BY DEF StillInv
<1>2. ~(\E p \in Paths, choice \in Resolutions : Resolve(d, p, choice))
  BY DEF NotesStay, Resolve, Acts
<1>3. CASE o \in InHand(e)
  <2>1. Homely(o) /\ o.path \in Paths
    BY <1>3, HomelyHand
  <2>2. Homely(o)'
    BY <2>1, HomeStays DEF Homely
  <2> QED
    BY <1>3, <2>1, <2>2 DEF Seen
<1>4. CASE o \in Plan(Facts(d))
  <2>1. Homely(o) /\ o.path \in Paths
    BY <1>4, PlannedIsHomely
  <2>2. Homely(o)'
    BY <2>1, HomeStays DEF Homely
  <2> QED
    BY <1>4, <2>1, <2>2, PlannedIsHomely
<1> QED
  BY <1>1, <1>2, <1>3, <1>4, HandSteps DEF Decides

(* A commit writes what is seen of a path, and an object that is there.    *)
LEMMA CommitIsHomely ==
    ASSUME StillInv, NEW d \in Devices, NEW o \in Operations, Homely(o), Sound(o), NEW i,
           o.kind \in Recording /\ i # None => HasHome(i, o.path),
           Commit(d, o, i), NEW p \in Paths
    PROVE  /\ base'[d][p] # None =>
                 /\ base'[d][p].content # {}
                 /\ base'[d][p].id # None => HasHome(base'[d][p].id, p)
                 /\ \/ base'[d][p] = base[d][p]
                    \/ p = o.path /\ o.kind \in Recording /\ base'[d][p].content = Recorded(o)
           /\ mapping'[d][p] # None => HasHome(mapping'[d][p], p)
           /\ \A e \in Devices \ {d} : base'[e] = base[e] /\ mapping'[e] = mapping[e]
<1>0. /\ ReconInv /\ Homes(d) /\ o.path \in Paths /\ o.source = o.path
      /\ base \in [Devices -> [Paths -> {None} \cup [content : Contents, id : {None} \cup Ids]]]
      /\ mapping \in [Devices -> [Paths -> {None} \cup Ids]]
  BY DEF StillInv, ReconInv, ReconciliationTypeOK, Homely, Operations
<1>1. o.kind \notin Moves /\ ~Early(o)
  BY <1>0 DEF Homely, Early
<1>2. o.kind \in Recording => Recorded(o) # {}
  BY DEF Homely, Recorded, Recording, Result, Uploads, Replacing, Sound, Contents
<1>3. ASSUME o.kind \in Recording, CommitVersion(d, o, i, Recorded(o))
      PROVE  /\ base'[d][o.path] = [content |-> Recorded(o), id |-> i]
             /\ \A q \in Paths \ {o.path} : base'[d][q] = base[d][q]
             /\ mapping'[d][o.path] = i
             /\ \A q \in Paths \ {o.path} : mapping'[d][q] \in {None, mapping[d][q]}
             /\ \A e \in Devices \ {d} : base'[e] = base[e] /\ mapping'[e] = mapping[e]
  BY <1>0, <1>3 DEF CommitVersion, Known, Maps
<1>4. CASE o.kind \in Recording /\ CommitVersion(d, o, i, Recorded(o))
  BY <1>0, <1>2, <1>3, <1>4 DEF Homes
<1>5. CASE CommitAbsence(d, o)
  <2>1. /\ base'[d][o.path] = None
        /\ \A q \in Paths \ {o.path} : base'[d][q] = base[d][q]
        /\ mapping'[d][o.path] = None
        /\ \A q \in Paths \ {o.path} : mapping'[d][q] = mapping[d][q]
        /\ \A e \in Devices \ {d} : base'[e] = base[e] /\ mapping'[e] = mapping[e]
    BY <1>0, <1>5 DEF CommitAbsence, Known
  <2> QED
    BY <1>0, <2>1 DEF Homes
<1>6. CASE o.kind \in Replacing \cup {"upload-create"} /\ CommitVersion(d, o, i, Result(o))
  BY <1>4, <1>6 DEF Recording, Recorded, Uploads
<1>7. CASE o.kind \in Downloads \cup {"adopt"} /\ CommitVersion(d, o, i, o.theirs)
  BY <1>4, <1>7 DEF Recording, Recorded, Uploads, Replacing, Downloads
<1> QED
  BY <1>1, <1>5, <1>6, <1>7 DEF Commit

LEMMA IdentityIsSeen ==
    ASSUME NEW d \in Devices, intent[d].op.kind \in Downloads, NEW i, i \in Identity(d)
    PROVE  \/ i \in Live(intent[d].op.path)
           \/ i = mapping[d][intent[d].op.path] /\ i # None
<1> DEFINE o == intent[d].op
<1>1. CASE \E j, k \in Live(o.path) : j # k
  BY <1>1 DEF Identity, Uploads, Replacing, Downloads
<1>2. CASE ~(\E j, k \in Live(o.path) : j # k) /\ Live(o.path) = {}
  BY <1>2 DEF Identity, Uploads, Replacing, Downloads
<1>3. CASE ~(\E j, k \in Live(o.path) : j # k) /\ Live(o.path) # {}
  BY <1>3 DEF Identity, Uploads, Replacing, Downloads
<1> QED
  BY <1>1, <1>2, <1>3

LEMMA CommitsAreHomely ==
    ASSUME StillInv, NEW d \in Devices, Acting(d)
    PROVE  \/ UNCHANGED knowledge
           \/ \E o \in InHand(d), s \in Operations : \E i :
                 /\ Commit(d, s, i) /\ Homely(s) /\ Sound(s)
                 /\ s.kind = o.kind /\ s.path = o.path /\ s.mine = o.mine /\ s.theirs = o.theirs
                 /\ s.kind \in Recording /\ i # None => HasHome(i, s.path)
<1>0. ReconInv /\ ReconciliationTypeOK /\ Homes(d) /\ ~Doing(d, Moves)
  BY HomelyHand DEF StillInv, ReconInv
<1>1. ASSUME NEW o \in plan[d], Note(d, o)
      PROVE  \E i : /\ o \in InHand(d) /\ Commit(d, o, i)
                    /\ i # None => HasHome(i, o.path)
  <2>1. o \in InHand(d)
    BY DEF InHand
  <2> QED
    BY <1>1, <2>1, HomelyHand DEF Note, Homely
<1>2. ASSUME intent[d] # None, NEW p, NEW i, Live(p) = {i}
      PROVE  HasHome(i, p)
  BY <1>2 DEF Live, HasHome, Brought
<1>3. CASE Complete(d) /\ Verified(d)
  <2> DEFINE o == intent[d].op
             n == intent[d].new
  <2>1. Commit(d, o, n) /\ step[d] = "applied"
    BY <1>3 DEF Complete
  <2>2. intent[d] # None
    BY <1>0, <2>1 DEF ReconInv, Underway
  <2>3. o \in InHand(d) /\ Homely(o) /\ Sound(o) /\ o \in Operations /\ o.kind \notin Moves
    BY <1>0, <2>2, HomelyHand DEF Doing
  <2>4. o.kind \in Uploads => HasHome(n, o.path)
    BY <1>2, <1>3, <2>2 DEF Verified, Visible, Uploads, Replacing, Downloads
  <2>5. o.kind \notin Uploads /\ n # None => HasHome(n, o.path)
    BY <1>0, <2>2, <2>3 DEF Homes, Homely
  <2> QED
    BY <2>1, <2>3, <2>4, <2>5
<1>4. CASE RecoverCommit(d)
  <2> DEFINE o == intent[d].op
             s == Rebuilt(o)
  <2>1. intent[d] # None /\ Observed(d)
    BY <1>4 DEF RecoverCommit
  <2>2. PICK i \in Identity(d) : Commit(d, s, i)
    BY <1>4 DEF RecoverCommit
  <2>3. o \in InHand(d) /\ Homely(o) /\ Sound(o) /\ o \in Operations /\ o.kind \notin Moves
    BY <1>0, <2>1, HomelyHand DEF Doing
  <2>4. /\ s \in Operations /\ s.kind = o.kind /\ s.path = o.path /\ s.source = o.source
        /\ s.mine = o.mine /\ s.theirs = o.theirs /\ s.id = o.id
    BY <2>3 DEF Rebuilt, Operations, Homely
  <2>5. Homely(s) /\ Sound(s)
    BY <2>3, <2>4 DEF Homely, Sound
  <2>6. CASE o.kind \in Uploads
    <3>1. i = intent[d].new /\ i \in Live(o.path)
      BY <2>1, <2>2, <2>6 DEF Identity, Observed, Visible, Uploads, Replacing, Downloads
    <3>2. HasHome(i, o.path)
      BY <3>1 DEF Live, HasHome, Brought
    <3> QED
      BY <2>2, <2>3, <2>4, <2>5, <3>2
  <2>7. CASE o.kind \in Downloads
    <3>1. i \in Live(o.path) \/ (i = mapping[d][o.path] /\ i # None)
      BY <2>7, IdentityIsSeen
    <3>2. HasHome(i, o.path)
      BY <1>0, <2>3, <3>1 DEF Live, HasHome, Brought, Homes, Operations
    <3> QED
      BY <2>2, <2>3, <2>4, <2>5, <3>2
  <2>8. CASE o.kind \notin Uploads \cup Downloads
    <3>1. o.kind # "adopt"
      BY <2>1 DEF Observed, Visible, Uploads, Replacing, Downloads
    <3> QED
      BY <2>2, <2>3, <2>4, <2>5, <2>8, <3>1 DEF Recording
  <2> QED
    BY <2>6, <2>7, <2>8
<1>5. ASSUME NEW o \in InHand(d)
      PROVE  o \in Operations /\ Homely(o) /\ Sound(o)
  BY HomelyHand
<1> QED
  BY <1>0, <1>1, <1>3, <1>4, <1>5, BaseSteps

(* A vault gets what is seen of a path, or what the user writes.           *)
LEMMA VaultsAreHomely ==
    ASSUME StillInv, NotesStay, NEW d \in Devices, Acting(d), NEW e \in Devices, NEW p \in Paths
    PROVE  /\ local'[e][p] # {}
           /\ \A x \in InVault(e, p)' : Seen(x, p) \/ Write(d, p, x)
<1> DEFINE Goal == /\ local'[e][p] # {}
                   /\ \A x \in InVault(e, p)' : Seen(x, p) \/ Write(d, p, x)
<1>0. /\ ReconInv /\ ReconciliationTypeOK /\ Homes(e) /\ ~Doing(d, Moves)
      /\ local \in [Devices -> [Paths -> {Absent} \cup Contents]] /\ Absent # {}
  BY HomelyHand, AbsenceAssumption DEF StillInv, ReconInv, ReconciliationTypeOK
<1>1. ASSUME local'[e][p] = local[e][p] PROVE Goal
  BY <1>0, <1>1 DEF Seen, InVault, Homes
<1>2. ASSUME NEW q \in Paths, local' = [local EXCEPT ![d][q] = Absent] PROVE Goal
  <2>1. CASE e = d /\ p = q
    BY <1>0, <1>2, <2>1 DEF InVault
  <2>2. CASE ~(e = d /\ p = q)
    <3>1. local'[e][p] = local[e][p]
      BY <1>0, <1>2, <2>2
    <3> QED
      BY <1>1, <3>1
  <2> QED
    BY <2>1, <2>2
<1>3. CASE Replace(d) \/ RecoverReplace(d)
  <2> DEFINE o == intent[d].op
  <2>1. CASE local' = local
    BY <1>1, <2>1
  <2>2. CASE local' # local
    <3>1. /\ Doing(d, Downloads \cup {"clean-text-merge"})
          /\ local' = [local EXCEPT ![d][o.path] = Brings(o)]
      BY <1>3, <2>2 DEF Replace, RecoverReplace, Outstanding
    <3>2. /\ o \in InHand(d) /\ Homely(o) /\ Sound(o) /\ o.path \in Paths
          /\ o.kind \in Downloads \cup {"clean-text-merge"}
      BY <3>1, HomelyHand DEF Doing
    <3>3. Brings(o) \in Contents /\ Brings(o) # {}
      BY <3>2 DEF Brings, Result, Sound, Homely, Contents, Uploads, Replacing, Downloads
    <3>4. \A x \in Brings(o) : \/ o.mine # Absent /\ x \in o.mine
                               \/ o.theirs # Absent /\ x \in o.theirs
      BY <3>2, AbsenceAssumption DEF Brings, Result, Sound, Contents, Uploads, Replacing, Downloads
    <3>5. \A x \in Brings(o) : Seen(x, o.path)
      BY <3>2, <3>4 DEF Seen
    <3>6. CASE e = d /\ p = o.path
      <4>1. local'[e][p] = Brings(o)
        BY <1>0, <3>1, <3>2, <3>6
      <4> QED
        BY <3>3, <3>5, <3>6, <4>1 DEF InVault
    <3>7. CASE ~(e = d /\ p = o.path)
      <4>1. local'[e][p] = local[e][p]
        BY <1>0, <3>1, <3>2, <3>7
      <4> QED
        BY <1>1, <4>1
    <3> QED
      BY <3>6, <3>7
  <2> QED
    BY <2>1, <2>2
<1>4. CASE TrashLocal(d)
  <2>1. intent[d].op.path \in Paths
    BY <1>0, <1>4, IntentTyped DEF TrashLocal, Doing
  <2> QED
    BY <1>2, <1>4, <2>1 DEF TrashLocal
<1>5. CASE User(d)
  <2>1. ASSUME NEW q \in Paths, NEW edit \in Edits, Write(d, q, edit) PROVE Goal
    <3>1. /\ local' = [local EXCEPT ![d][q] = InVault(d, q) \cup {edit}]
          /\ InVault(d, q) \cup {edit} # {}
      BY <2>1 DEF Write
    <3>2. CASE e = d /\ p = q
      <4>1. local'[e][p] = InVault(d, q) \cup {edit}
        BY <1>0, <3>1, <3>2
      <4> QED
        BY <2>1, <3>1, <3>2, <4>1 DEF InVault, Seen
    <3>3. CASE ~(e = d /\ p = q)
      <4>1. local'[e][p] = local[e][p]
        BY <1>0, <3>1, <3>3
      <4> QED
        BY <1>1, <4>1
    <3> QED
      BY <3>2, <3>3
  <2>2. ASSUME NEW q \in Paths, Delete(d, q) PROVE Goal
    BY <1>2, <2>2 DEF Delete
  <2>3. ASSUME NEW q \in Paths, NEW r \in Paths, Rename(d, q, r) PROVE FALSE
    BY <2>3 DEF Rename, Acts, NotesStay
  <2>4. ASSUME NEW q \in Paths, NEW choice \in Resolutions, Resolve(d, q, choice) PROVE FALSE
    BY <2>4 DEF Resolve, Acts, NotesStay
  <2> QED
    BY <1>5, <2>1, <2>2, <2>3, <2>4 DEF User
<1>6. CASE local' = local
  BY <1>1, <1>6
<1>7. ~MoveLocal(d)
  BY <1>0 DEF MoveLocal, Doing, Moves
<1> QED
  BY <1>3, <1>4, <1>5, <1>6, <1>7 DEF Acting, Device, Effect, Recover, Begin, Start, Skip, GiveUp,
     Note, Dispatch, Create, Upload, Finalize, Retire, CheckTrash, TrashRemote, CheckMove,
     MoveRemote, Complete, Crash, RecoverUpdate, RecoverCommit, RecoverUnapplied

LEMMA SeenSteps ==
    ASSUME StillInv, NotesStay, NEW d \in Devices, Acting(d),
           NEW p \in Paths, NEW x \in Edits, Seen(x, p)'
    PROVE  Seen(x, p) \/ Write(d, p, x)
<1>0. ReconInv /\ Orderly(d) /\ Lasting /\ CandidateAt(d)
  BY AccountLasts DEF StillInv, ReconInv
<1>1. ASSUME NEW e \in Devices, x \in InVault(e, p)'
      PROVE  Seen(x, p) \/ Write(d, p, x)
  BY <1>1, VaultsAreHomely
<1>2. ASSUME NEW e \in Devices, base'[e][p] # None, x \in base'[e][p].content
      PROVE  Seen(x, p)
  <2>1. CASE base'[e][p] = base[e][p]
    BY <1>2, <2>1 DEF Seen
  <2>2. CASE base'[e][p] # base[e][p]
    <3>1. PICK o \in InHand(d), s \in Operations : \E i :
                 /\ Commit(d, s, i) /\ Homely(s) /\ Sound(s)
                 /\ s.kind = o.kind /\ s.path = o.path /\ s.mine = o.mine /\ s.theirs = o.theirs
                 /\ s.kind \in Recording /\ i # None => HasHome(i, s.path)
      BY <2>2, CommitsAreHomely DEF knowledge
    <3>2. /\ e = d
          /\ p = s.path /\ s.kind \in Recording /\ base'[d][p].content = Recorded(s)
      BY <1>2, <2>2, <3>1, CommitIsHomely
    <3>3. \/ o.mine # Absent /\ x \in o.mine
          \/ o.theirs # Absent /\ x \in o.theirs
      BY <1>2, <3>1, <3>2, AbsenceAssumption
         DEF Recorded, Recording, Result, Sound, Contents, Uploads, Replacing, Downloads
    <3> QED
      BY <3>1, <3>2, <3>3 DEF Seen
  <2> QED
    BY <2>1, <2>2
<1>3. ASSUME NEW e \in Devices, NEW o \in InHand(e)', o.path = p,
             (o.mine # Absent /\ x \in o.mine) \/ (o.theirs # Absent /\ x \in o.theirs)
      PROVE  Seen(x, p)
  BY <1>3, HandIsHomely
<1>4. ASSUME NEW i \in Ids, HasHome(i, p)', x \in drive'[i].content
      PROVE  Seen(x, p)
  <2>1. CASE Brought(i)
    <3>1. PICK q : q = drive[i].path
      OBVIOUS
    <3>2. HasHome(i, q) /\ x \in drive[i].content
      BY <1>0, <1>4, <2>1, <3>1 DEF HasHome, Lasting
    <3>3. HasHome(i, q)'
      BY <3>2, HomeStays
    <3>4. q = p
      BY <1>4, <3>3 DEF HasHome
    <3> QED
      BY <3>2, <3>4 DEF Seen
  <2>2. CASE ~Brought(i)
    <3>1. Sends(d) /\ i = intent[d].new /\ drive'[i].path = intent[d].op.path
      BY <1>0, <1>4, <2>2, StatusSteps DEF HasHome
    <3>2. /\ Doing(d, Uploads) /\ drive'[i].content = Result(intent[d].op)
      BY <1>0, <1>4, <3>1 DEF Sends, ReconInv, ReconciliationTypeOK
    <3>3. /\ intent[d].op \in InHand(d) /\ Sound(intent[d].op)
          /\ intent[d].op.kind \in Uploads
      BY <3>2, HomelyHand DEF Doing
    <3>4. \/ intent[d].op.mine # Absent /\ x \in intent[d].op.mine
          \/ intent[d].op.theirs # Absent /\ x \in intent[d].op.theirs
      BY <1>4, <3>2, <3>3, AbsenceAssumption DEF Result, Sound, Contents
    <3> QED
      BY <1>4, <3>1, <3>3, <3>4 DEF Seen, HasHome
  <2> QED
    BY <2>1, <2>2
<1> QED
  BY <1>1, <1>2, <1>3, <1>4 DEF Seen

LEMMA FreshSteps ==
    ASSUME NEW d \in Devices, Acting(d)
    PROVE  fresh' \subseteq fresh
<1>1. CASE UNCHANGED ghosts
  BY <1>1 DEF ghosts
<1>2. CASE User(d)
  BY <1>2 DEF User, Write, Delete, Rename, Resolve, ghosts
<1>3. CASE TrashLocal(d)
  BY <1>3 DEF TrashLocal
<1> QED
  BY <1>1, <1>2, <1>3 DEF Acting, Device, Effect, Recover, Begin, Start, Skip, GiveUp, Note,
     Dispatch, Create, Upload, Finalize, Retire, CheckTrash, TrashRemote, CheckMove, MoveRemote,
     Replace, MoveLocal, Complete, Crash, RecoverUpdate, RecoverReplace, RecoverCommit,
     RecoverUnapplied

LEMMA HomesStay ==
    ASSUME StillInv, NotesStay, NEW d \in Devices, Acting(d), NEW e \in Devices
    PROVE  Homes(e)'
<1>0. /\ ReconInv /\ Homes(e) /\ Homes(d)
      /\ intent \in [Devices -> {None} \cup Intents]
  BY DEF StillInv, ReconInv, ReconciliationTypeOK
<1>1. \A o \in InHand(e)' : Homely(o)'
  BY HandIsHomely
<1>2. intent'[e] # None /\ intent'[e].op.kind \notin Uploads => intent'[e].new = intent'[e].op.id
  <2>1. CASE intent'[e] = intent[e]
    BY <1>0, <2>1 DEF Homes
  <2>2. CASE intent'[e] # intent[e] /\ intent'[e] # None
    <3>1. e = d
      BY <1>0, <2>2, OthersRest
    <3>2. PICK o \in plan[d] : Dispatch(d, o) /\ intent'[d].op = o
      BY <1>0, <2>2, <3>1, IntentSteps
    <3>3. o.kind \notin Uploads => intent' = [intent EXCEPT ![d] = [op |-> o, new |-> o.id]]
      BY <3>2 DEF Dispatch
    <3> QED
      BY <1>0, <3>1, <3>2, <3>3
  <2> QED
    BY <2>1, <2>2
<1>3. ASSUME NEW p \in Paths
      PROVE  /\ base'[e][p] # None =>
                    /\ base'[e][p].content # {}
                    /\ base'[e][p].id # None => HasHome(base'[e][p].id, p)
             /\ mapping'[e][p] # None => HasHome(mapping'[e][p], p)
  <2>1. CASE base'[e] = base[e] /\ mapping'[e] = mapping[e]
    BY <1>0, <2>1 DEF Homes
  <2>2. CASE ~(base'[e] = base[e] /\ mapping'[e] = mapping[e])
    <3>1. PICK s \in Operations : \E i :
                 /\ Commit(d, s, i) /\ Homely(s) /\ Sound(s)
                 /\ s.kind \in Recording /\ i # None => HasHome(i, s.path)
      BY <2>2, CommitsAreHomely DEF knowledge
    <3>2. e = d
      BY <2>2, <3>1, CommitIsHomely
    <3> QED
      BY <3>1, <3>2, CommitIsHomely
  <2> QED
    BY <2>1, <2>2
<1>4. ASSUME NEW p \in Paths
      PROVE  /\ base'[e][p] # None /\ base'[e][p].id # None =>
                    \A i : i = base'[e][p].id => HasHome(i, p)'
             /\ mapping'[e][p] # None => \A i : i = mapping'[e][p] => HasHome(i, p)'
  BY <1>3, HomeStays
<1>5. \A p \in Paths : local'[e][p] # {}
  BY VaultsAreHomely
<1> QED
  BY <1>1, <1>2, <1>3, <1>4, <1>5 DEF Homes, HasHome, Brought

LEMMA StillInit == NotesStay /\ Init => StillInv
<1> SUFFICES ASSUME NotesStay, Init PROVE StillInv
  OBVIOUS
<1>0. ReconInv /\ Absent # {}
  BY InitOK, AbsenceAssumption
<1>1. ASSUME NEW i \in Ids, Brought(i)
      PROVE  i \in Notes /\ drive[i].path = i /\ drive[i].content = Written[i]
  BY <1>1 DEF Init, Brought
<1>2. ASSUME NEW p \in Notes PROVE HasHome(p, p) /\ Written[p] # {}
  BY ReconciliationAssumption DEF Init, HasHome, Brought, NotesStay
<1>3. ASSUME NEW d \in Devices
      PROVE  Homes(d) /\ Orderly(d)
  <2>1. intent[d] = None /\ plan[d] = {} /\ step[d] = "idle"
    BY DEF Init
  <2>2. ASSUME NEW p \in Paths
        PROVE  /\ base[d][p] # None => /\ base[d][p].content # {}
                                       /\ base[d][p].id # None => HasHome(base[d][p].id, p)
               /\ mapping[d][p] # None => HasHome(mapping[d][p], p)
               /\ local[d][p] # {}
    BY <1>0, <1>2 DEF Init
  <2> QED
    BY <2>1, <2>2 DEF Homes, Orderly, Doing, InHand
<1>4. ASSUME NEW x \in Edits, NEW p \in Paths, Seen(x, p)
      PROVE  p \in Notes /\ x \in Written[p]
  <2>1. \A d \in Devices : InHand(d) = {}
    BY DEF Init, InHand
  <2>2. ASSUME NEW d \in Devices, x \in InVault(d, p) PROVE p \in Notes /\ x \in Written[p]
    BY <2>2 DEF Init, InVault
  <2>3. ASSUME NEW d \in Devices, base[d][p] # None, x \in base[d][p].content
        PROVE  p \in Notes /\ x \in Written[p]
    BY <2>3 DEF Init
  <2>4. ASSUME NEW i \in Ids, HasHome(i, p), x \in drive[i].content
        PROVE  p \in Notes /\ x \in Written[p]
    BY <1>1, <2>4 DEF HasHome
  <2> QED
    BY <1>4, <2>1, <2>2, <2>3, <2>4 DEF Seen
<1>5. \A x \in Edits : \A p, q \in Paths : Seen(x, p) /\ Seen(x, q) => p = q
  BY <1>4 DEF NotesStay
<1>6. \A x \in fresh : \A p \in Paths : ~Seen(x, p)
  BY <1>4 DEF Init
<1> QED
  BY <1>0, <1>1, <1>2, <1>3, <1>5, <1>6 DEF StillInv

LEMMA StillStep == NotesStay /\ StillInv /\ [Next]_vars => StillInv'
<1> SUFFICES ASSUME NotesStay, StillInv, [Next]_vars PROVE StillInv'
  OBVIOUS
<1>0. ReconInv /\ ReconInv'
  BY StepOK DEF StillInv
<1>1. CASE UNCHANGED vars
  <2>1. UNCHANGED <<drive, local, base, mapping, intent, plan, step, fresh>>
    BY <1>1 DEF vars, knowledge, pass, ghosts, bounds
  <2>2. ASSUME NEW d \in Devices PROVE Homes(d)' /\ Orderly(d)'
    BY <2>1 DEF StillInv, Homes, Homely, HasHome, Brought, InHand, Orderly, Doing
  <2>3. \A x, p : Seen(x, p)' <=> Seen(x, p)
    BY <2>1 DEF Seen, InVault, InHand, HasHome, Brought
  <2> QED
    BY <1>0, <2>1, <2>2, <2>3 DEF StillInv, Brought
<1>2. CASE Next
  <2>1. PICK d \in Devices : Acting(d)
    BY <1>2 DEF Next, Acting
  <2>2. ASSUME NEW e \in Devices PROVE Homes(e)' /\ Orderly(e)'
    <3>1. \A c \in Devices : Orderly(c)
      BY DEF StillInv
    <3> QED
      BY <1>0, <2>1, <3>1, HomesStay, OrderlyStays
  <2>3. ASSUME NEW i \in Ids, Brought(i)' PROVE drive'[i].content # {}
    <3>1. CASE Brought(i)
      BY <1>0, <2>1, <3>1, AccountLasts DEF StillInv, Lasting
    <3>2. CASE ~Brought(i)
      <4>1. Sends(d) /\ i = intent[d].new
        BY <1>0, <2>1, <2>3, <3>2, StatusSteps DEF StillInv
      <4>2. Doing(d, Uploads) /\ drive'[i].content = Result(intent[d].op)
        BY <1>0, <2>3, <4>1 DEF Sends, ReconInv, ReconciliationTypeOK
      <4>3. Homely(intent[d].op) /\ Sound(intent[d].op)
        BY <4>2, HomelyHand DEF Doing
      <4> QED
        BY <4>2, <4>3 DEF Homely, Result, Doing, Sound, Contents
    <3> QED
      BY <3>1, <3>2
  <2>4. ASSUME NEW x \in Edits, NEW p \in Paths, NEW q \in Paths, Seen(x, p)', Seen(x, q)'
        PROVE  p = q
    <3>1. (Seen(x, p) \/ Write(d, p, x)) /\ (Seen(x, q) \/ Write(d, q, x))
      BY <2>1, <2>4, SeenSteps
    <3>2. \A r \in Paths : Write(d, r, x) => x \in fresh /\ ~Seen(x, p) /\ ~Seen(x, q)
      BY DEF StillInv, Write
    <3>3. CASE Write(d, p, x) /\ Write(d, q, x) /\ p # q
      <4>1. /\ local \in [Devices -> [Paths -> {Absent} \cup Contents]]
            /\ local' = [local EXCEPT ![d][p] = InVault(d, p) \cup {x}]
            /\ local' = [local EXCEPT ![d][q] = InVault(d, q) \cup {x}]
        BY <1>0, <3>3 DEF Write, ReconInv, ReconciliationTypeOK
      <4>2. local[d][p] = InVault(d, p) \cup {x}
        BY <3>3, <4>1
      <4>3. x \in InVault(d, p)
        BY <4>1, <4>2, AbsenceAssumption DEF InVault, Contents
      <4>4. Seen(x, p)
        BY <4>3 DEF Seen
      <4> QED
        BY <3>2, <3>3, <4>4
    <3>4. CASE Seen(x, p) /\ Seen(x, q)
      BY <3>4 DEF StillInv
    <3> QED
      BY <3>1, <3>2, <3>3, <3>4
  <2>5. ASSUME NEW x \in fresh', NEW p \in Paths PROVE ~Seen(x, p)'
    <3>1. x \in fresh /\ x \in Edits
      BY <1>0, <2>1, FreshSteps DEF ReconInv, ReconciliationTypeOK
    <3>2. ~Write(d, p, x)
      BY <2>5 DEF Write
    <3> QED
      BY <2>1, <3>1, <3>2, SeenSteps DEF StillInv
  <2> QED
    BY <1>0, <2>2, <2>3, <2>4, <2>5 DEF StillInv, Brought
<1> QED
  BY <1>1, <1>2

LEMMA KnownIsSeen ==
    ASSUME ReconInv, NEW p \in Paths, NEW x \in KnownAt(p)
    PROVE  Seen(x, p) /\ x \in Edits
<1>1. ASSUME NEW d \in Devices, NEW o \in InHand(d), o.kind \in Recording, x \in Recorded(o)
      PROVE  /\ (o.mine # Absent /\ x \in o.mine) \/ (o.theirs # Absent /\ x \in o.theirs)
             /\ x \in Edits
  <2>1. Sound(o) /\ o \in Operations
    BY HandTyped DEF ReconInv, BackedAt
  <2>2. (o.mine # Absent /\ x \in o.mine) \/ (o.theirs # Absent /\ x \in o.theirs)
    BY <1>1, <2>1, AbsenceAssumption
       DEF Recorded, Recording, Result, Sound, Contents, Uploads, Replacing, Downloads
  <2> QED
    BY <2>1, <2>2 DEF Operations, Contents
<1>2. Where(x, p)
  BY DEF Where, KnownAt, VersionsAt
<1>3. Seen(x, p)
  BY <1>1, <1>2 DEF Where, Seen, Live, HasHome, Brought
<1>4. x \in Edits
  BY <1>1, <1>2, EditsTyped DEF Where, Live
<1> QED
  BY <1>3, <1>4

(* Where nobody renames a note or decides a conflict, and the notes of the *)
(* start share nothing, every edit is under one path on all the devices    *)
(* and in the account: a pass proposes and applies nothing that carries a  *)
(* version elsewhere (classifyProvenMoves, applySuccessfulOperation).      *)
LEMMA NotesKeepTheirPath == NotesStay => (Spec => []OnePath)
<1> SUFFICES ASSUME NotesStay PROVE Spec => []OnePath
  OBVIOUS
<1>1. Init => StillInv
  BY StillInit
<1>2. StillInv /\ [Next]_vars => StillInv'
  BY StillStep
<1>3. StillInv => OnePath
  <2> SUFFICES ASSUME StillInv, NEW p \in Paths, NEW q \in Paths, p < q,
                      NEW x \in KnownAt(p), x \in KnownAt(q)
               PROVE  FALSE
    BY DEF OnePath
  <2>1. x \in Edits /\ Seen(x, p) /\ Seen(x, q)
    BY KnownIsSeen DEF StillInv
  <2>2. p = q
    BY <2>1 DEF StillInv
  <2> QED
    BY <2>2, PathsAssumption
<1> QED
  BY <1>1, <1>2, <1>3, PTL DEF Spec

(* So there no edit leaves reach, on whatever devices, at whatever pace    *)
(* and after whichever crashes notes are edited and deleted.               *)
THEOREM EditsStayWithTheirNote == NotesStay => (Spec => []EditsKept)
<1> SUFFICES ASSUME NotesStay PROVE Spec => []EditsKept
  OBVIOUS
<1>1. Spec => []OnePath
  BY NotesKeepTheirPath
<1> QED
  BY <1>1, EditsStay, PTL DEF EditsStayInPlace
=============================================================================
