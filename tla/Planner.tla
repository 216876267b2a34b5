------------------------------ MODULE Planner ------------------------------
(***************************************************************************)
(* The planner (src/core/planner.ts with the assessment of                 *)
(* src/core/conflict-resolver.ts): from what one device knows (BASE), what *)
(* its vault holds (LOCAL) and what is live in the account (REMOTE), one   *)
(* operation for every path.                                               *)
(*                                                                         *)
(* The notes are files.  A content is the set of edits it is made of, so   *)
(* that it says whose writing a version carries; equal contents have equal *)
(* hashes.  Of a plan only the operations that can be executed are kept:   *)
(* an unresolved conflict, a blocked path and a path with nothing to do    *)
(* have none.  What the planner is given is                                *)
(*    f.local    what is at a path of the vault: a content or Absent       *)
(*    f.remote   the live objects of the account at a path                 *)
(*    f.base     the BASE entry of a path or None; an entry without an id  *)
(*               is that of a conflict copy, which exists only locally     *)
(* Left out: folders, tombstones of stale devices, an observation that is  *)
(* incomplete or unstable (the path is blocked) and the approval of        *)
(* destructive plans, which the user gives sooner or later.                *)
(***************************************************************************)
EXTENDS Naturals, FiniteSets

CONSTANTS
    Paths,      \* a set of numbers: the order of the snapshots
    Text,       \* paths of notes whose texts can be merged
    Clash,      \* pairs of edits that touch the same lines
    Absent, None

ASSUME PathsAssumption == Paths \subseteq Nat /\ Text \subseteq Paths

-----------------------------------------------------------------------------
(* What is seen of a path                                                  *)

LocalHere(f, p)  == f.local[p] # Absent
RemoteHere(f, p) == f.remote[p] # {}

(* makeSnapshots: several live objects at one path                         *)
Ambiguous(f, p) == \E x, y \in f.remote[p] : x # y

Object(f, p) == CHOOSE x \in f.remote[p] : TRUE

(* localExisted and remoteExisted of the BASE entry                        *)
Shared(f, p) == f.base[p] # None /\ f.base[p].id # None

LocalChanged(f, p)  == f.local[p] # f.base[p].content
RemoteChanged(f, p) == Object(f, p).content # f.base[p].content

-----------------------------------------------------------------------------
(* classifyProvenMoves.  An object is at one path, so a BASE entry has one *)
(* remote candidate at most.                                               *)

Candidates(f, p) ==
    {q \in Paths \ {p} :
        /\ RemoteHere(f, q) /\ ~Ambiguous(f, q)
        /\ Object(f, q).id = f.base[p].id}

(* strongHistoricalMatch: the content is all that identifies a local file  *)
Matches(f, p) ==
    {q \in Paths \ {p} : ~Ambiguous(f, q) /\ f.local[q] = f.base[p].content}

Gone(f, p) == Shared(f, p) /\ ~LocalHere(f, p) /\ RemoteHere(f, p) /\ ~Ambiguous(f, p)

MovedInDrive(f, p, q) ==
    /\ Shared(f, p) /\ LocalHere(f, p) /\ ~RemoteHere(f, p)
    /\ q \in Candidates(f, p)

MovedInVault(f, p, q) == Gone(f, p) /\ Matches(f, p) = {q}

Unguessable(f, p) == Gone(f, p) /\ \E q, r \in Matches(f, p) : q # r

Handled(f) ==
    {p \in Paths : \E q \in Paths :
        \/ MovedInDrive(f, p, q) \/ MovedInDrive(f, q, p)
        \/ MovedInVault(f, p, q) \/ MovedInVault(f, q, p)
        \/ Unguessable(f, q) /\ p \in {q} \cup Matches(f, q)}

-----------------------------------------------------------------------------
(* The table for a path that no move accounts for                          *)

WhenNeither(f, p) == IF f.base[p] = None THEN "nothing" ELSE "forget"

WhenRemoteOnly(f, p) ==
    CASE ~Shared(f, p)                         -> "download-create"
      [] Shared(f, p) /\ RemoteChanged(f, p)   -> "unresolved-conflict"
      [] Shared(f, p) /\ ~RemoteChanged(f, p)  -> "trash-remote"

(* WhenLocalOnly without a branch for what is new.                         *)
WhenLocalOnlyIsOld(f, p) ==
    CASE ~Shared(f, p)                         -> "nothing"
      [] Shared(f, p) /\ LocalChanged(f, p)    -> "unresolved-conflict"
      [] Shared(f, p) /\ ~LocalChanged(f, p)   -> "trash-local"

WhenLocalOnly(f, p) ==
    CASE ~Shared(f, p)                         -> "upload-create"
      [] Shared(f, p) /\ LocalChanged(f, p)    -> "unresolved-conflict"
      [] Shared(f, p) /\ ~LocalChanged(f, p)   -> "trash-local"

(* assess, when both sides changed: a three-way merge of the texts         *)
MergesCleanly(f, p) ==
    /\ p \in Text
    /\ \A x \in f.local[p] \ f.base[p].content,
         y \in Object(f, p).content \ f.base[p].content : {x, y} \notin Clash

(* WhenBothDiffer, asking the account first.                               *)
WhenBothPreferRemote(f, p) ==
    CASE RemoteChanged(f, p)  -> "download-update"
      [] ~RemoteChanged(f, p) -> "upload-update"

WhenBothDiffer(f, p) ==
    CASE ~LocalChanged(f, p)  -> "download-update"
      [] ~RemoteChanged(f, p) -> "upload-update"
      [] OTHER -> IF MergesCleanly(f, p)
                  THEN "clean-text-merge" ELSE "unresolved-conflict"

(* WhenBoth, comparing each side with BASE and not the two.                *)
WhenBothByBase(f, p) ==
    CASE f.base[p] = None ->
             IF f.local[p] = Object(f, p).content THEN "adopt" ELSE "unresolved-conflict"
      [] f.base[p] # None /\ (LocalChanged(f, p) \/ RemoteChanged(f, p)) ->
             WhenBothDiffer(f, p)
      [] OTHER -> "nothing"

WhenBoth(f, p) ==
    CASE f.local[p] = Object(f, p).content ->
             IF f.base[p] = None THEN "adopt" ELSE "nothing"
      [] f.local[p] # Object(f, p).content ->
             IF f.base[p] = None THEN "unresolved-conflict"
                                 ELSE WhenBothDiffer(f, p)

Verdict(f, p) ==
    CASE Ambiguous(f, p)                          -> "blocked-unsafe"
      [] ~LocalHere(f, p) /\ ~RemoteHere(f, p)    -> WhenNeither(f, p)
      [] ~LocalHere(f, p) /\ RemoteHere(f, p) /\ ~Ambiguous(f, p)
                                                  -> WhenRemoteOnly(f, p)
      [] LocalHere(f, p) /\ ~RemoteHere(f, p)     -> WhenLocalOnly(f, p)
      [] LocalHere(f, p) /\ RemoteHere(f, p) /\ ~Ambiguous(f, p)
                                                  -> WhenBoth(f, p)

-----------------------------------------------------------------------------
(* Operations: the object they are about and the two contents the planner  *)
(* saw, which are their preconditions.                                     *)

Passive == {"nothing", "unresolved-conflict", "blocked-unsafe"}
Moves   == {"move-local", "move-remote"}

Operation(kind, path, source, id, mine, theirs) ==
    [kind |-> kind, path |-> path, source |-> source,
     id |-> id, mine |-> mine, theirs |-> theirs]

ObjectId(f, p)      == IF RemoteHere(f, p) THEN Object(f, p).id ELSE None
ObjectContent(f, p) == IF RemoteHere(f, p) THEN Object(f, p).content ELSE Absent

Decided(f, p, kind) ==
    Operation(kind, p, p, ObjectId(f, p), f.local[p], ObjectContent(f, p))

Follow(f, p, q) ==
    Operation("move-local", q, p, f.base[p].id, f.local[p], Object(f, q).content)
Lead(f, p, q) ==
    Operation("move-remote", q, p, f.base[p].id, f.local[q], Object(f, p).content)

MovesOf(f) ==
    UNION {{Follow(f, p, q) : q \in {r \in Paths : MovedInDrive(f, p, r)}} \cup
           {Lead(f, p, q) : q \in {r \in Paths : MovedInVault(f, p, r)}} : p \in Paths}

Plan(f) ==
    MovesOf(f) \cup
    {Decided(f, p, Verdict(f, p)) :
        p \in {q \in Paths \ Handled(f) : Verdict(f, q) \notin Passive}}

(* The order of execution: the moves, in no order that is relied on, then  *)
(* the paths one after another.                                            *)
Early(o) == o.source # o.path
Earliest(plan) == {o \in plan : \A other \in plan \ {o} :
                      Early(o) \/ (~Early(other) /\ o.path < other.path)}

-----------------------------------------------------------------------------
(* Where the user is asked                                                 *)

Conflicts(f) == {p \in Paths \ Handled(f) : Verdict(f, p) = "unresolved-conflict"}

Awaiting(f) ==
    Conflicts(f) \cup {p \in Paths : Unguessable(f, p)}
                 \cup {p \in Paths \ Handled(f) : Verdict(f, p) = "blocked-unsafe"}
=============================================================================
