--------------------------- MODULE InventoryStore ---------------------------
(***************************************************************************)
(* The verified remote inventory in IndexedDB: generations of rows that    *)
(* are staged in many short transactions, sealed, and published in one     *)
(* transaction together with the canonical cursor; readers that pin the    *)
(* chain of generations they read; a collector of what nobody can reach;   *)
(* and the ordinary writers of the authority document, who know nothing of *)
(* the inventory.  Several JavaScript contexts share the database.         *)
(***************************************************************************)
EXTENDS Integers, FiniteSets, Sequences

CONSTANTS
    Contexts,   \* JavaScript contexts (windows, workers) on one database
    Writers,    \* those of them that run the integration coordinator,
    Readers,    \* that read leases for planning,
    Collectors, \* and that collect garbage
    Objects,    \* remote object ids below the managed roots
    Initially,  \* those that exist at first
    None,
    MaxGen,     \* bound on generation ids handed out
    MaxPins,    \* bound on reader pins at one time
    MaxDepth,   \* overlays on one baseline (MAX_DEPTH)
    GcBatch,    \* rows a collector deletes in one transaction (GC_BATCH)
    MaxCursor,  \* bound on changes of the remote account
    MaxRev,     \* bound on revisions of the authority document
    MaxFaults   \* bound on failures and deaths of contexts

Gens == 1..MaxGen
Pins == 1..MaxPins

ASSUME InventoryAssumption ==
    /\ MaxGen \in Nat /\ MaxPins \in Nat /\ MaxDepth \in Nat
    /\ GcBatch \in Nat \ {0} /\ MaxCursor \in Nat \ {0} /\ MaxRev \in Nat
    /\ MaxFaults \in Nat /\ Initially \subseteq Objects
    /\ Objects # {} /\ IsFiniteSet(Objects)
    /\ Writers \cup Readers \cup Collectors \subseteq Contexts
    /\ None \notin Gens

VARIABLES
    remote,     \* the account's content at each cursor (external)
    authority,  \* the canonical document
    control,    \* the active pointer
    manifest,   \* [Gens -> manifest record or None]
    counter,    \* [Gens -> stage counter or None]
    rows,       \* [Gens -> entity rows: object -> version, 0 masks it]
    pinned,     \* [Pins -> generations a durable reader pin protects]
    staging,    \* [Contexts -> generations this context reserves in memory]
    reader,     \* [Contexts -> the read lease of this context]
    job,        \* [Contexts -> the publication this context is working on]
    issued,     \* generation ids handed out
    faults      \* how much of MaxFaults is spent

disk == <<authority, control, manifest, counter, rows, pinned>>
memory == <<staging, reader, job>>
storeVars == <<remote, disk, memory, issued, faults>>

Cursors == 0..MaxCursor
Content == [Objects -> Cursors]
Rows == UNION {[S -> Cursors] : S \in SUBSET Objects}
Range2 == [from : Cursors, to : Cursors]
NoRows == [o \in {} |-> 0]

Authority == [rev : 0..MaxRev, cursor : Cursors, unresolved : BOOLEAN,
              batches : SUBSET Range2]
Control == [status : {"none", "ready", "invalid"}, gen : Gens \cup {None},
            cursor : Cursors, rev : 0..MaxRev]
Manifest == [parent : Gens \cup {None}, depth : 0..MaxDepth, input : Cursors,
             terminal : Cursors, rev : 0..MaxRev, sealed : BOOLEAN,
             count : Nat, digest : Rows]
Counter == [count : Nat, sealed : BOOLEAN]
ASSUME RecordsAssumption == None \notin Manifest /\ None \notin Counter
Snapshot == [active : Gens \cup {None}, cursor : Cursors, rev : 0..MaxRev]
Job == [at : {"idle", "open", "provider", "again", "reserve",
              "flush", "proof", "publish"},
        delta : BOOLEAN, gen : Gens \cup {None}, before : Snapshot,
        base : Rows, depth : 0..MaxDepth, terminal : Cursors, cand : Rows,
        flushed : SUBSET Objects, proof : Rows]
Reader == [at : {"none", "acquiring", "open"}, mine : BOOLEAN,
           pin : Pins \cup {None}, gen : Gens \cup {None}, gens : SUBSET Gens,
           cursor : Cursors]

Fault == faults < MaxFaults /\ faults' = faults + 1

NoBefore == [active |-> None, cursor |-> 0, rev |-> 0]
Idle == [at |-> "idle", delta |-> FALSE, gen |-> None, before |-> NoBefore,
         base |-> NoRows, depth |-> 0, terminal |-> 0, cand |-> NoRows,
         flushed |-> {}, proof |-> NoRows]
NoReader == [at |-> "none", mine |-> FALSE, pin |-> None, gen |-> None,
             gens |-> {}, cursor |-> 0]

Now == Len(remote)
Ready == control.status = "ready"
Active == IF Ready THEN {control.gen} ELSE {}
Present(content) == {o \in Objects : content[o] # 0}
Changed(j, k) == {o \in Objects : remote[j][o] # remote[k][o]}
Take(content, S) == [o \in S |-> content[o]]

----------------------------------------------------------------------------
(* Chains of generations *)

Parent(g) == IF manifest[g] = None THEN None ELSE manifest[g].parent
Closed(S) == \A g \in S : Parent(g) # None => Parent(g) \in S
\* a generation and all it is laid over: the least closed set it is in
Chain(g) == LET closed == {S \in SUBSET Gens : g \in S /\ Closed(S)}
            IN  {h \in Gens : \A S \in closed : h \in S}

\* sealed, and its rows are the very rows that were sealed
Intact(g) == /\ manifest[g] # None /\ manifest[g].sealed
             /\ Cardinality(DOMAIN rows[g]) = manifest[g].count
             /\ rows[g] = manifest[g].digest

\* the topmost row of an object wins; a mask hides it
Holding(S, o) == {g \in S : o \in DOMAIN rows[g]}
BottomOf(S) == CHOOSE g \in S : \A h \in S : manifest[h].depth >= manifest[g].depth
TopOf(S) == CHOOSE g \in S : \A h \in S : manifest[h].depth <= manifest[g].depth
Lookup(S, o) == LET holding == Holding(S, o)
                IN  IF holding = {} THEN 0 ELSE rows[TopOf(holding)][o]
Effective(S) == [o \in Objects |-> Lookup(S, o)]

\* rows laid over a content
Overlay(content, over) ==
    [o \in Objects |-> IF o \in DOMAIN over THEN over[o] ELSE content[o]]

----------------------------------------------------------------------------
(* The authority document *)

FenceMatches ==
    /\ control.cursor = authority.cursor /\ control.rev = authority.rev

\* publicationSnapshot answers "trusted-fence"
SnapshotTrusted ==
    /\ ~authority.unresolved
    /\ Ready => /\ FenceMatches
                /\ manifest[control.gen] # None /\ manifest[control.gen].sealed
                /\ manifest[control.gen].terminal = control.cursor
                /\ manifest[control.gen].rev = authority.rev
CurrentSnapshot == [active |-> IF Ready THEN control.gen ELSE None,
                    cursor |-> authority.cursor, rev |-> authority.rev]

Persisted(a) == [a EXCEPT !.unresolved = TRUE]
Settled(a) == [a EXCEPT !.unresolved = FALSE]
Retired(a, b) == [a EXCEPT !.batches = @ \ {b}]
Learned(a, k) == [a EXCEPT !.cursor = k,
                           !.batches = @ \cup {[from |-> a.cursor, to |-> k]}]
\* what an ordinary writer makes of the document it has read
Updates(a) ==
    {Persisted(a), Settled(a)} \cup {Retired(a, b) : b \in a.batches}
    \cup (IF a.cursor < Now THEN {Learned(a, Now)} ELSE {})

UnfencedAnyway(a) == control
\* a write that moves the cursor withdraws the inventory in its transaction
Unfenced(a) == IF Ready /\ a.cursor # authority.cursor
               THEN [control EXCEPT !.status = "invalid"] ELSE control

\* saveAuthority of an ordinary writer: the document is swapped only if it is
\* still the one the writer started from, so what is written follows from it
Save == /\ authority.rev < MaxRev
        /\ \E a \in Updates(authority) :
              /\ a # authority
              /\ control' = Unfenced(a)
              /\ authority' = [a EXCEPT !.rev = @ + 1]
        /\ UNCHANGED <<remote, manifest, counter, rows, pinned, memory, issued, faults>>

----------------------------------------------------------------------------
(* Reading *)

\* a key no pin on disk has
FreshPin == {p \in Pins : pinned[p] = {} /\ \A q \in Pins : pinned[q] = {} => p <= q}

\* openRead up to the commit of its pin; a chain that is not intact is refused
OpenRead(c, mine) ==
    /\ reader[c] = NoReader
    /\ mine => job[c].at = "open"
    /\ Ready /\ FenceMatches /\ ~authority.unresolved
    /\ \A g \in Chain(control.gen) : Intact(g)
    /\ Cardinality(Chain(control.gen)) <= MaxDepth + 1
    /\ \E p \in FreshPin :
          /\ pinned' = [pinned EXCEPT ![p] = Chain(control.gen)]
          /\ reader' = [reader EXCEPT ![c] =
                [at |-> "acquiring", mine |-> mine, pin |-> p, gen |-> control.gen,
                 gens |-> Chain(control.gen), cursor |-> control.cursor]]
    /\ UNCHANGED <<remote, authority, control, manifest, counter, rows,
                   staging, job, issued, faults>>

\* the digests agree: the lease is handed out
OpenReadDone(c) ==
    /\ reader[c].at = "acquiring"
    /\ reader' = [reader EXCEPT ![c].at = "open"]
    /\ UNCHANGED <<remote, disk, staging, job, issued, faults>>

\* release: the durable pin first, then the lease
Released(c) == /\ pinned' = [pinned EXCEPT ![reader[c].pin] = {}]
               /\ reader' = [reader EXCEPT ![c] = NoReader]
Release(c) ==
    /\ reader[c].at = "open" /\ ~reader[c].mine
    /\ Released(c)
    /\ UNCHANGED <<remote, authority, control, manifest, counter, rows,
                   staging, job, issued, faults>>

----------------------------------------------------------------------------
(* Publishing *)

Goto(c, j) == job' = [job EXCEPT ![c] = j]

\* an incremental publication needs an inventory with room for a layer
MayExtend == Ready /\ manifest[control.gen].depth < MaxDepth

\* publicationSnapshot
Begin(c, delta) ==
    /\ job[c] = Idle /\ SnapshotTrusted
    /\ delta => MayExtend
    /\ Goto(c, [Idle EXCEPT !.at = IF delta THEN "open" ELSE "provider",
                            !.delta = delta, !.before = CurrentSnapshot,
                            !.depth = IF delta THEN manifest[control.gen].depth + 1
                                               ELSE 0])
    /\ UNCHANGED <<remote, disk, staging, reader, issued, faults>>

\* materialize: the whole graph under the lease of this job, if it is still the
\* generation of the snapshot; the lease is returned either way
Materialize(c) ==
    /\ job[c].at = "open" /\ reader[c].at = "open" /\ reader[c].mine
    /\ Goto(c, IF reader[c].gen = job[c].before.active
               THEN [job[c] EXCEPT !.at = "provider",
                                   !.base = Effective(reader[c].gens)]
               ELSE Idle)
    /\ Released(c)
    /\ UNCHANGED <<remote, authority, control, manifest, counter, rows,
                   staging, issued, faults>>

\* reader.baseline: every object there is, at the account's cursor
ReadBaseline(c) ==
    /\ job[c].at = "provider" /\ ~job[c].delta
    /\ Goto(c, [job[c] EXCEPT !.at = "again", !.terminal = Now,
                              !.cand = Take(remote[Now], Present(remote[Now]))])
    /\ UNCHANGED <<remote, disk, staging, reader, issued, faults>>

\* reader.incremental: the changes since the cursor; a mask must hide something
ReadChanges(c) ==
    /\ job[c].at = "provider" /\ job[c].delta
    /\ LET from == job[c].before.cursor
           S == Changed(from, Now)
       IN  /\ Now > from
           /\ \A o \in S : remote[Now][o] = 0 => job[c].base[o] # 0
           /\ Goto(c, [job[c] EXCEPT !.at = "again", !.terminal = Now,
                                     !.base = NoRows, !.cand = Take(remote[Now], S)])
    /\ UNCHANGED <<remote, disk, staging, reader, issued, faults>>

\* the second publicationSnapshot
Recheck(c) ==
    /\ job[c].at = "again" /\ SnapshotTrusted /\ CurrentSnapshot = job[c].before
    /\ Goto(c, [job[c] EXCEPT !.at = "reserve"])
    /\ UNCHANGED <<remote, disk, staging, reader, issued, faults>>

Parentage(c) == IF job[c].delta THEN job[c].before.active ELSE None
\* the layer, as it is before its rows are in and once they are sealed
Unsealed(c) == [parent |-> Parentage(c), depth |-> job[c].depth,
                input |-> IF job[c].delta THEN job[c].before.cursor ELSE job[c].terminal,
                terminal |-> job[c].terminal, rev |-> job[c].before.rev,
                sealed |-> FALSE, count |-> 0, digest |-> NoRows]
Sealed(c) == [Unsealed(c) EXCEPT !.sealed = TRUE, !.digest = job[c].cand,
                                 !.count = Cardinality(DOMAIN job[c].cand)]

\* stage: a key never used before is reserved, unless the pointer has moved
Reserve(c) ==
    /\ job[c].at = "reserve"
    /\ LET g == issued + 1
           conflict == IF Ready
                       THEN /\ job[c].delta
                            /\ \/ control.gen # job[c].before.active
                               \/ control.cursor # job[c].before.cursor
                       ELSE job[c].delta
       IN  \/ conflict /\ Goto(c, Idle) /\ UNCHANGED <<disk, staging, issued>>
           \/ /\ ~conflict /\ issued < MaxGen
              /\ issued' = g
              /\ manifest' = [manifest EXCEPT ![g] = Unsealed(c)]
              /\ counter' = [counter EXCEPT ![g] = [count |-> 0, sealed |-> FALSE]]
              /\ staging' = [staging EXCEPT ![c] = @ \cup {g}]
              /\ Goto(c, [job[c] EXCEPT !.at = "flush", !.gen = g])
              /\ UNCHANGED <<authority, control, rows, pinned>>
    /\ UNCHANGED <<remote, reader, faults>>

\* one short transaction of staging; the next object in the order of the ids
NextObject(S) == CHOOSE o \in S : TRUE
WithRow(r, o, v) == [x \in DOMAIN r \cup {o} |-> IF x = o THEN v ELSE r[x]]
TallyIfPresent(g, n) == IF counter[g] = None THEN None ELSE [count |-> n, sealed |-> FALSE]
\* the counter is put with the rows, whether or not it is still there
Tally(g, n) == [count |-> n, sealed |-> FALSE]
Flush(c) ==
    /\ job[c].at = "flush" /\ job[c].flushed # DOMAIN job[c].cand
    /\ LET g == job[c].gen
           o == NextObject(DOMAIN job[c].cand \ job[c].flushed)
           done == job[c].flushed \cup {o}
       IN  /\ o \notin DOMAIN rows[g]
           /\ rows' = [rows EXCEPT ![g] = WithRow(@, o, job[c].cand[o])]
           /\ counter' = [counter EXCEPT ![g] = Tally(g, Cardinality(done))]
           /\ Goto(c, [job[c] EXCEPT !.flushed = done])
    /\ UNCHANGED <<remote, authority, control, manifest, pinned,
                   staging, reader, issued, faults>>

Seal(c) ==
    /\ job[c].at = "flush" /\ job[c].flushed = DOMAIN job[c].cand
    /\ LET g == job[c].gen
       IN  /\ manifest' = [manifest EXCEPT ![g] = Sealed(c)]
           /\ counter' = [counter EXCEPT ![g] =
                 [count |-> Cardinality(job[c].flushed), sealed |-> TRUE]]
    /\ Goto(c, [job[c] EXCEPT !.at = "proof"])
    /\ UNCHANGED <<remote, authority, control, rows, pinned,
                   staging, reader, issued, faults>>

Unstaged(c) == [staging EXCEPT ![c] = @ \ {job[c].gen}]

\* publishAtomically up to the digest of what is on disk
Prove(c) ==
    /\ job[c].at = "proof"
    /\ IF Intact(job[c].gen)
       THEN /\ Goto(c, [job[c] EXCEPT !.at = "publish", !.proof = rows[job[c].gen]])
            /\ UNCHANGED staging
       ELSE Goto(c, Idle) /\ staging' = Unstaged(c)
    /\ UNCHANGED <<remote, disk, reader, issued, faults>>

\* the stage is still what was proved
CandidateHolds(c) ==
    LET g == job[c].gen
    IN  /\ manifest[g] # None /\ manifest[g].sealed
        /\ counter[g] # None /\ counter[g].sealed
        /\ manifest[g].digest = job[c].proof
        /\ counter[g].count = manifest[g].count
        /\ Cardinality(DOMAIN rows[g]) = counter[g].count

\* the pointer is still the one the candidate was made for
PointerHolds(c) ==
    LET m == manifest[job[c].gen]
    IN  IF Ready
        THEN /\ control.gen = job[c].before.active
             /\ control.cursor = job[c].before.cursor
             /\ m.parent # None => m.parent = control.gen /\ m.input = control.cursor
        ELSE job[c].before.active = None /\ m.parent = None /\ m.depth = 0

\* prepareInventoryAuthorityPublication
AuthorityHolds(c) ==
    /\ authority.rev = job[c].before.rev
    /\ authority.cursor = job[c].before.cursor
    /\ ~authority.unresolved
    /\ ~job[c].delta => authority.batches = {}

CursorOnly(c) == [authority EXCEPT !.rev = @ + 1, !.cursor = job[c].terminal]
\* the document that is published with the pointer
PublishedAuthority(c) ==
    [authority EXCEPT !.rev = @ + 1, !.cursor = job[c].terminal,
                      !.batches = IF job[c].delta
                                  THEN @ \cup {[from |-> job[c].before.cursor,
                                                to |-> job[c].terminal]}
                                  ELSE @]

Publish(c) ==
    /\ job[c].at = "publish"
    /\ LET g == job[c].gen
           accepted == CandidateHolds(c) /\ PointerHolds(c) /\ AuthorityHolds(c)
       IN  \/ ~accepted /\ UNCHANGED disk
           \/ /\ accepted /\ authority.rev < MaxRev
              /\ authority' = PublishedAuthority(c)
              /\ manifest' = [manifest EXCEPT ![g].rev = authority.rev + 1]
              /\ control' = [status |-> "ready", gen |-> g,
                             cursor |-> job[c].terminal, rev |-> authority.rev + 1]
              /\ UNCHANGED <<counter, rows, pinned>>
    /\ Goto(c, Idle)
    /\ staging' = Unstaged(c)
    /\ UNCHANGED <<remote, reader, issued, faults>>

\* any other failure: of the provider, of a transaction, of the second snapshot
GiveUp(c) ==
    /\ job[c] # Idle /\ ~(reader[c].mine /\ reader[c].at # "none")
    /\ IF job[c].gen \in staging[c] THEN Fault ELSE UNCHANGED faults
    /\ Goto(c, Idle)
    /\ staging' = Unstaged(c)
    /\ UNCHANGED <<remote, disk, reader, issued>>

----------------------------------------------------------------------------
(* Collecting *)

KeptUnpinned(c) == Chain(control.gen) \cup staging[c] \cup reader[c].gens
\* what a collector in this context can see is in use
Kept(c) == Chain(control.gen) \cup staging[c] \cup reader[c].gens
           \cup UNION {pinned[p] : p \in Pins}

Unreachable(c) == {g \in Gens \ Kept(c) : manifest[g] # None}
Abandoned(c) == {g \in Gens \ Kept(c) : counter[g] # None}
\* generations first, then stage counters that have lost theirs
Victims(c) == IF Unreachable(c) # {} THEN Unreachable(c) ELSE Abandoned(c)

\* the rows one transaction deletes, in the order of their keys
Batch(r) == IF Cardinality(DOMAIN r) < GcBatch THEN DOMAIN r
            ELSE CHOOSE S \in SUBSET DOMAIN r : Cardinality(S) = GcBatch

\* the batch emptied the generation, so its marker may go with it
Emptied(r) == Cardinality(Batch(r)) < GcBatch

\* one pass of collectGarbage
Collect(c) ==
    /\ Ready /\ reader[c].at # "acquiring"
    /\ \E g \in Victims(c) :
          /\ rows' = [rows EXCEPT ![g] = Take(@, DOMAIN @ \ Batch(@))]
          /\ IF Emptied(rows[g])
             THEN /\ manifest' = [manifest EXCEPT ![g] = None]
                  /\ counter' = [counter EXCEPT ![g] = None]
             ELSE UNCHANGED <<manifest, counter>>
    /\ UNCHANGED <<remote, authority, control, pinned, memory, issued, faults>>

----------------------------------------------------------------------------
(* The account, and the death of a context *)

AccountChanges ==
    /\ Now < MaxCursor
    /\ \E o \in Objects, v \in {0, Now + 1} :
          remote[Now][o] # v /\ remote' = Append(remote, [remote[Now] EXCEPT ![o] = v])
    /\ UNCHANGED <<disk, memory, issued, faults>>

Crash(c) ==
    /\ staging[c] # {} \/ reader[c] # NoReader
    /\ Fault
    /\ job' = [job EXCEPT ![c] = Idle]
    /\ reader' = [reader EXCEPT ![c] = NoReader]
    /\ staging' = [staging EXCEPT ![c] = {}]
    /\ UNCHANGED <<remote, disk, issued>>

----------------------------------------------------------------------------
StoreInit ==
    /\ remote = <<[o \in Objects |-> IF o \in Initially THEN 1 ELSE 0]>>
    /\ authority = [rev |-> 0, cursor |-> 0, unresolved |-> FALSE, batches |-> {}]
    /\ control = [status |-> "none", gen |-> None, cursor |-> 0, rev |-> 0]
    /\ manifest = [g \in Gens |-> None]
    /\ counter = [g \in Gens |-> None]
    /\ rows = [g \in Gens |-> NoRows]
    /\ pinned = [p \in Pins |-> {}]
    /\ staging = [c \in Contexts |-> {}]
    /\ reader = [c \in Contexts |-> NoReader]
    /\ job = [c \in Contexts |-> Idle]
    /\ issued = 0 /\ faults = 0

Work(c) == \/ Materialize(c) \/ ReadBaseline(c) \/ ReadChanges(c)
           \/ Recheck(c) \/ Reserve(c) \/ Flush(c) \/ Seal(c) \/ Prove(c) \/ Publish(c)
Read(c) == OpenReadDone(c) \/ Release(c)

StoreNext ==
    \/ Save \/ AccountChanges
    \/ \E c \in Writers : \/ \E delta \in BOOLEAN : Begin(c, delta)
                          \/ OpenRead(c, TRUE) \/ Work(c) \/ GiveUp(c)
    \/ \E c \in Readers : OpenRead(c, FALSE)
    \/ \E c \in Collectors : Collect(c)
    \/ \E c \in Contexts : Read(c) \/ Crash(c)

StoreSpec == StoreInit /\ [][StoreNext]_storeVars

\* leases are returned, publications end, and the collector is called again
FairStoreSpec ==
    /\ StoreSpec
    /\ WF_storeVars(\E c \in Collectors : Collect(c))
    /\ \A c \in Contexts : WF_storeVars(Read(c))
    /\ \A c \in Writers : WF_storeVars(Work(c))

----------------------------------------------------------------------------
(* Properties *)

StoreTypeOK ==
    /\ Now \in 1..MaxCursor /\ \A k \in 1..Now : remote[k] \in Content
    /\ authority \in Authority
    /\ control \in Control
    /\ \A g \in Gens : /\ manifest[g] \in Manifest \cup {None}
                       /\ counter[g] \in Counter \cup {None}
                       /\ rows[g] \in Rows
    /\ pinned \in [Pins -> SUBSET Gens]
    /\ staging \in [Contexts -> SUBSET Gens]
    /\ reader \in [Contexts -> Reader]
    /\ job \in [Contexts -> Job]
    /\ issued \in 0..MaxGen
    /\ faults \in 0..MaxFaults

\* A layer that the active pointer or a reader pin reaches keeps exactly the
\* rows it was sealed with.
ReachableIntact ==
    /\ Ready => \A g \in Chain(control.gen) : Intact(g)
    /\ \A p \in Pins : \A g \in pinned[p] : Intact(g)

\* An inventory that is ready stands at the cursor of the authority document.
CursorFenced == Ready => control.cursor = authority.cursor

\* Under its lease a reader sees the account as of the lease's cursor, for as
\* long as it holds it.
LeaseReadsItsHorizon ==
    \A c \in Contexts : reader[c].at = "open" =>
        Effective(reader[c].gens) = remote[reader[c].cursor]

\* Rows that were written can still be found by the collector.
RowsAccounted ==
    \A g \in Gens : DOMAIN rows[g] # {} => manifest[g] # None \/ counter[g] # None

\* A layer nobody can reach is collected, whatever interrupted its making or
\* its collection, unless the inventory is withdrawn meanwhile.
Garbage(g) == /\ manifest[g] # None \/ counter[g] # None
              /\ \A h \in Active : g \notin Chain(h)
              /\ \A p \in Pins : g \notin pinned[p]
              /\ \A c \in Contexts : g \notin staging[c]
GarbageIsCollected == []<>(Ready => \A g \in Gens : ~Garbage(g))

\* What readers are shown is the account at the canonical cursor, and the
\* cursor carries along what it passes.
View == INSTANCE InventoryView WITH
    Contents <- Content, history <- remote,
    at <- authority.cursor,
    owed <- UNION {(b.from + 1)..b.to : b \in authority.batches},
    view <- {[content |-> Effective(Chain(g)),
              made |-> IF Parent(g) = None THEN "whole" ELSE "patched"] : g \in Active}
PublishesViews == View!ViewSpec
=============================================================================
