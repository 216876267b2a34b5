------------------------ MODULE InventoryStoreProofs ------------------------
(***************************************************************************)
(* InventoryStore for every number of contexts, objects, generations and   *)
(* pins: what the active pointer or a reader pin reaches is exactly what   *)
(* was sealed, although every context stages, publishes and collects in    *)
(* transactions of its own; the inventory stands at the cursor; and no row *)
(* is left that a collector could not find.                                *)
(***************************************************************************)
EXTENDS InventoryStore, FiniteSetTheorems, WellFoundedInduction, TLAPS

----------------------------------------------------------------------------
(* Rows *)

LEMMA RowsAre ==
    ASSUME NEW r
    PROVE  r \in Rows <=> DOMAIN r \subseteq Objects /\ r \in [DOMAIN r -> Cursors]
BY DEF Rows

LEMMA RowsFinite ==
    ASSUME NEW r \in Rows
    PROVE  IsFiniteSet(DOMAIN r) /\ Cardinality(DOMAIN r) \in Nat
BY RowsAre, InventoryAssumption, FS_Subset, FS_CardinalityType

LEMMA NoRowsAreRows == NoRows \in Rows
<1>1. DOMAIN NoRows = {} /\ NoRows \in [{} -> Cursors]
  BY DEF NoRows
<1> QED BY <1>1, RowsAre

LEMMA TakeIsRows ==
    ASSUME NEW f, NEW S \in SUBSET Objects, \A o \in S : f[o] \in Cursors
    PROVE  /\ Take(f, S) \in Rows /\ DOMAIN Take(f, S) = S
           /\ \A o \in S : Take(f, S)[o] = f[o]
<1>1. /\ DOMAIN Take(f, S) = S /\ Take(f, S) \in [S -> Cursors]
      /\ \A o \in S : Take(f, S)[o] = f[o]
  BY DEF Take
<1> QED BY <1>1, RowsAre

LEMMA WithRowIsRows ==
    ASSUME NEW r \in Rows, NEW o \in Objects, NEW v \in Cursors
    PROVE  WithRow(r, o, v) \in Rows
<1>1. DOMAIN r \subseteq Objects /\ r \in [DOMAIN r -> Cursors]
  BY RowsAre
<1>2. /\ DOMAIN WithRow(r, o, v) = DOMAIN r \cup {o}
      /\ WithRow(r, o, v) \in [DOMAIN r \cup {o} -> Cursors]
  BY <1>1 DEF WithRow
<1> QED BY <1>1, <1>2, RowsAre

\* every row of r is in s, with the same version
Within(r, s) == DOMAIN r \subseteq DOMAIN s /\ \A o \in DOMAIN r : r[o] = s[o]

\* as many rows as there were, and none that was not there, are the same rows
LEMMA SameRows ==
    ASSUME NEW r \in Rows, NEW s \in Rows, Within(r, s),
           Cardinality(DOMAIN r) = Cardinality(DOMAIN s)
    PROVE  r = s
<1>1. DOMAIN r = DOMAIN s
  BY RowsFinite, FS_Subset DEF Within
<1>2. r \in [DOMAIN r -> Cursors] /\ s \in [DOMAIN s -> Cursors]
  BY RowsAre
<1> QED BY <1>1, <1>2 DEF Within

----------------------------------------------------------------------------
(* The topmost row *)

\* a set of depths that is not empty has a greatest element
LEMMA Greatest ==
    ASSUME NEW n \in Nat, NEW D \in SUBSET (0..n), D # {}
    PROVE  \E d \in D : \A e \in D : e <= d
<1> DEFINE Above(d) == {e \in 0..n : e > d}
           T == {Above(d) : d \in D}
           R == StrictSubsetOrdering(0..n)
<1>1. IsFiniteSet(0..n)
  BY FS_Interval
<1>2. FiniteSubsetsOf(0..n) = SUBSET (0..n)
  BY <1>1, FS_FiniteSubsetsOfFinite
<1>3. IsWellFoundedOn(R, SUBSET (0..n))
  BY <1>2, FS_StrictSubsetOrderingWellFounded
<1>4. T \subseteq SUBSET (0..n) /\ T # {}
  OBVIOUS
<1>5. PICK x \in T : \A y \in T : <<y, x>> \notin R
  <2> HIDE DEF T, R
  <2> QED BY <1>3, <1>4, WFMin
<1>6. PICK d \in D : x = Above(d)
  BY <1>5
<1>7. SUFFICES ASSUME NEW e \in D, e > d PROVE FALSE
  OBVIOUS
<1>8. /\ Above(e) \in T /\ Above(e) \subseteq Above(d)
      /\ e \in Above(d) /\ e \notin Above(e)
  BY <1>7
<1>9. <<Above(e), x>> \in R
  <2>1. Above(e) \in SUBSET (0..n) /\ x \in SUBSET (0..n)
    BY <1>6
  <2>2. Above(e) \subseteq x /\ Above(e) # x
    BY <1>6, <1>8
  <2> HIDE DEF Above
  <2> QED BY <2>1, <2>2 DEF StrictSubsetOrdering
<1> QED BY <1>5, <1>8, <1>9

\* what a reader is shown is a version, whichever layer it comes from
LEMMA EffectiveIsRows ==
    ASSUME NEW S \in SUBSET Gens, rows \in [Gens -> Rows],
           \A g \in S : manifest[g] \in Manifest
    PROVE  Effective(S) \in Rows
<1>1. ASSUME NEW o \in Objects PROVE Lookup(S, o) \in Cursors
  <2> DEFINE H == Holding(S, o)
             D == {manifest[g].depth : g \in H}
  <2>1. CASE H = {}
    <3>1. 0 \in Cursors
      BY InventoryAssumption DEF Cursors
    <3> QED BY <2>1, <3>1 DEF Lookup
  <2>2. CASE H # {}
    <3>1. H \subseteq S /\ \A g \in H : o \in DOMAIN rows[g]
      BY DEF Holding
    <3>2. D \in SUBSET (0..MaxDepth) /\ D # {}
      BY <2>2, <3>1 DEF Manifest
    <3>3. PICK d \in D : \A e \in D : e <= d
      <4> HIDE DEF D
      <4> QED BY <3>2, Greatest, InventoryAssumption
    <3>4. \E g \in H : \A h \in H : manifest[h].depth <= manifest[g].depth
      BY <3>3
    <3>5. TopOf(H) \in H
      <4> HIDE DEF H
      <4> QED BY <3>4 DEF TopOf
    <3>6. /\ rows[TopOf(H)] \in Rows /\ o \in DOMAIN rows[TopOf(H)]
      BY <3>1, <3>5
    <3>7. rows[TopOf(H)][o] \in Cursors
      BY <3>6, RowsAre
    <3> QED BY <2>2, <3>7 DEF Lookup
  <2> QED BY <2>1, <2>2
<1>2. /\ DOMAIN Effective(S) = Objects
      /\ Effective(S) \in [Objects -> Cursors]
  BY <1>1 DEF Effective
<1> QED BY <1>2, RowsAre

----------------------------------------------------------------------------
(* Chains *)

LEMMA ChainIsClosed ==
    ASSUME NEW g \in Gens, \A h \in Gens : Parent(h) \in Gens \cup {None}
    PROVE  g \in Chain(g) /\ Chain(g) \subseteq Gens /\ Closed(Chain(g))
BY DEF Chain, Closed

LEMMA ChainIsLeast ==
    ASSUME NEW g \in Gens, NEW S \in SUBSET Gens, g \in S, Closed(S)
    PROVE  Chain(g) \subseteq S
BY DEF Chain

----------------------------------------------------------------------------
(* The inductive invariant *)

Typed ==
    /\ remote \in Seq(Content) /\ Now \in 1..MaxCursor
    /\ authority \in Authority
    /\ control \in Control
    /\ manifest \in [Gens -> Manifest \cup {None}]
    /\ counter \in [Gens -> Counter \cup {None}]
    /\ rows \in [Gens -> Rows]
    /\ pinned \in [Pins -> SUBSET Gens]
    /\ staging \in [Contexts -> SUBSET Gens]
    /\ reader \in [Contexts -> Reader]
    /\ job \in [Contexts -> Job]
    /\ issued \in 0..MaxGen
    /\ faults \in 0..MaxFaults
    /\ Ready => control.gen \in Gens

\* the pointer is in a closed set of layers that are intact
ActiveIntact ==
    Ready => \E S \in SUBSET Gens :
                /\ control.gen \in S /\ Closed(S)
                /\ \A g \in S : Intact(g)

PinnedIntact == \A p \in Pins : \A g \in pinned[p] : Intact(g)

Owning == {"flush", "proof", "publish"}
\* what a publication knows of its layer, with manifests m, rows r, n keys issued
JobGood(j, m, r, n) ==
    /\ j.at \in Owning => j.gen \in 1..n
    /\ j.at \notin Owning => j.flushed = {}
    /\ j.at = "flush" =>
          /\ m[j.gen] = None \/ ~m[j.gen].sealed
          /\ j.flushed \subseteq DOMAIN j.cand
    /\ j.at = "publish" =>
          /\ Within(r[j.gen], j.proof)
          /\ m[j.gen] # None => m[j.gen].count = Cardinality(DOMAIN j.proof)
Jobs == \A c \in Contexts : JobGood(job[c], manifest, rows, issued)
Apart == \A c, d \in Contexts :
    job[c].at \in Owning /\ job[d].at \in Owning /\ job[c].gen = job[d].gen => c = d
Unissued == \A g \in Gens : g > issued => manifest[g] = None

\* what a reader reads is what its pin protects, with pins p
ReaderGood(s, p) == s.at # "none" => s.pin \in Pins /\ s.gens = p[s.pin] /\ s.gens # {}
Readings == \A c \in Contexts : ReaderGood(reader[c], pinned)
OwnPins == \A c, d \in Contexts :
    reader[c].at # "none" /\ reader[d].at # "none" /\ reader[c].pin = reader[d].pin => c = d

StoreInv == /\ Typed /\ CursorFenced
            /\ ActiveIntact /\ PinnedIntact
            /\ Jobs /\ Apart /\ Unissued
            /\ Readings /\ OwnPins

LEMMA NoneIsNoGen == None \notin Gens /\ Gens \subseteq Nat
BY InventoryAssumption DEF Gens

LEMMA ParentTyped ==
    ASSUME Typed PROVE \A g \in Gens : Parent(g) \in Gens \cup {None}
BY DEF Typed, Parent, Manifest

\* the chain of the pointer is intact
LEMMA ActiveChain ==
    ASSUME StoreInv, Ready
    PROVE  /\ control.gen \in Chain(control.gen)
           /\ Chain(control.gen) \in SUBSET Gens /\ Closed(Chain(control.gen))
           /\ \A g \in Chain(control.gen) : Intact(g)
<1>1. control.gen \in Gens
  BY DEF StoreInv, Typed
<1>2. PICK S \in SUBSET Gens : /\ control.gen \in S /\ Closed(S)
                               /\ \A g \in S : Intact(g)
  BY DEF StoreInv, ActiveIntact
<1> QED BY <1>1, <1>2, ChainIsClosed, ChainIsLeast, ParentTyped DEF StoreInv

\* the two invariants that reach layers, when nothing they need is disturbed
LEMMA ReachKept ==
    ASSUME StoreInv,
           control' = control \/ control'.status = "invalid",
           \A p \in Pins : \A g \in pinned'[p] :
               g \in pinned[p] \/ (Ready /\ g \in Chain(control.gen)),
           manifest' \in [Gens -> Manifest \cup {None}],
           \A g \in Gens :
               \/ manifest'[g] = manifest[g] /\ rows'[g] = rows[g]
               \/ ~Intact(g)
               \/ g \notin Chain(control.gen) /\ \A p \in Pins : g \notin pinned[p]
    PROVE  ActiveIntact' /\ PinnedIntact'
<1>1. ASSUME Ready'
      PROVE  \E S \in SUBSET Gens : /\ control'.gen \in S /\ Closed(S)'
                                    /\ \A g \in S : Intact(g)'
  <2>1. Ready /\ control' = control
    BY <1>1 DEF Ready
  <2>2. \E S \in SUBSET Gens : /\ S = Chain(control.gen) /\ control.gen \in S
                               /\ Closed(S) /\ \A g \in S : Intact(g)
    BY <2>1, ActiveChain
  <2>3. PICK S \in SUBSET Gens : /\ S = Chain(control.gen) /\ control.gen \in S
                                 /\ Closed(S) /\ \A g \in S : Intact(g)
    BY <2>2
  <2>4. \A g \in S : manifest'[g] = manifest[g] /\ rows'[g] = rows[g]
    BY <2>3
  <2>5. Closed(S)'
    BY <2>3, <2>4 DEF Closed, Parent
  <2>6. \A g \in S : Intact(g)'
    BY <2>3, <2>4 DEF Intact
  <2> QED BY <2>1, <2>3, <2>5, <2>6
<1>2. ASSUME NEW p \in Pins, NEW g \in pinned'[p] PROVE Intact(g)'
  <2>1. /\ g \in Gens /\ Intact(g)
        /\ g \in pinned[p] \/ g \in Chain(control.gen)
    BY <1>2, ActiveChain DEF StoreInv, PinnedIntact, Typed
  <2> QED BY <2>1 DEF Intact
<1> QED BY <1>1, <1>2 DEF ActiveIntact, PinnedIntact

LEMMA DiskStill ==
    ASSUME StoreInv, UNCHANGED disk
    PROVE  ActiveIntact' /\ PinnedIntact' /\ CursorFenced'
<1>1. UNCHANGED <<authority, control, manifest, counter, rows, pinned>>
  BY DEF disk
<1>2. manifest' \in [Gens -> Manifest \cup {None}]
  BY <1>1 DEF StoreInv, Typed
<1>3. ActiveIntact' /\ PinnedIntact'
  <2>1. /\ \A p \in Pins : \A g \in pinned'[p] : g \in pinned[p]
        /\ \A g \in Gens : manifest'[g] = manifest[g] /\ rows'[g] = rows[g]
    BY <1>1
  <2> QED BY <1>1, <1>2, <2>1, ReachKept
<1>4. CursorFenced'
  BY <1>1 DEF StoreInv, CursorFenced, Ready
<1> QED BY <1>3, <1>4

\* one publication moves on
LEMMA JobMoves ==
    ASSUME StoreInv, NEW c \in Contexts, NEW j \in Job, Goto(c, j),
           JobGood(j, manifest', rows', issued'),
           \A d \in Contexts \ {c} : JobGood(job[d], manifest', rows', issued'),
           j.at \in Owning => \/ job[c].at \in Owning /\ job[c].gen = j.gen
                              \/ j.gen \in Nat /\ j.gen > issued
    PROVE  job' \in [Contexts -> Job] /\ Jobs' /\ Apart'
<1>1. /\ job' \in [Contexts -> Job] /\ job'[c] = j
      /\ \A d \in Contexts \ {c} : job'[d] = job[d]
  BY DEF Goto, StoreInv, Typed
<1>2. Jobs'
  BY <1>1 DEF Jobs
<1>3. Apart'
  <2>1. \A d \in Contexts : job[d].at \in Owning => job[d].gen \in 1..issued
    BY DEF StoreInv, Jobs, JobGood
  <2>2. issued \in Nat
    BY DEF StoreInv, Typed
  <2>3. \A d \in Contexts \ {c} :
           j.at \in Owning /\ job[d].at \in Owning => j.gen # job[d].gen
    BY <2>1, <2>2 DEF StoreInv, Apart
  <2> QED BY <1>1, <2>3 DEF StoreInv, Apart
<1> QED BY <1>1, <1>2, <1>3

\* a job that owns no layer has nothing to know
LEMMA NotOwning ==
    ASSUME NEW j, j.at \notin Owning, j.flushed = {}, NEW m, NEW r, NEW n
    PROVE  JobGood(j, m, r, n)
BY DEF JobGood, Owning

LEMMA IdleIsJob == Idle \in Job /\ Idle.at \notin Owning /\ Idle.flushed = {}
<1>1. 0 \in 0..MaxDepth /\ 0 \in Cursors /\ 0 \in 0..MaxRev
  BY InventoryAssumption DEF Cursors
<1>2. NoBefore \in Snapshot
  BY <1>1 DEF NoBefore, Snapshot
<1> QED BY <1>1, <1>2, NoRowsAreRows DEF Idle, Job, Owning

LEMMA NoReaderIsReader == NoReader \in Reader /\ NoReader.at = "none"
BY InventoryAssumption DEF NoReader, Reader, Cursors

\* only memory moves, and only in one job
LEMMA JobOnly ==
    ASSUME StoreInv, NEW c \in Contexts, NEW j \in Job, Goto(c, j),
           UNCHANGED <<remote, disk, reader, issued>>,
           staging' \in [Contexts -> SUBSET Gens], faults' \in 0..MaxFaults,
           JobGood(j, manifest, rows, issued),
           j.at \in Owning => job[c].at \in Owning /\ job[c].gen = j.gen
    PROVE  StoreInv'
<1>1. UNCHANGED <<authority, control, manifest, counter, rows, pinned>>
  BY DEF disk
<1>2. \A d \in Contexts \ {c} : JobGood(job[d], manifest', rows', issued')
  BY <1>1 DEF StoreInv, Jobs
<1>3. job' \in [Contexts -> Job] /\ Jobs' /\ Apart'
  BY <1>1, <1>2, JobMoves
<1>4. Typed'
  BY <1>1, <1>3 DEF StoreInv, Typed, Now, Ready
<1>5. Unissued' /\ Readings' /\ OwnPins'
  BY <1>1 DEF StoreInv, Unissued, Readings, OwnPins
<1> QED BY <1>3, <1>4, <1>5, DiskStill DEF StoreInv

----------------------------------------------------------------------------
(* The authority, the account and the readers *)

LEMMA SaveKeeps == ASSUME StoreInv, Save PROVE StoreInv'
<1>1. PICK a \in Updates(authority) : /\ control' = Unfenced(a)
                                      /\ authority' = [a EXCEPT !.rev = @ + 1]
  BY DEF Save
<1>2. authority \in Authority /\ control \in Control
  BY DEF StoreInv, Typed
<1>3. a \in Authority /\ a.rev = authority.rev
  <2>1. Now \in Cursors
    BY InventoryAssumption DEF StoreInv, Typed, Cursors
  <2>2. /\ Persisted(authority) \in Authority /\ Settled(authority) \in Authority
        /\ Persisted(authority).rev = authority.rev
        /\ Settled(authority).rev = authority.rev
    BY <1>2 DEF Persisted, Settled, Authority
  <2>3. \A b \in authority.batches : /\ Retired(authority, b) \in Authority
                                     /\ Retired(authority, b).rev = authority.rev
    BY <1>2 DEF Retired, Authority
  <2>4. Learned(authority, Now) \in Authority /\ Learned(authority, Now).rev = authority.rev
    <3>1. [from |-> authority.cursor, to |-> Now] \in Range2
      BY <1>2, <2>1 DEF Authority, Range2
    <3> QED BY <1>2, <2>1, <3>1 DEF Learned, Authority
  <2> QED BY <2>2, <2>3, <2>4 DEF Updates
<1>4. authority' \in Authority /\ authority'.cursor = a.cursor
  <2>1. a.rev + 1 \in 0..MaxRev
    BY <1>2, <1>3, InventoryAssumption DEF Save, Authority
  <2> QED BY <1>1, <1>3, <2>1 DEF Authority
<1>5. /\ control' \in Control
      /\ \/ control' = control /\ ~(Ready /\ a.cursor # authority.cursor)
         \/ control'.status = "invalid"
  BY <1>1, <1>2 DEF Unfenced, Control
<1>6. CursorFenced' /\ (Ready' => control'.gen \in Gens)
  BY <1>4, <1>5 DEF StoreInv, Typed, CursorFenced, Ready
<1>7. UNCHANGED <<remote, manifest, counter, rows, pinned, staging, reader, job, issued, faults>>
  BY DEF Save, memory
<1>8. ActiveIntact' /\ PinnedIntact'
  BY <1>5, <1>7, ReachKept DEF StoreInv, Typed
<1>9. Typed'
  BY <1>4, <1>5, <1>6, <1>7 DEF StoreInv, Typed, Now
<1> QED BY <1>6, <1>7, <1>8, <1>9
        DEF StoreInv, Jobs, Apart, Unissued, Readings, OwnPins

\* what is in memory and on disk does not depend on the account
LEMMA AccountKeeps == ASSUME StoreInv, AccountChanges PROVE StoreInv'
<1>1. UNCHANGED <<disk, staging, reader, job, issued, faults>>
  BY DEF AccountChanges, memory
<1>2. UNCHANGED <<authority, control, manifest, counter, rows, pinned>>
  BY <1>1 DEF disk
<1>3. remote' \in Seq(Content) /\ Len(remote)' \in 1..MaxCursor
  <2>1. PICK o \in Objects, v \in {0, Now + 1} :
           remote' = Append(remote, [remote[Now] EXCEPT ![o] = v])
    BY DEF AccountChanges
  <2>2. v \in Cursors /\ remote[Now] \in Content
    BY InventoryAssumption DEF AccountChanges, StoreInv, Typed, Now, Cursors
  <2>3. [remote[Now] EXCEPT ![o] = v] \in Content
    BY <2>2 DEF Content
  <2>4. remote' \in Seq(Content) /\ Len(remote') = Len(remote) + 1
    BY <2>1, <2>3 DEF StoreInv, Typed
  <2> QED BY <2>4, InventoryAssumption DEF AccountChanges, StoreInv, Typed, Now
<1>4. Typed'
  BY <1>1, <1>2, <1>3 DEF StoreInv, Typed, Now, Ready
<1> QED BY <1>1, <1>2, <1>4, DiskStill
        DEF StoreInv, Jobs, Apart, Unissued, Readings, OwnPins

LEMMA OpenReadKeeps ==
    ASSUME StoreInv, NEW c \in Contexts, NEW mine \in BOOLEAN, OpenRead(c, mine)
    PROVE  StoreInv'
<1> DEFINE C == Chain(control.gen)
           s(p) == [at |-> "acquiring", mine |-> mine, pin |-> p, gen |-> control.gen,
                    gens |-> C, cursor |-> control.cursor]
<1>1. PICK p \in FreshPin : /\ pinned' = [pinned EXCEPT ![p] = C]
                            /\ reader' = [reader EXCEPT ![c] = s(p)]
  BY DEF OpenRead
<1>2. /\ control.gen \in C /\ C \in SUBSET Gens /\ Ready
      /\ p \in Pins /\ pinned[p] = {}
  BY ActiveChain DEF OpenRead, FreshPin
<1>3. UNCHANGED <<remote, authority, control, manifest, counter, rows,
                  staging, job, issued, faults>>
  BY DEF OpenRead
<1>4. s(p) \in Reader
  BY <1>2 DEF Reader, StoreInv, Typed, Control
<1>5. /\ pinned' \in [Pins -> SUBSET Gens] /\ pinned'[p] = C
      /\ \A q \in Pins \ {p} : pinned'[q] = pinned[q]
  BY <1>1, <1>2 DEF StoreInv, Typed
<1>6. /\ reader' \in [Contexts -> Reader] /\ reader'[c] = s(p)
      /\ \A d \in Contexts \ {c} : reader'[d] = reader[d]
  BY <1>1, <1>4 DEF StoreInv, Typed
<1>7. Typed' /\ CursorFenced' /\ Unissued' /\ Jobs' /\ Apart'
  BY <1>3, <1>5, <1>6 DEF StoreInv, Typed, Now, Ready, CursorFenced, Unissued, Jobs, Apart
<1>8. ActiveIntact' /\ PinnedIntact'
  <2>1. \A q \in Pins : \A g \in pinned'[q] :
            g \in pinned[q] \/ (Ready /\ g \in Chain(control.gen))
    BY <1>2, <1>5
  <2> QED BY <1>3, <2>1, ReachKept DEF StoreInv, Typed
<1>9. \A d \in Contexts \ {c} : reader[d].at # "none" => reader[d].pin # p
  BY <1>2 DEF StoreInv, Readings, ReaderGood
<1>10. Readings'
  <2>1. ReaderGood(s(p), pinned')
    BY <1>2, <1>5 DEF ReaderGood
  <2>2. \A d \in Contexts \ {c} : ReaderGood(reader[d], pinned')
    BY <1>5, <1>9 DEF StoreInv, Readings, ReaderGood
  <2> QED BY <1>6, <2>1, <2>2 DEF Readings
<1>11. OwnPins'
  <2>1. s(p).pin = p
    OBVIOUS
  <2> HIDE DEF s
  <2> QED BY <1>6, <1>9, <2>1 DEF StoreInv, OwnPins
<1> QED BY <1>7, <1>8, <1>10, <1>11 DEF StoreInv

LEMMA OpenReadDoneKeeps ==
    ASSUME StoreInv, NEW c \in Contexts, OpenReadDone(c) PROVE StoreInv'
<1>1. UNCHANGED <<remote, disk, staging, job, issued, faults>>
  BY DEF OpenReadDone
<1>2. UNCHANGED <<authority, control, manifest, counter, rows, pinned>>
  BY <1>1 DEF disk
<1> DEFINE s == [reader[c] EXCEPT !.at = "open"]
<1>3. /\ s \in Reader /\ s.at = "open" /\ reader[c].at # "none"
      /\ s.pin = reader[c].pin /\ s.gens = reader[c].gens
  BY DEF OpenReadDone, StoreInv, Typed, Reader
<1>4. reader' = [reader EXCEPT ![c] = s]
  BY DEF OpenReadDone
<1> HIDE DEF s
<1>5. /\ reader' \in [Contexts -> Reader] /\ reader'[c] = s
      /\ \A d \in Contexts \ {c} : reader'[d] = reader[d]
  BY <1>3, <1>4 DEF StoreInv, Typed
<1>6. Readings' /\ OwnPins'
  BY <1>2, <1>3, <1>5 DEF StoreInv, Readings, ReaderGood, OwnPins
<1>7. Typed' /\ Unissued' /\ Jobs' /\ Apart'
  BY <1>1, <1>2, <1>5 DEF StoreInv, Typed, Now, Ready, Unissued, Jobs, Apart
<1> QED BY <1>1, <1>6, <1>7, DiskStill DEF StoreInv

\* a lease is returned: its pin is nobody else's
LEMMA ReleasedKeeps ==
    ASSUME StoreInv, NEW c \in Contexts, Released(c), reader[c].at # "none",
           UNCHANGED <<authority, control, manifest, counter, rows>>
    PROVE  /\ pinned' \in [Pins -> SUBSET Gens] /\ reader' \in [Contexts -> Reader]
           /\ ActiveIntact' /\ PinnedIntact' /\ Readings' /\ OwnPins'
<1>1. /\ pinned' \in [Pins -> SUBSET Gens]
      /\ \A p \in Pins : pinned'[p] = IF p = reader[c].pin THEN {} ELSE pinned[p]
  BY DEF Released, StoreInv, Typed
<1>2. /\ reader' \in [Contexts -> Reader] /\ reader'[c] = NoReader
      /\ \A d \in Contexts \ {c} : reader'[d] = reader[d]
  BY NoReaderIsReader DEF Released, StoreInv, Typed
<1>3. ActiveIntact' /\ PinnedIntact'
  BY <1>1, ReachKept DEF StoreInv, Typed
<1>4. Readings' /\ OwnPins'
  BY <1>1, <1>2, NoReaderIsReader DEF StoreInv, Readings, ReaderGood, OwnPins
<1> QED BY <1>1, <1>2, <1>3, <1>4

LEMMA ReleaseKeeps == ASSUME StoreInv, NEW c \in Contexts, Release(c) PROVE StoreInv'
<1>1. UNCHANGED <<remote, authority, control, manifest, counter, rows,
                  staging, job, issued, faults>>
  BY DEF Release
<1>2. /\ pinned' \in [Pins -> SUBSET Gens] /\ reader' \in [Contexts -> Reader]
      /\ ActiveIntact' /\ PinnedIntact' /\ Readings' /\ OwnPins'
  BY <1>1, ReleasedKeeps DEF Release
<1> QED BY <1>1, <1>2 DEF StoreInv, Typed, Now, Ready, CursorFenced, Unissued, Jobs, Apart

----------------------------------------------------------------------------
(* A publication, up to its stage *)

LEMMA JobFacts ==
    ASSUME StoreInv, NEW c \in Contexts
    PROVE  /\ job[c] \in Job /\ JobGood(job[c], manifest, rows, issued)
           /\ staging \in [Contexts -> SUBSET Gens] /\ faults \in 0..MaxFaults
           /\ Unstaged(c) \in [Contexts -> SUBSET Gens]
           /\ Now \in Cursors /\ remote[Now] \in Content
           /\ 1..issued \subseteq Gens
BY InventoryAssumption DEF StoreInv, Typed, Jobs, Unstaged, Now, Cursors, Gens

LEMMA BeginKeeps ==
    ASSUME StoreInv, NEW c \in Contexts, NEW delta \in BOOLEAN, Begin(c, delta)
    PROVE  StoreInv'
<1> DEFINE d == IF delta THEN manifest[control.gen].depth + 1 ELSE 0
           j == [Idle EXCEPT !.at = IF delta THEN "open" ELSE "provider",
                             !.delta = delta, !.before = CurrentSnapshot, !.depth = d]
<1>1. d \in 0..MaxDepth
  <2>1. CASE delta
    <3>1. manifest[control.gen] \in Manifest /\ manifest[control.gen].depth < MaxDepth
      BY <2>1 DEF Begin, MayExtend, SnapshotTrusted, Ready, StoreInv, Typed
    <3> QED BY <2>1, <3>1, InventoryAssumption DEF Manifest
  <2> QED BY <2>1, InventoryAssumption
<1>2. CurrentSnapshot \in Snapshot
  BY DEF CurrentSnapshot, Snapshot, StoreInv, Typed, Authority
<1>3. Goto(c, j)
  BY DEF Begin
<1> HIDE DEF d
<1>4. j \in Job /\ j.at \notin Owning /\ j.flushed = {}
  <2>1. (IF delta THEN "open" ELSE "provider") \in {"open", "provider"}
    OBVIOUS
  <2> QED BY <1>1, <1>2, <2>1, IdleIsJob DEF Job, Owning
<1> HIDE DEF j
<1> QED BY <1>3, <1>4, NotOwning, JobOnly, JobFacts DEF Begin

\* the objects an account holds, or that changed, are rows of its content
LEMMA ContentTaken ==
    ASSUME NEW content \in Content, NEW S \in SUBSET Objects
    PROVE  Take(content, S) \in Rows
BY TakeIsRows DEF Content

LEMMA ReadKeeps ==
    ASSUME StoreInv, NEW c \in Contexts, ReadBaseline(c) \/ ReadChanges(c) \/ Recheck(c)
    PROVE  StoreInv'
<1>1. UNCHANGED <<remote, disk, staging, reader, issued, faults>>
  BY DEF ReadBaseline, ReadChanges, Recheck
<1>2. \E j \in Job : Goto(c, j) /\ j.at \notin Owning /\ j.flushed = {}
  <2>1. /\ job[c] \in Job
        /\ job[c].at \in {"provider", "again"} => job[c].flushed = {}
    BY JobFacts DEF JobGood, Owning
  <2>2. CASE ReadBaseline(c)
    <3> DEFINE cand == Take(remote[Now], Present(remote[Now]))
               j == [job[c] EXCEPT !.at = "again", !.terminal = Now, !.cand = cand]
    <3>1. cand \in Rows
      BY ContentTaken, JobFacts DEF Present
    <3>2. Goto(c, j) /\ job[c].at = "provider"
      BY <2>2 DEF ReadBaseline
    <3> HIDE DEF cand
    <3>3. j \in Job /\ j.at \notin Owning /\ j.flushed = {}
      BY <2>1, <3>1, <3>2, JobFacts DEF Job, Owning
    <3> QED BY <3>2, <3>3
  <2>3. CASE ReadChanges(c)
    <3> DEFINE cand == Take(remote[Now], Changed(job[c].before.cursor, Now))
               j == [job[c] EXCEPT !.at = "again", !.terminal = Now,
                                   !.base = NoRows, !.cand = cand]
    <3>1. cand \in Rows
      BY ContentTaken, JobFacts DEF Changed
    <3>2. Goto(c, j) /\ job[c].at = "provider"
      BY <2>3 DEF ReadChanges
    <3> HIDE DEF cand
    <3>3. j \in Job /\ j.at \notin Owning /\ j.flushed = {}
      BY <2>1, <3>1, <3>2, JobFacts, NoRowsAreRows DEF Job, Owning
    <3> QED BY <3>2, <3>3
  <2>4. CASE Recheck(c)
    <3>1. [job[c] EXCEPT !.at = "reserve"] \in Job
      BY <2>1 DEF Job
    <3> QED BY <2>1, <2>4, <3>1 DEF Recheck, Job, Owning
  <2> QED BY <2>2, <2>3, <2>4
<1>3. PICK j \in Job : Goto(c, j) /\ j.at \notin Owning /\ j.flushed = {}
  BY <1>2
<1> QED BY <1>1, <1>3, NotOwning, JobOnly, JobFacts

LEMMA MaterializeKeeps ==
    ASSUME StoreInv, NEW c \in Contexts, Materialize(c) PROVE StoreInv'
<1> DEFINE base == Effective(reader[c].gens)
           j == [job[c] EXCEPT !.at = "provider", !.base = base]
<1>1. base \in Rows
  <2>1. /\ reader[c].gens \in SUBSET Gens
        /\ \A g \in reader[c].gens : Intact(g)
    BY DEF Materialize, StoreInv, Typed, Readings, ReaderGood, PinnedIntact
  <2>2. \A g \in reader[c].gens : manifest[g] \in Manifest
    BY <2>1 DEF Intact, StoreInv, Typed
  <2> QED BY <2>1, <2>2, EffectiveIsRows DEF StoreInv, Typed
<1>2. /\ UNCHANGED <<remote, authority, control, manifest, counter, rows,
                     staging, issued, faults>>
      /\ Goto(c, j) \/ Goto(c, Idle)
      /\ job[c].at = "open" /\ job[c] \in Job /\ job[c].flushed = {}
  BY JobFacts DEF Materialize, JobGood, Owning
<1> HIDE DEF base
<1>3. j \in Job /\ j.at \notin Owning /\ j.flushed = {}
  BY <1>1, <1>2 DEF Job, Owning
<1> HIDE DEF j
<1>4. PICK k \in Job : Goto(c, k) /\ k.at \notin Owning /\ k.flushed = {}
  BY <1>2, <1>3, IdleIsJob
<1>5. \A d \in Contexts \ {c} : JobGood(job[d], manifest', rows', issued')
  BY <1>2 DEF StoreInv, Jobs
<1>6. job' \in [Contexts -> Job] /\ Jobs' /\ Apart'
  BY <1>4, <1>5, NotOwning, JobMoves
<1>7. /\ pinned' \in [Pins -> SUBSET Gens] /\ reader' \in [Contexts -> Reader]
      /\ ActiveIntact' /\ PinnedIntact' /\ Readings' /\ OwnPins'
  BY <1>2, ReleasedKeeps DEF Materialize
<1> QED BY <1>2, <1>6, <1>7 DEF StoreInv, Typed, Now, Ready, CursorFenced, Unissued

LEMMA GiveUpKeeps == ASSUME StoreInv, NEW c \in Contexts, GiveUp(c) PROVE StoreInv'
<1>1. faults' \in 0..MaxFaults
  BY InventoryAssumption, JobFacts DEF GiveUp, Fault
<1> QED BY <1>1, IdleIsJob, NotOwning, JobOnly, JobFacts DEF GiveUp

----------------------------------------------------------------------------
(* The stage *)

\* no other publication works on the layer
LEMMA Others ==
    ASSUME StoreInv, NEW c \in Contexts, job[c].at \in Owning, NEW d \in Contexts \ {c},
           \A g \in Gens \ {job[c].gen} : manifest'[g] = manifest[g] /\ rows'[g] = rows[g],
           issued' = issued
    PROVE  JobGood(job[d], manifest', rows', issued')
<1>1. JobGood(job[d], manifest, rows, issued)
  BY JobFacts
<1>2. CASE job[d].at \in Owning
  <2>1. job[d].gen # job[c].gen /\ job[d].gen \in Gens
    BY <1>1, <1>2, JobFacts DEF StoreInv, Apart, JobGood
  <2> QED BY <1>1, <2>1 DEF JobGood
<1>3. CASE job[d].at \notin Owning
  BY <1>1, <1>3 DEF JobGood, Owning
<1> QED BY <1>2, <1>3

LEMMA LayerIsManifest ==
    ASSUME StoreInv, NEW c \in Contexts
    PROVE  /\ Unsealed(c) \in Manifest /\ Sealed(c) \in Manifest
           /\ ~Unsealed(c).sealed
<1>1. /\ job[c].before \in Snapshot /\ job[c].terminal \in Cursors
      /\ job[c].depth \in 0..MaxDepth /\ job[c].cand \in Rows
  BY JobFacts DEF Job
<1>2. /\ Parentage(c) \in Gens \cup {None}
      /\ (IF job[c].delta THEN job[c].before.cursor ELSE job[c].terminal) \in Cursors
  BY <1>1 DEF Parentage, Snapshot
<1>3. Unsealed(c) \in Manifest /\ ~Unsealed(c).sealed
  BY <1>1, <1>2, NoRowsAreRows DEF Unsealed, Manifest, Snapshot
<1>4. Sealed(c) \in Manifest
  BY <1>1, <1>3, RowsFinite DEF Sealed, Manifest
<1> QED BY <1>3, <1>4

LEMMA ReserveKeeps == ASSUME StoreInv, NEW c \in Contexts, Reserve(c) PROVE StoreInv'
<1>1. job[c] \in Job /\ job[c].at = "reserve" /\ job[c].flushed = {}
  BY JobFacts DEF Reserve, JobGood, Owning
<1>2. CASE Goto(c, Idle) /\ UNCHANGED <<disk, staging, issued>>
  BY <1>2, IdleIsJob, NotOwning, JobOnly, JobFacts DEF Reserve
<1>3. CASE /\ issued < MaxGen /\ issued' = issued + 1
           /\ manifest' = [manifest EXCEPT ![issued + 1] = Unsealed(c)]
           /\ counter' = [counter EXCEPT ![issued + 1] = [count |-> 0, sealed |-> FALSE]]
           /\ staging' = [staging EXCEPT ![c] = @ \cup {issued + 1}]
           /\ Goto(c, [job[c] EXCEPT !.at = "flush", !.gen = issued + 1])
           /\ UNCHANGED <<authority, control, rows, pinned>>
  <2> DEFINE g == issued + 1
             j == [job[c] EXCEPT !.at = "flush", !.gen = g]
  <2>1. /\ g \in Gens /\ g > issued /\ manifest[g] = None /\ issued \in Nat
        /\ issued' \in 0..MaxGen /\ issued' = g
    BY <1>3, InventoryAssumption DEF StoreInv, Typed, Unissued, Gens
  <2>2. /\ manifest' \in [Gens -> Manifest \cup {None}]
        /\ manifest'[g] = Unsealed(c)
        /\ \A h \in Gens \ {g} : manifest'[h] = manifest[h]
    <3> HIDE DEF g
    <3> QED BY <1>3, <2>1, LayerIsManifest DEF StoreInv, Typed, g
  <2>3. counter' \in [Gens -> Counter \cup {None}]
    <3>1. [count |-> 0, sealed |-> FALSE] \in Counter
      BY DEF Counter
    <3> QED BY <1>3, <2>1, <3>1 DEF StoreInv, Typed
  <2>4. /\ j \in Job /\ j.at = "flush" /\ j.gen = g
        /\ j.flushed = {}
    BY <1>1, <2>1 DEF Job
  <2>5. Goto(c, j)
    BY <1>3
  <2> HIDE DEF j
  <2>6. JobGood(j, manifest', rows', issued')
    BY <2>1, <2>2, <2>4, LayerIsManifest DEF JobGood, Owning
  <2>7. ASSUME NEW d \in Contexts \ {c} PROVE JobGood(job[d], manifest', rows', issued')
    <3>1. JobGood(job[d], manifest, rows, issued)
      BY JobFacts
    <3>2. job[d].at \in Owning => /\ job[d].gen \in 1..issued /\ job[d].gen \in 1..issued'
                                  /\ job[d].gen \in Gens \ {g}
      BY <2>1, <3>1, JobFacts DEF JobGood
    <3>3. UNCHANGED rows
      BY <1>3
    <3> HIDE DEF g
    <3> QED BY <2>2, <3>1, <3>2, <3>3 DEF JobGood, Owning
  <2>8. job' \in [Contexts -> Job] /\ Jobs' /\ Apart'
    BY <2>1, <2>4, <2>5, <2>6, <2>7, JobMoves
  <2>9. ActiveIntact' /\ PinnedIntact'
    <3>1. ~Intact(g)
      BY <2>1 DEF Intact
    <3> HIDE DEF g
    <3> QED BY <1>3, <2>2, <3>1, ReachKept
  <2>10. Unissued'
    BY <2>1, <2>2 DEF StoreInv, Unissued, Gens
  <2>11. staging' \in [Contexts -> SUBSET Gens] /\ UNCHANGED <<remote, reader, faults>>
    BY <1>3, <2>1 DEF Reserve, StoreInv, Typed
  <2> QED BY <1>3, <2>1, <2>2, <2>3, <2>8, <2>9, <2>10, <2>11
          DEF StoreInv, Typed, Now, Ready, CursorFenced, Readings, OwnPins
<1> QED BY <1>2, <1>3 DEF Reserve

LEMMA NextIsObject ==
    ASSUME NEW S, S # {} PROVE NextObject(S) \in S
BY DEF NextObject

\* what an unsealed layer is filled with is nobody's to read
LEMMA StageKeeps ==
    ASSUME StoreInv, NEW c \in Contexts, job[c].at = "flush",
           NEW m \in Manifest \cup {None}, NEW r \in Rows, NEW k \in Counter,
           NEW j \in Job, j.at \in Owning, j.gen = job[c].gen, Goto(c, j),
           manifest' = [manifest EXCEPT ![job[c].gen] = m],
           rows' = [rows EXCEPT ![job[c].gen] = r],
           counter' = [counter EXCEPT ![job[c].gen] = k],
           JobGood(j, manifest', rows', issued'),
           UNCHANGED <<remote, authority, control, pinned, staging, reader, issued, faults>>
    PROVE  StoreInv'
<1>1. PICK g \in Gens : g = job[c].gen
  BY JobFacts DEF JobGood, Owning
<1>2. ~Intact(g) /\ g \in 1..issued
  BY <1>1, JobFacts DEF JobGood, Owning, Intact
<1>3. /\ manifest' \in [Gens -> Manifest \cup {None}] /\ rows' \in [Gens -> Rows]
      /\ counter' \in [Gens -> Counter \cup {None}]
      /\ \A h \in Gens \ {g} : manifest'[h] = manifest[h] /\ rows'[h] = rows[h]
  BY <1>1 DEF StoreInv, Typed
<1>4. \A d \in Contexts \ {c} : JobGood(job[d], manifest', rows', issued')
  BY <1>1, <1>3, Others DEF Owning
<1>5. job' \in [Contexts -> Job] /\ Jobs' /\ Apart'
  BY <1>4, JobMoves DEF Owning
<1>6. ActiveIntact' /\ PinnedIntact'
  BY <1>2, <1>3, ReachKept
<1>7. Unissued'
  BY <1>2, <1>3 DEF StoreInv, Typed, Unissued, Gens
<1> QED BY <1>3, <1>5, <1>6, <1>7
        DEF StoreInv, Typed, Now, Ready, CursorFenced, Readings, OwnPins

LEMMA FlushKeeps == ASSUME StoreInv, NEW c \in Contexts, Flush(c) PROVE StoreInv'
<1> DEFINE g == job[c].gen
           o == NextObject(DOMAIN job[c].cand \ job[c].flushed)
           done == job[c].flushed \cup {o}
           j == [job[c] EXCEPT !.flushed = done]
           k == Tally(g, Cardinality(done))
           r == WithRow(rows[g], o, job[c].cand[o])
<1>1. /\ job[c] \in Job /\ job[c].at = "flush" /\ g \in Gens /\ g \in 1..issued
      /\ manifest[g] = None \/ ~manifest[g].sealed
      /\ job[c].flushed \subseteq DOMAIN job[c].cand
      /\ job[c].flushed # DOMAIN job[c].cand
  BY JobFacts DEF Flush, JobGood, Owning
<1>2. o \in DOMAIN job[c].cand \ job[c].flushed
  BY <1>1, NextIsObject
<1>3. /\ DOMAIN job[c].cand \subseteq Objects
      /\ job[c].cand \in [DOMAIN job[c].cand -> Cursors]
  BY <1>1, RowsAre DEF Job
<1>4. /\ manifest' = [manifest EXCEPT ![g] = manifest[g]]
      /\ rows' = [rows EXCEPT ![g] = r] /\ counter' = [counter EXCEPT ![g] = k]
      /\ Goto(c, j)
      /\ UNCHANGED <<remote, authority, control, manifest, pinned,
                     staging, reader, issued, faults>>
  BY DEF Flush, StoreInv, Typed
<1> HIDE DEF o
<1>5. /\ done \subseteq DOMAIN job[c].cand /\ done \in SUBSET Objects
      /\ Cardinality(done) \in Nat
  BY <1>1, <1>2, <1>3, InventoryAssumption, FS_Subset, FS_CardinalityType
<1> HIDE DEF done
<1>6. j \in Job /\ j.at = "flush" /\ j.gen = g /\ j.flushed = done /\ j.cand = job[c].cand
  BY <1>1, <1>5 DEF Job
<1>7. k \in Counter
  BY <1>5 DEF Tally, Counter
<1>8. r \in Rows /\ manifest[g] \in Manifest \cup {None}
  BY <1>1, <1>2, <1>3, WithRowIsRows DEF StoreInv, Typed
<1>9. JobGood(j, manifest', rows', issued')
  BY <1>1, <1>4, <1>5, <1>6 DEF JobGood, Owning
<1> HIDE DEF j, k, r
<1> QED BY <1>1, <1>4, <1>6, <1>7, <1>8, <1>9, StageKeeps DEF Owning

LEMMA SealKeeps == ASSUME StoreInv, NEW c \in Contexts, Seal(c) PROVE StoreInv'
<1> DEFINE g == job[c].gen
           j == [job[c] EXCEPT !.at = "proof"]
           k == [count |-> Cardinality(job[c].flushed), sealed |-> TRUE]
<1>1. /\ job[c] \in Job /\ job[c].at = "flush" /\ g \in Gens /\ g \in 1..issued
      /\ job[c].flushed = DOMAIN job[c].cand
  BY JobFacts DEF Seal, JobGood, Owning
<1>2. /\ manifest' = [manifest EXCEPT ![g] = Sealed(c)]
      /\ rows' = [rows EXCEPT ![g] = rows[g]] /\ counter' = [counter EXCEPT ![g] = k]
      /\ Goto(c, j)
      /\ UNCHANGED <<remote, authority, control, rows, pinned,
                     staging, reader, issued, faults>>
  BY DEF Seal, StoreInv, Typed
<1>3. k \in Counter /\ rows[g] \in Rows
  BY <1>1, RowsFinite DEF Counter, Job, StoreInv, Typed
<1>4. j \in Job /\ j.at = "proof" /\ j.gen = g
  BY <1>1 DEF Job
<1> HIDE DEF j, k
<1>5. JobGood(j, manifest', rows', issued')
  BY <1>1, <1>2, <1>4 DEF JobGood, Owning
<1> QED BY <1>1, <1>2, <1>3, <1>4, <1>5, LayerIsManifest, StageKeeps DEF Owning

LEMMA ProveKeeps == ASSUME StoreInv, NEW c \in Contexts, Prove(c) PROVE StoreInv'
<1> DEFINE g == job[c].gen
           j == [job[c] EXCEPT !.at = "publish", !.proof = rows[g]]
<1>1. /\ job[c] \in Job /\ job[c].at = "proof" /\ g \in Gens /\ g \in 1..issued
      /\ rows[g] \in Rows
      /\ UNCHANGED <<remote, disk, reader, issued, faults>>
  BY JobFacts DEF Prove, JobGood, Owning, StoreInv, Typed
<1>2. CASE Intact(g)
  <2>1. Goto(c, j) /\ UNCHANGED staging
    BY <1>2 DEF Prove
  <2>2. j \in Job /\ j.at = "publish" /\ j.gen = g /\ j.proof = rows[g]
    BY <1>1 DEF Job
  <2> HIDE DEF j
  <2>3. JobGood(j, manifest, rows, issued)
    BY <1>1, <1>2, <2>2 DEF JobGood, Owning, Within, Intact
  <2> QED BY <1>1, <2>1, <2>2, <2>3, JobOnly, JobFacts DEF Owning
<1>3. CASE ~Intact(g)
  <2>1. Goto(c, Idle) /\ staging' = Unstaged(c)
    BY <1>3 DEF Prove
  <2> QED BY <1>1, <2>1, IdleIsJob, NotOwning, JobOnly, JobFacts
<1> QED BY <1>2, <1>3

----------------------------------------------------------------------------
(* Publication *)

\* a candidate that still counts as many rows as were proved has those rows
LEMMA CandidateIsIntact ==
    ASSUME StoreInv, NEW c \in Contexts, job[c].at = "publish", CandidateHolds(c)
    PROVE  Intact(job[c].gen) /\ manifest[job[c].gen] \in Manifest
<1> DEFINE g == job[c].gen
<1>1. /\ job[c] \in Job /\ g \in Gens
      /\ Within(rows[g], job[c].proof)
      /\ manifest[g] # None => manifest[g].count = Cardinality(DOMAIN job[c].proof)
  BY JobFacts DEF JobGood, Owning
<1>2. /\ manifest[g] # None /\ manifest[g].sealed /\ manifest[g].digest = job[c].proof
      /\ Cardinality(DOMAIN rows[g]) = manifest[g].count
  BY DEF CandidateHolds
<1>3. rows[g] \in Rows /\ job[c].proof \in Rows /\ manifest[g] \in Manifest
  BY <1>1, <1>2 DEF Job, StoreInv, Typed
<1>4. rows[g] = job[c].proof
  BY <1>1, <1>2, <1>3, SameRows
<1> QED BY <1>2, <1>3, <1>4 DEF Intact

LEMMA PublishedTyped ==
    ASSUME StoreInv, NEW c \in Contexts, authority.rev < MaxRev
    PROVE  /\ PublishedAuthority(c) \in Authority
           /\ PublishedAuthority(c).cursor = job[c].terminal
           /\ authority.rev + 1 \in 0..MaxRev
<1>1. /\ authority \in Authority /\ authority.rev + 1 \in 0..MaxRev
      /\ job[c].terminal \in Cursors /\ job[c].before.cursor \in Cursors
  BY JobFacts, InventoryAssumption DEF StoreInv, Typed, Authority, Job, Snapshot
<1> DEFINE b == IF job[c].delta
                THEN authority.batches \cup {[from |-> job[c].before.cursor,
                                              to |-> job[c].terminal]}
                ELSE authority.batches
<1>2. b \in SUBSET Range2
  BY <1>1 DEF Authority, Range2
<1>3. PublishedAuthority(c) = [authority EXCEPT !.rev = authority.rev + 1,
                                  !.cursor = job[c].terminal, !.batches = b]
  BY <1>1 DEF PublishedAuthority, Authority
<1> HIDE DEF b
<1> QED BY <1>1, <1>2, <1>3 DEF Authority

LEMMA PublishKeeps == ASSUME StoreInv, NEW c \in Contexts, Publish(c) PROVE StoreInv'
<1>1. /\ job[c] \in Job /\ job[c].at = "publish" /\ job[c].at \in Owning
      /\ Goto(c, Idle) /\ staging' = Unstaged(c)
      /\ UNCHANGED <<remote, reader, issued, faults>>
  BY JobFacts DEF Publish, Owning
<1>2. CASE UNCHANGED disk
  BY <1>1, <1>2, IdleIsJob, NotOwning, JobOnly, JobFacts
<1>3. CASE /\ CandidateHolds(c) /\ PointerHolds(c) /\ authority.rev < MaxRev
           /\ authority' = PublishedAuthority(c)
           /\ manifest' = [manifest EXCEPT ![job[c].gen].rev = authority.rev + 1]
           /\ control' = [status |-> "ready", gen |-> job[c].gen,
                          cursor |-> job[c].terminal, rev |-> authority.rev + 1]
           /\ UNCHANGED <<counter, rows, pinned>>
  <2>1. PICK g \in Gens : g = job[c].gen /\ g \in 1..issued
    BY <1>1, JobFacts DEF JobGood
  <2> DEFINE m == [manifest[g] EXCEPT !.rev = authority.rev + 1]
  <2>2. Intact(g) /\ manifest[g] \in Manifest
    BY <1>1, <1>3, <2>1, CandidateIsIntact
  <2>3. /\ m \in Manifest /\ m # None /\ m.parent = manifest[g].parent
        /\ m.sealed = manifest[g].sealed /\ m.count = manifest[g].count
        /\ m.digest = manifest[g].digest
    BY <1>3, <2>2, PublishedTyped, RecordsAssumption DEF Manifest
  <2>4. manifest' = [manifest EXCEPT ![g] = m]
    BY <1>3, <2>1
  <2> HIDE DEF m
  <2>5. /\ manifest' \in [Gens -> Manifest \cup {None}] /\ manifest'[g] = m
        /\ \A h \in Gens \ {g} : manifest'[h] = manifest[h]
        /\ UNCHANGED rows
    BY <1>3, <2>3, <2>4 DEF StoreInv, Typed
  <2>6. Intact(g)'
    BY <2>2, <2>3, <2>5 DEF Intact
  <2>7. \A h \in Gens : Intact(h) => Intact(h)'
    BY <2>5, <2>6 DEF Intact
  <2>8. \A h \in Gens : Parent(h)' = Parent(h)
    BY <2>2, <2>3, <2>5, RecordsAssumption DEF Parent
  <2>9. control'.gen = g
    BY <1>3, <2>1
  <2>10. \E S \in SUBSET Gens : /\ g \in S /\ Closed(S)' /\ \A h \in S : Intact(h)'
    <3>1. CASE Parent(g) = None
      <4>1. Closed({g})'
        BY <2>8, <3>1 DEF Closed
      <4> QED BY <2>6, <4>1
    <3>2. CASE Parent(g) # None
      <4>1. Ready /\ Parent(g) = control.gen
        BY <1>3, <2>1, <2>2, <3>2, RecordsAssumption DEF PointerHolds, Parent
      <4>2. PICK S \in SUBSET Gens : /\ control.gen \in S /\ Closed(S)
                                     /\ \A h \in S : Intact(h)
        BY <4>1 DEF StoreInv, ActiveIntact
      <4>3. Closed(S \cup {g})'
        BY <2>8, <4>1, <4>2 DEF Closed
      <4> QED BY <2>6, <2>7, <4>2, <4>3
    <3> QED BY <3>1, <3>2
  <2>11. ActiveIntact'
    BY <2>9, <2>10 DEF ActiveIntact
  <2>12. PinnedIntact'
    BY <1>3, <2>7 DEF StoreInv, PinnedIntact, Typed
  <2>13. \A d \in Contexts \ {c} : JobGood(job[d], manifest', rows', issued')
    BY <1>1, <2>1, <2>5, Others
  <2>14. job' \in [Contexts -> Job] /\ Jobs' /\ Apart'
    BY <1>1, <2>13, IdleIsJob, NotOwning, JobMoves
  <2>15. /\ authority' \in Authority /\ control' \in Control /\ CursorFenced'
         /\ control'.gen \in Gens
    <3>1. job[c].terminal \in Cursors
      BY <1>1 DEF Job
    <3> QED BY <1>3, <2>1, <3>1, PublishedTyped DEF Control, CursorFenced
  <2>16. Unissued'
    BY <1>1, <2>1, <2>5 DEF StoreInv, Typed, Unissued, Gens
  <2> QED BY <1>1, <1>3, <2>5, <2>11, <2>12, <2>14, <2>15, <2>16, JobFacts
          DEF StoreInv, Typed, Now, Ready, Readings, OwnPins
<1> QED BY <1>2, <1>3 DEF Publish

----------------------------------------------------------------------------
(* Collection *)

LEMMA CollectKeeps == ASSUME StoreInv, NEW c \in Contexts, Collect(c) PROVE StoreInv'
<1>1. PICK g \in Victims(c) :
          /\ rows' = [rows EXCEPT ![g] = Take(@, DOMAIN @ \ Batch(@))]
          /\ \/ /\ manifest' = [manifest EXCEPT ![g] = None]
                /\ counter' = [counter EXCEPT ![g] = None]
             \/ UNCHANGED <<manifest, counter>>
  BY DEF Collect
<1>2. /\ g \in Gens /\ g \notin Chain(control.gen)
      /\ \A p \in Pins : g \notin pinned[p]
  BY DEF Victims, Unreachable, Abandoned, Kept
<1> DEFINE r == Take(rows[g], DOMAIN rows[g] \ Batch(rows[g]))
<1>3. r \in Rows /\ Within(r, rows[g])
  <2>1. /\ DOMAIN rows[g] \subseteq Objects
        /\ \A o \in DOMAIN rows[g] : rows[g][o] \in Cursors
    BY <1>2, RowsAre DEF StoreInv, Typed
  <2>2. \A o \in DOMAIN rows[g] \ Batch(rows[g]) : rows[g][o] \in Cursors
    BY <2>1
  <2>3. DOMAIN rows[g] \ Batch(rows[g]) \in SUBSET Objects
    BY <2>1
  <2> QED BY <2>2, <2>3, TakeIsRows DEF Within
<1>4. /\ rows' = [rows EXCEPT ![g] = r]
      /\ UNCHANGED <<remote, authority, control, pinned, staging, reader, job,
                     issued, faults>>
  BY <1>1 DEF Collect, memory
<1> HIDE DEF r
<1>5. /\ rows' \in [Gens -> Rows] /\ rows'[g] = r
      /\ manifest' \in [Gens -> Manifest \cup {None}]
      /\ counter' \in [Gens -> Counter \cup {None}]
      /\ \A h \in Gens \ {g} : manifest'[h] = manifest[h] /\ rows'[h] = rows[h]
      /\ manifest'[g] = None \/ manifest'[g] = manifest[g]
  BY <1>1, <1>2, <1>3, <1>4 DEF StoreInv, Typed
<1>6. ActiveIntact' /\ PinnedIntact'
  BY <1>2, <1>4, <1>5, ReachKept
<1>7. ASSUME NEW d \in Contexts PROVE JobGood(job[d], manifest', rows', issued')
  <2>1. JobGood(job[d], manifest, rows, issued)
    BY JobFacts
  <2>2. CASE job[d].at \in Owning /\ job[d].gen = g
    BY <1>3, <1>4, <1>5, <2>1, <2>2 DEF JobGood, Within
  <2>3. CASE job[d].at \in Owning /\ job[d].gen # g
    <3>1. job[d].gen \in Gens
      BY <2>1, <2>3, JobFacts DEF JobGood
    <3> QED BY <1>4, <1>5, <2>1, <2>3, <3>1 DEF JobGood
  <2>4. CASE job[d].at \notin Owning
    BY <2>1, <2>4 DEF JobGood, Owning
  <2> QED BY <2>2, <2>3, <2>4
<1>8. Jobs' /\ Apart' /\ Readings' /\ OwnPins'
  BY <1>4, <1>7 DEF StoreInv, Jobs, Apart, Readings, OwnPins
<1>9. Unissued' /\ CursorFenced'
  BY <1>4, <1>5 DEF StoreInv, Unissued, CursorFenced, Ready
<1> QED BY <1>4, <1>5, <1>6, <1>8, <1>9 DEF StoreInv, Typed, Now, Ready

LEMMA CrashKeeps == ASSUME StoreInv, NEW c \in Contexts, Crash(c) PROVE StoreInv'
<1>1. /\ UNCHANGED <<remote, disk, issued>> /\ faults' \in 0..MaxFaults
      /\ Goto(c, Idle)
      /\ reader' = [reader EXCEPT ![c] = NoReader]
      /\ staging' = [staging EXCEPT ![c] = {}]
  BY InventoryAssumption, JobFacts DEF Crash, Fault, Goto
<1>2. UNCHANGED <<authority, control, manifest, counter, rows, pinned>>
  BY <1>1 DEF disk
<1>3. \A d \in Contexts \ {c} : JobGood(job[d], manifest', rows', issued')
  BY <1>1, <1>2 DEF StoreInv, Jobs
<1>4. job' \in [Contexts -> Job] /\ Jobs' /\ Apart'
  BY <1>1, <1>3, IdleIsJob, NotOwning, JobMoves
<1>5. /\ reader' \in [Contexts -> Reader] /\ reader'[c] = NoReader
      /\ \A d \in Contexts \ {c} : reader'[d] = reader[d]
      /\ staging' \in [Contexts -> SUBSET Gens]
  BY <1>1, NoReaderIsReader DEF StoreInv, Typed
<1>6. Readings' /\ OwnPins'
  BY <1>2, <1>5, NoReaderIsReader DEF StoreInv, Readings, ReaderGood, OwnPins
<1>7. Typed' /\ Unissued'
  BY <1>1, <1>2, <1>4, <1>5 DEF StoreInv, Typed, Now, Ready, Unissued
<1> QED BY <1>1, <1>4, <1>6, <1>7, DiskStill DEF StoreInv

----------------------------------------------------------------------------
(* Theorems *)

LEMMA StoreInitially == StoreInit => StoreInv
<1> SUFFICES ASSUME StoreInit PROVE StoreInv
  OBVIOUS
<1>1. 0 \in Cursors /\ 1 \in Cursors /\ 0 \in 0..MaxRev
  BY InventoryAssumption DEF Cursors
<1>2. remote \in Seq(Content) /\ Now \in 1..MaxCursor
  <2>1. [o \in Objects |-> IF o \in Initially THEN 1 ELSE 0] \in Content
    BY <1>1 DEF Content
  <2>2. remote \in Seq(Content) /\ Len(remote) = 1
    BY <2>1 DEF StoreInit
  <2> QED BY <2>2, InventoryAssumption DEF Now
<1>3. authority \in Authority /\ control \in Control /\ ~Ready
  BY <1>1 DEF StoreInit, Authority, Control, Ready
<1>4. Typed
  BY <1>2, <1>3, NoRowsAreRows, IdleIsJob, NoReaderIsReader, InventoryAssumption
  DEF StoreInit, Typed
<1>5. Jobs /\ Apart /\ Unissued
  <2>1. \A c \in Contexts : job[c] = Idle
    BY DEF StoreInit
  <2> QED BY <2>1, IdleIsJob, NotOwning DEF Jobs, Apart, Unissued, StoreInit
<1>6. Readings /\ OwnPins
  BY NoReaderIsReader DEF StoreInit, Readings, ReaderGood, OwnPins
<1>7. CursorFenced /\ ActiveIntact /\ PinnedIntact
  BY <1>3 DEF CursorFenced, ActiveIntact, PinnedIntact, StoreInit
<1> QED BY <1>4, <1>5, <1>6, <1>7 DEF StoreInv

LEMMA StoreStep == StoreInv /\ [StoreNext]_storeVars => StoreInv'
<1> SUFFICES ASSUME StoreInv, [StoreNext]_storeVars PROVE StoreInv'
  OBVIOUS
<1>1. Writers \subseteq Contexts /\ Readers \subseteq Contexts /\ Collectors \subseteq Contexts
  BY InventoryAssumption
<1>2. CASE Save \/ AccountChanges
  BY <1>2, SaveKeeps, AccountKeeps
<1>3. ASSUME NEW c \in Contexts, NEW delta \in BOOLEAN,
             Begin(c, delta) \/ OpenRead(c, delta)
      PROVE  StoreInv'
  BY <1>3, BeginKeeps, OpenReadKeeps
<1>4. ASSUME NEW c \in Contexts, Work(c) \/ GiveUp(c) PROVE StoreInv'
  BY <1>4, MaterializeKeeps, ReadKeeps, ReserveKeeps, FlushKeeps, SealKeeps,
     ProveKeeps, PublishKeeps, GiveUpKeeps
  DEF Work
<1>5. ASSUME NEW c \in Contexts, Collect(c) \/ Read(c) \/ Crash(c) PROVE StoreInv'
  BY <1>5, CollectKeeps, OpenReadDoneKeeps, ReleaseKeeps, CrashKeeps DEF Read
<1>6. CASE UNCHANGED storeVars
  <2>1. UNCHANGED <<remote, disk, staging, reader, job, issued, faults>>
    BY <1>6 DEF storeVars, memory
  <2>2. UNCHANGED <<authority, control, manifest, counter, rows, pinned>>
    BY <2>1 DEF disk
  <2>3. Typed' /\ Jobs' /\ Apart' /\ Unissued' /\ Readings' /\ OwnPins'
    BY <2>1, <2>2
    DEF StoreInv, Typed, Now, Ready, Jobs, Apart, Unissued, Readings, OwnPins
  <2> QED BY <2>1, <2>3, DiskStill DEF StoreInv
<1> QED BY <1>1, <1>2, <1>3, <1>4, <1>5, <1>6 DEF StoreNext

\* The store is consistent however the transactions of the contexts interleave
\* and wherever one of them dies (indexeddb-inventory-storage.ts).
THEOREM StoreInvariantHolds == StoreSpec => []StoreInv
BY StoreInitially, StoreStep, PTL DEF StoreSpec

\* Every record of the database and every handle in memory keeps its type.
THEOREM StoreTypeCorrect == StoreSpec => []StoreTypeOK
<1>1. StoreInv => StoreTypeOK
  <2> SUFFICES ASSUME StoreInv PROVE StoreTypeOK
    OBVIOUS
  <2>1. \A k \in 1..Now : remote[k] \in Content
    BY DEF StoreInv, Typed, Now
  <2> QED BY <2>1 DEF StoreInv, Typed, StoreTypeOK
<1> QED BY <1>1, StoreInvariantHolds, PTL

\* A layer the pointer or a pin reaches is never half written, half collected or
\* replaced (stage, publishAtomically, openRead, collectGarbage).
THEOREM LayersAreIntact == StoreSpec => []ReachableIntact
<1>1. StoreInv => ReachableIntact
  BY ActiveChain DEF StoreInv, PinnedIntact, ReachableIntact
<1> QED BY <1>1, StoreInvariantHolds, PTL

\* No writer moves the cursor past a ready inventory (saveAuthority,
\* publishAtomically).
THEOREM InventoryStandsAtTheCursor == StoreSpec => []CursorFenced
<1>1. StoreInv => CursorFenced
  BY DEF StoreInv
<1> QED BY <1>1, StoreInvariantHolds, PTL

----------------------------------------------------------------------------
(* Rows can be found *)

\* a finite set has subsets of every size up to its own
LEMMA HasSubsetOf ==
    ASSUME NEW D, IsFiniteSet(D), NEW n \in 0..Cardinality(D)
    PROVE  \E S \in SUBSET D : Cardinality(S) = n
<1>1. PICK f : f \in Bijection(1..Cardinality(D), D)
  BY FS_CardinalityType DEF ExistsBijection
<1>2. Cardinality(D) \in Nat /\ n \in Nat /\ 1..n \subseteq 1..Cardinality(D)
  BY FS_CardinalityType
<1> DEFINE S == {f[i] : i \in 1..n}
           h == [i \in 1..n |-> f[i]]
<1>3. S \in SUBSET D
  BY <1>1, <1>2 DEF Bijection, Injection
<1>4. h \in Bijection(1..n, S)
  BY <1>1, <1>2 DEF Bijection, Injection, Surjection, IsInjective
<1>5. Cardinality(S) = n
  <2> HIDE DEF S, h
  <2> QED BY <1>2, <1>4, FS_CountingElements DEF ExistsBijection
<1> QED BY <1>3, <1>5

\* a layer that loses its marks is empty
LEMMA EmptiedIsEmpty ==
    ASSUME NEW r \in Rows, Emptied(r)
    PROVE  DOMAIN Take(r, DOMAIN r \ Batch(r)) = {}
<1>1. IsFiniteSet(DOMAIN r) /\ Cardinality(DOMAIN r) \in Nat
  BY RowsFinite
<1>2. CASE Cardinality(DOMAIN r) < GcBatch
  BY <1>2 DEF Batch, Take
<1>3. CASE ~(Cardinality(DOMAIN r) < GcBatch)
  <2>1. PICK S \in SUBSET DOMAIN r : Cardinality(S) = GcBatch
    <3>1. GcBatch \in 0..Cardinality(DOMAIN r)
      BY <1>1, <1>3, InventoryAssumption
    <3>2. \E S \in SUBSET DOMAIN r : Cardinality(S) = GcBatch
      BY <1>1, <3>1, HasSubsetOf
    <3> QED BY <3>2
  <2>2. Cardinality(Batch(r)) = GcBatch
    BY <1>3, <2>1 DEF Batch
  <2> QED BY <2>2, InventoryAssumption DEF Emptied
<1> QED BY <1>2, <1>3

LEMMA AccountsForRows ==
    ASSUME StoreInv, RowsAccounted, [StoreNext]_storeVars PROVE RowsAccounted'
<1>1. ASSUME UNCHANGED <<manifest, counter, rows>> PROVE RowsAccounted'
  BY <1>1 DEF RowsAccounted
<1>2. ASSUME NEW x \in Gens, \A g \in Gens \ {x} : /\ rows'[g] = rows[g]
                                                  /\ manifest'[g] = manifest[g]
                                                  /\ counter'[g] = counter[g],
             manifest'[x] # None \/ counter'[x] # None \/ DOMAIN rows'[x] = {}
      PROVE  RowsAccounted'
  BY <1>2 DEF RowsAccounted
<1>3. ASSUME NEW c \in Contexts, Reserve(c) PROVE RowsAccounted'
  <2>1. CASE UNCHANGED disk
    BY <1>1, <2>1 DEF disk
  <2>2. CASE /\ issued < MaxGen /\ UNCHANGED rows
             /\ manifest' = [manifest EXCEPT ![issued + 1] = Unsealed(c)]
             /\ counter' = [counter EXCEPT ![issued + 1] = [count |-> 0, sealed |-> FALSE]]
    <3>1. PICK x \in Gens : x = issued + 1
      BY <2>2, InventoryAssumption DEF StoreInv, Typed, Gens
    <3>2. Unsealed(c) # None
      BY LayerIsManifest, RecordsAssumption
    <3> QED BY <1>2, <2>2, <3>1, <3>2 DEF StoreInv, Typed
  <2> QED BY <1>3, <2>1, <2>2 DEF Reserve
<1>4. ASSUME NEW c \in Contexts, Flush(c) PROVE RowsAccounted'
  <2>1. PICK x \in Gens, n \in Nat :
           /\ \E r : rows' = [rows EXCEPT ![x] = r]
           /\ UNCHANGED manifest /\ counter' = [counter EXCEPT ![x] = Tally(x, n)]
    <3> DEFINE o == NextObject(DOMAIN job[c].cand \ job[c].flushed)
               done == job[c].flushed \cup {o}
    <3>1. Cardinality(done) \in Nat
      <4>1. job[c].cand \in Rows /\ job[c].flushed \subseteq DOMAIN job[c].cand
        BY <1>4, JobFacts DEF Flush, JobGood, Job
      <4>2. done \subseteq DOMAIN job[c].cand
        <5>1. DOMAIN job[c].cand \ job[c].flushed # {}
          BY <1>4, <4>1 DEF Flush
        <5> QED BY <4>1, <5>1, NextIsObject
      <4> QED BY <4>1, <4>2, RowsFinite, FS_Subset, FS_CardinalityType
    <3>2. job[c].gen \in Gens
      BY <1>4, JobFacts DEF Flush, JobGood, Owning
    <3> QED BY <1>4, <3>1, <3>2 DEF Flush
  <2>2. Tally(x, n) # None
    <3>1. Tally(x, n) \in Counter
      BY <2>1 DEF Tally, Counter
    <3> QED BY <3>1, RecordsAssumption
  <2> QED BY <1>2, <2>1, <2>2 DEF StoreInv, Typed
<1>5. ASSUME NEW c \in Contexts, Seal(c) PROVE RowsAccounted'
  <2>1. PICK x \in Gens : /\ UNCHANGED rows
                         /\ manifest' = [manifest EXCEPT ![x] = Sealed(c)]
                         /\ \E k : counter' = [counter EXCEPT ![x] = k]
    BY <1>5, JobFacts DEF Seal, JobGood, Owning
  <2>2. Sealed(c) # None
    BY LayerIsManifest, RecordsAssumption
  <2> QED BY <1>2, <2>1, <2>2 DEF StoreInv, Typed
<1>6. ASSUME NEW c \in Contexts, Publish(c) PROVE RowsAccounted'
  <2>1. CASE UNCHANGED disk
    BY <1>1, <2>1 DEF disk
  <2>2. CASE /\ CandidateHolds(c) /\ authority.rev < MaxRev /\ UNCHANGED <<rows, counter>>
             /\ manifest' = [manifest EXCEPT ![job[c].gen].rev = authority.rev + 1]
    <3>1. PICK x \in Gens : x = job[c].gen
      BY <1>6, JobFacts DEF Publish, JobGood, Owning
    <3>2. counter[x] # None
      BY <2>2, <3>1 DEF CandidateHolds
    <3> QED BY <1>2, <2>2, <3>1, <3>2 DEF StoreInv, Typed
  <2> QED BY <1>6, <2>1, <2>2 DEF Publish
<1>7. ASSUME NEW c \in Contexts, Collect(c) PROVE RowsAccounted'
  <2>1. PICK x \in Gens :
           /\ rows' = [rows EXCEPT ![x] = Take(@, DOMAIN @ \ Batch(@))]
           /\ IF Emptied(rows[x])
              THEN /\ manifest' = [manifest EXCEPT ![x] = None]
                   /\ counter' = [counter EXCEPT ![x] = None]
              ELSE UNCHANGED <<manifest, counter>>
           /\ manifest[x] # None \/ counter[x] # None
    BY <1>7 DEF Collect, Victims, Unreachable, Abandoned
  <2>2. rows[x] \in Rows
    BY DEF StoreInv, Typed
  <2>3. CASE Emptied(rows[x])
    <3>1. DOMAIN Take(rows[x], DOMAIN rows[x] \ Batch(rows[x])) = {}
      BY <2>2, <2>3, EmptiedIsEmpty
    <3> QED BY <1>2, <2>1, <2>3, <3>1 DEF StoreInv, Typed
  <2>4. CASE ~Emptied(rows[x])
    BY <1>2, <2>1, <2>4 DEF StoreInv, Typed
  <2> QED BY <2>3, <2>4
<1>8. ASSUME NEW c \in Contexts,
             \/ Materialize(c) \/ ReadBaseline(c) \/ ReadChanges(c) \/ Recheck(c)
             \/ Prove(c) \/ GiveUp(c) \/ Read(c) \/ Crash(c)
             \/ \E delta \in BOOLEAN : Begin(c, delta) \/ OpenRead(c, delta)
      PROVE  RowsAccounted'
  BY <1>1, <1>8
  DEF Materialize, ReadBaseline, ReadChanges, Recheck, Prove, GiveUp, Read, OpenReadDone,
      Release, Crash, Begin, OpenRead, disk
<1>9. CASE Save \/ AccountChanges \/ UNCHANGED storeVars
  BY <1>1, <1>9 DEF Save, AccountChanges, storeVars, disk
<1>10. Writers \subseteq Contexts /\ Readers \subseteq Contexts /\ Collectors \subseteq Contexts
  BY InventoryAssumption
<1> QED BY <1>3, <1>4, <1>5, <1>6, <1>7, <1>8, <1>9, <1>10 DEF StoreNext, Work

\* Rows on disk have a manifest or a stage counter by which the collector finds
\* them, wherever a context dies and whatever is collected under a publication
\* (flush, collectGarbage).
THEOREM NoRowIsLost == StoreSpec => []RowsAccounted
<1>1. StoreInit => RowsAccounted
  BY DEF StoreInit, RowsAccounted, NoRows
<1> QED BY <1>1, StoreInvariantHolds, AccountsForRows, PTL DEF StoreSpec
=============================================================================
