------------------------- MODULE InventoryViewProofs -------------------------
(***************************************************************************)
(* What the readers of InventoryStore are shown, for every number of       *)
(* contexts, objects, generations and pins: under a lease, the account as  *)
(* of the cursor of the lease; in the active inventory, the account as of  *)
(* the canonical cursor, as InventoryView promises it.                     *)
(***************************************************************************)
EXTENDS InventoryStoreProofs

----------------------------------------------------------------------------
(* The inductive invariant *)

\* rows r of a set of layers show a content: of the rows an object has there, one
\* lies above all others and is the one of the content
Shows(S, content, m, r) ==
    \A o \in Objects :
        LET holding == {g \in S : o \in DOMAIN r[g]}
        IN  \/ holding = {} /\ content[o] = 0
            \/ \E g \in holding :
                  /\ r[g][o] = content[o]
                  /\ \A h \in holding \ {g} : m[h].depth < m[g].depth

\* a new layer goes above the active chain, which shows the account
ActiveShown ==
    Ready => /\ control.cursor \in 1..Now
             /\ Shows(Chain(control.gen), remote[control.cursor], manifest, rows)
             /\ \A h \in Chain(control.gen) :
                   manifest[h].depth <= manifest[control.gen].depth

ReaderShown(s, m, r, past) ==
    s.at # "none" => /\ s.cursor \in 1..Len(past)
                     /\ Shows(s.gens, past[s.cursor], m, r)
ReadersShown == \A c \in Contexts : ReaderShown(reader[c], manifest, rows, remote)

Sealing == {"proof", "publish"}
Drawn == {"again", "reserve"} \cup Owning
\* the objects a publication brings, of the account as it was in the past
Sought(j, past) ==
    IF j.delta THEN {o \in Objects : past[j.before.cursor][o] # past[j.terminal][o]}
               ELSE Present(past[j.terminal])
\* what a publication knows of what it was made for, and of its layer, with
\* manifests m and n keys issued
DraftGood(j, m, n, past) ==
    /\ IF j.delta
       THEN /\ j.before.active \in 1..n /\ j.before.cursor \in 1..Len(past)
            /\ m[j.before.active] # None => m[j.before.active].depth + 1 = j.depth
       ELSE j.depth = 0
    /\ j.at \in Drawn => /\ j.terminal \in 1..Len(past)
                         /\ j.delta => j.before.cursor < j.terminal
                         /\ j.cand = Take(past[j.terminal], Sought(j, past))
    /\ j.at \in Sealing /\ m[j.gen] # None =>
          /\ m[j.gen].parent = IF j.delta THEN j.before.active ELSE None
          /\ m[j.gen].depth = j.depth /\ m[j.gen].digest = j.cand
    /\ j.at = "publish" => j.proof = j.cand
Drafts == \A c \in Contexts : DraftGood(job[c], manifest, issued, remote)

\* nobody fills the layer another publication is made for
Bygone == \A c, d \in Contexts :
    job[c].delta /\ job[d].at = "flush" => job[d].gen # job[c].before.active

HorizonInv == ActiveShown /\ ReadersShown /\ Drafts /\ Bygone

----------------------------------------------------------------------------
(* Layers over layers *)

\* among the rows of an object the topmost is the one that is shown
LEMMA ShownIsEffective ==
    ASSUME NEW S \in SUBSET Gens, NEW content \in Content, Shows(S, content, manifest, rows),
           \A g \in S : manifest[g].depth \in Nat
    PROVE  Effective(S) = content
<1>1. ASSUME NEW o \in Objects PROVE Lookup(S, o) = content[o]
  <2> DEFINE H == Holding(S, o)
  <2>1. CASE H = {}
    <3>1. content[o] = 0
      BY <2>1 DEF Shows, Holding
    <3> QED BY <2>1, <3>1 DEF Lookup
  <2>2. CASE H # {}
    <3>1. PICK g \in H : /\ rows[g][o] = content[o]
                         /\ \A h \in H \ {g} : manifest[h].depth < manifest[g].depth
      BY <2>2 DEF Shows, Holding
    <3>2. \A h \in H : manifest[h].depth \in Nat
      BY DEF Holding
    <3>3. \A h \in H : manifest[h].depth <= manifest[g].depth
      BY <3>1, <3>2
    <3>4. \A h \in H : (\A x \in H : manifest[x].depth <= manifest[h].depth) => h = g
      BY <3>1, <3>2
    <3>5. TopOf(H) = g
      <4> HIDE DEF H
      <4> QED BY <3>3, <3>4 DEF TopOf
    <3> QED BY <2>2, <3>1, <3>5 DEF Lookup
  <2> QED BY <2>1, <2>2
<1> QED BY <1>1 DEF Effective, Content

\* layers that are not touched show what they showed
LEMMA ShowsOn ==
    ASSUME NEW S, NEW content, NEW m, NEW r, NEW n, NEW s, Shows(S, content, m, r),
           \A g \in S : s[g] = r[g] /\ n[g].depth = m[g].depth
    PROVE  Shows(S, content, n, s)
<1> SUFFICES ASSUME NEW o \in Objects
             PROVE  \/ {g \in S : o \in DOMAIN s[g]} = {} /\ content[o] = 0
                    \/ \E g \in {h \in S : o \in DOMAIN s[h]} :
                          /\ s[g][o] = content[o]
                          /\ \A h \in {x \in S : o \in DOMAIN s[x]} \ {g} :
                                n[h].depth < n[g].depth
  BY DEF Shows
<1> DEFINE H == {g \in S : o \in DOMAIN r[g]}
<1>1. {g \in S : o \in DOMAIN s[g]} = H
  OBVIOUS
<1>2. CASE H = {} /\ content[o] = 0
  BY <1>1, <1>2
<1>3. CASE \E g \in H : r[g][o] = content[o] /\ \A h \in H \ {g} : m[h].depth < m[g].depth
  <2>1. PICK g \in H : r[g][o] = content[o] /\ \A h \in H \ {g} : m[h].depth < m[g].depth
    BY <1>3
  <2>2. s[g][o] = content[o] /\ \A h \in H \ {g} : n[h].depth < n[g].depth
    BY <2>1
  <2> QED BY <1>1, <2>1, <2>2
<1> QED BY <1>2, <1>3 DEF Shows

\* one layer alone shows what its rows are, and nothing where it has none
LEMMA ShowsAlone ==
    ASSUME NEW g, NEW content, NEW m, NEW r,
           \A o \in Objects : o \in DOMAIN r[g] => r[g][o] = content[o],
           \A o \in Objects : o \notin DOMAIN r[g] => content[o] = 0
    PROVE  Shows({g}, content, m, r)
<1> SUFFICES ASSUME NEW o \in Objects
             PROVE  \/ {h \in {g} : o \in DOMAIN r[h]} = {} /\ content[o] = 0
                    \/ \E x \in {h \in {g} : o \in DOMAIN r[h]} :
                          /\ r[x][o] = content[o]
                          /\ \A h \in {y \in {g} : o \in DOMAIN r[y]} \ {x} :
                                m[h].depth < m[x].depth
  BY DEF Shows
<1>1. CASE o \in DOMAIN r[g]
  <2>1. {h \in {g} : o \in DOMAIN r[h]} = {g}
    BY <1>1
  <2> QED BY <1>1, <2>1
<1>2. CASE o \notin DOMAIN r[g]
  BY <1>2
<1> QED BY <1>1, <1>2

\* a layer above all others shows its rows, and theirs where it has none
LEMMA ShowsAbove ==
    ASSUME NEW S, NEW g, g \notin S, NEW old, NEW new, NEW m, NEW r,
           Shows(S, old, m, r),
           \A h \in S : m[h].depth < m[g].depth,
           \A o \in Objects : o \in DOMAIN r[g] => r[g][o] = new[o],
           \A o \in Objects : o \notin DOMAIN r[g] => old[o] = new[o]
    PROVE  Shows(S \cup {g}, new, m, r)
<1> SUFFICES ASSUME NEW o \in Objects
             PROVE  \/ {h \in S \cup {g} : o \in DOMAIN r[h]} = {} /\ new[o] = 0
                    \/ \E x \in {h \in S \cup {g} : o \in DOMAIN r[h]} :
                          /\ r[x][o] = new[o]
                          /\ \A h \in {y \in S \cup {g} : o \in DOMAIN r[y]} \ {x} :
                                m[h].depth < m[x].depth
  BY DEF Shows
<1> DEFINE H == {h \in S : o \in DOMAIN r[h]}
<1>1. CASE o \in DOMAIN r[g]
  <2>1. {h \in S \cup {g} : o \in DOMAIN r[h]} = H \cup {g}
    BY <1>1
  <2>2. r[g][o] = new[o] /\ \A h \in (H \cup {g}) \ {g} : m[h].depth < m[g].depth
    BY <1>1
  <2> QED BY <2>1, <2>2
<1>2. CASE o \notin DOMAIN r[g]
  <2>1. {h \in S \cup {g} : o \in DOMAIN r[h]} = H
    BY <1>2
  <2>2. \/ H = {} /\ old[o] = 0
        \/ \E x \in H : r[x][o] = old[o] /\ \A h \in H \ {x} : m[h].depth < m[x].depth
    BY DEF Shows
  <2>3. old[o] = new[o]
    BY <1>2
  <2> QED BY <2>1, <2>2, <2>3
<1> QED BY <1>1, <1>2

\* the chain of a generation stays, while its members keep their parents
LEMMA ChainStays ==
    ASSUME NEW g \in Gens, NEW C, C = Chain(g),
           \A h \in Gens : Parent(h) \in Gens \cup {None},
           \A h \in Gens : Parent(h)' \in Gens \cup {None},
           \A h \in C : Parent(h)' = Parent(h)
    PROVE  Chain(g)' = C
<1>1. g \in C /\ C \in SUBSET Gens /\ Closed(C)
  BY ChainIsClosed
<1>2. Closed(C)'
  BY <1>1 DEF Closed
<1> DEFINE D == Chain(g)'
<1>3. g \in D /\ D \in SUBSET Gens /\ D \subseteq C /\ \A h \in D : Parent(h)' # None => Parent(h)' \in D
  BY <1>1, <1>2 DEF Chain, Closed
<1>4. \A h \in D : Parent(h) # None => Parent(h) \in D
  BY <1>3
<1>5. \E T \in SUBSET Gens : T = D /\ g \in T /\ Closed(T)
  <2> HIDE DEF D
  <2>1. PICK T \in SUBSET Gens : T = D
    BY <1>3
  <2> QED BY <1>3, <1>4, <2>1 DEF Closed
<1>6. C \subseteq D
  BY <1>5, ChainIsLeast
<1> QED BY <1>3, <1>6

----------------------------------------------------------------------------
(* What no step does *)

\* the layers the pointer or a pin reaches
Firm(g) == \/ Ready /\ g \in Chain(control.gen)
           \/ \E p \in Pins : g \in pinned[p]
Steady ==
    \A g \in Gens : Firm(g) => /\ rows'[g] = rows[g] /\ Parent(g)' = Parent(g)
                               /\ manifest'[g].depth = manifest[g].depth
\* what has been in the account is not forgotten
History == Now \in Nat /\ Now' \in Nat /\ Now <= Now' /\ \A k \in 1..Now : remote'[k] = remote[k]

LEMMA FirmIsIntact ==
    ASSUME StoreInv, NEW g \in Gens, Firm(g) PROVE Intact(g)
BY ActiveChain DEF Firm, StoreInv, PinnedIntact

LEMMA SameDiskIsSteady ==
    ASSUME UNCHANGED <<manifest, rows>> PROVE Steady
BY DEF Steady, Parent

\* what is changed is not intact
LEMMA RawIsSteady ==
    ASSUME StoreInv, NEW x, ~Intact(x),
           \A g \in Gens \ {x} : manifest'[g] = manifest[g] /\ rows'[g] = rows[g]
    PROVE  Steady
<1> SUFFICES ASSUME NEW g \in Gens, Firm(g)
             PROVE  /\ rows'[g] = rows[g] /\ Parent(g)' = Parent(g)
                    /\ manifest'[g].depth = manifest[g].depth
  BY DEF Steady
<1>1. g # x
  BY FirmIsIntact
<1> QED BY <1>1 DEF Parent

LEMMA ReserveIsSteady == ASSUME StoreInv, NEW c \in Contexts, Reserve(c) PROVE Steady
<1>1. CASE UNCHANGED disk
  BY <1>1, SameDiskIsSteady DEF disk
<1>2. CASE /\ issued < MaxGen /\ UNCHANGED rows
           /\ manifest' = [manifest EXCEPT ![issued + 1] = Unsealed(c)]
  <2>1. PICK x \in Gens : x = issued + 1
    BY <1>2, InventoryAssumption DEF StoreInv, Typed, Gens
  <2>2. manifest[x] = None
    BY <2>1 DEF StoreInv, Typed, Unissued
  <2>3. \A g \in Gens \ {x} : manifest'[g] = manifest[g] /\ rows'[g] = rows[g]
    BY <1>2, <2>1 DEF StoreInv, Typed
  <2> QED BY <2>2, <2>3, RawIsSteady DEF Intact
<1> QED BY <1>1, <1>2 DEF Reserve

LEMMA StageIsSteady ==
    ASSUME StoreInv, NEW c \in Contexts, Flush(c) \/ Seal(c) PROVE Steady
<1>1. PICK x \in Gens : x = job[c].gen
  BY JobFacts DEF Flush, Seal, JobGood, Owning
<1>2. ~Intact(x)
  BY <1>1, JobFacts DEF Flush, Seal, JobGood, Intact
<1>3. \A g \in Gens \ {x} : manifest'[g] = manifest[g] /\ rows'[g] = rows[g]
  BY <1>1 DEF Flush, Seal, StoreInv, Typed
<1> QED BY <1>2, <1>3, RawIsSteady

\* a publication renews the revision of its layer, and nothing else of it
LEMMA PublishedLayer ==
    ASSUME StoreInv, NEW c \in Contexts, Publish(c), CandidateHolds(c),
           authority.rev < MaxRev, UNCHANGED rows,
           manifest' = [manifest EXCEPT ![job[c].gen].rev = authority.rev + 1]
    PROVE  \A g \in Gens : /\ rows'[g] = rows[g] /\ Parent(g)' = Parent(g)
                           /\ manifest[g] # None =>
                                 /\ manifest'[g] # None
                                 /\ manifest'[g].parent = manifest[g].parent
                                 /\ manifest'[g].depth = manifest[g].depth
                                 /\ manifest'[g].digest = manifest[g].digest
                                 /\ manifest'[g].sealed = manifest[g].sealed
                           /\ manifest[g] = None => manifest'[g] = None
<1>1. PICK x \in Gens : x = job[c].gen
  BY JobFacts DEF Publish, JobGood, Owning
<1>2. manifest[x] \in Manifest /\ manifest[x] # None
  BY <1>1 DEF CandidateHolds, StoreInv, Typed
<1> DEFINE m == [manifest[x] EXCEPT !.rev = authority.rev + 1]
<1>3. /\ m \in Manifest /\ m # None
      /\ m.parent = manifest[x].parent /\ m.depth = manifest[x].depth
      /\ m.digest = manifest[x].digest /\ m.sealed = manifest[x].sealed
  BY <1>2, PublishedTyped, RecordsAssumption DEF Manifest
<1>4. manifest' = [manifest EXCEPT ![x] = m]
  BY <1>1
<1> HIDE DEF m
<1> QED BY <1>2, <1>3, <1>4 DEF Parent, StoreInv, Typed

LEMMA PublishIsSteady == ASSUME StoreInv, NEW c \in Contexts, Publish(c) PROVE Steady
<1>1. CASE UNCHANGED disk
  BY <1>1, SameDiskIsSteady DEF disk
<1>2. CASE /\ CandidateHolds(c) /\ authority.rev < MaxRev /\ UNCHANGED rows
           /\ manifest' = [manifest EXCEPT ![job[c].gen].rev = authority.rev + 1]
  <2>1. \A g \in Gens : Firm(g) => manifest[g] # None
    BY FirmIsIntact DEF Intact
  <2> QED BY <1>2, <2>1, PublishedLayer DEF Steady
<1> QED BY <1>1, <1>2 DEF Publish

LEMMA CollectIsSteady == ASSUME StoreInv, NEW c \in Contexts, Collect(c) PROVE Steady
<1>1. PICK x \in Victims(c) :
          \A g \in Gens \ {x} : manifest'[g] = manifest[g] /\ rows'[g] = rows[g]
  <2>1. PICK x \in Victims(c) :
          /\ rows' = [rows EXCEPT ![x] = Take(@, DOMAIN @ \ Batch(@))]
          /\ \/ manifest' = [manifest EXCEPT ![x] = None]
             \/ UNCHANGED <<manifest, counter>>
    BY DEF Collect
  <2> QED BY <2>1 DEF StoreInv, Typed
<1>2. x \notin Chain(control.gen) /\ \A p \in Pins : x \notin pinned[p]
  BY DEF Victims, Unreachable, Abandoned, Kept
<1> QED BY <1>1, <1>2 DEF Steady, Firm, Parent

LEMMA StepIsSteady ==
    ASSUME StoreInv, [StoreNext]_storeVars PROVE Steady
<1>1. Writers \subseteq Contexts /\ Readers \subseteq Contexts /\ Collectors \subseteq Contexts
  BY InventoryAssumption
<1>2. CASE Save \/ AccountChanges
  BY <1>2, SameDiskIsSteady DEF Save, AccountChanges, disk
<1>3. ASSUME NEW c \in Contexts, NEW delta \in BOOLEAN,
             Begin(c, delta) \/ OpenRead(c, delta)
      PROVE  Steady
  BY <1>3, SameDiskIsSteady DEF Begin, OpenRead, disk
<1>4. ASSUME NEW c \in Contexts,
             \/ Materialize(c) \/ ReadBaseline(c) \/ ReadChanges(c) \/ Recheck(c)
             \/ Prove(c) \/ GiveUp(c) \/ Read(c) \/ Crash(c)
      PROVE  Steady
  BY <1>4, SameDiskIsSteady
  DEF Materialize, ReadBaseline, ReadChanges, Recheck, Prove, GiveUp, Read, OpenReadDone,
      Release, Crash, disk
<1>5. CASE UNCHANGED storeVars
  BY <1>5, SameDiskIsSteady DEF storeVars, disk
<1> QED BY <1>1, <1>2, <1>3, <1>4, <1>5, ReserveIsSteady, StageIsSteady, PublishIsSteady,
           CollectIsSteady
        DEF StoreNext, Work

LEMMA StepKeepsHistory ==
    ASSUME StoreInv, [StoreNext]_storeVars PROVE History
<1>1. remote \in Seq(Content) /\ Now \in Nat
  BY DEF StoreInv, Typed, Now
<1>2. CASE UNCHANGED remote
  BY <1>1, <1>2 DEF History, Now
<1>3. CASE AccountChanges
  <2>1. PICK o \in Objects, v \in {0, Now + 1} :
           remote' = Append(remote, [remote[Now] EXCEPT ![o] = v])
    BY <1>3 DEF AccountChanges
  <2> DEFINE content == [remote[Now] EXCEPT ![o] = v]
  <2>2. remote' = Append(remote, content)
    BY <2>1
  <2>3. content \in Content
    <3>1. v \in Cursors /\ remote[Now] \in Content
      BY <1>3, InventoryAssumption DEF AccountChanges, StoreInv, Typed, Now, Cursors
    <3> QED BY <3>1 DEF Content
  <2> HIDE DEF content
  <2>4. Len(remote') = Len(remote) + 1 /\ \A k \in 1..Len(remote) : remote'[k] = remote[k]
    BY <1>1, <2>2, <2>3
  <2> QED BY <1>1, <2>4 DEF History, Now
<1>4. UNCHANGED remote \/ AccountChanges
  BY DEF StoreNext, storeVars, Save, Work, Read, Begin, OpenRead, Materialize, ReadBaseline,
         ReadChanges, Recheck, Reserve, Flush, Seal, Prove, Publish, GiveUp, Collect,
         OpenReadDone, Release, Crash
<1> QED BY <1>2, <1>3, <1>4

\* what layers nobody touches show of the past
LEMMA ShownOn ==
    ASSUME Steady, History, NEW S \in SUBSET Gens, \A g \in S : Firm(g),
           NEW k \in 1..Now, Shows(S, remote[k], manifest, rows)
    PROVE  k \in 1..Now' /\ Shows(S, remote'[k], manifest', rows')
<1>1. k \in 1..Now' /\ remote'[k] = remote[k]
  BY DEF History
<1>2. \A g \in S : rows'[g] = rows[g] /\ manifest'[g].depth = manifest[g].depth
  BY DEF Steady
<1> QED BY <1>1, <1>2, ShowsOn

LEMMA ActiveStays ==
    ASSUME StoreInv, StoreInv', ActiveShown, Steady, History,
           control' = control \/ control'.status = "invalid"
    PROVE  ActiveShown'
<1> SUFFICES ASSUME Ready' PROVE ActiveShown'
  BY DEF ActiveShown
<1>1. Ready /\ control' = control
  BY DEF Ready
<1>2. PICK g \in Gens, C \in SUBSET Gens, k \in 1..Now :
         /\ g = control.gen /\ C = Chain(g) /\ k = control.cursor
         /\ Shows(C, remote[k], manifest, rows)
         /\ \A h \in C : manifest[h].depth <= manifest[g].depth
  BY <1>1, ActiveChain DEF ActiveShown, StoreInv, Typed
<1>3. g \in C /\ \A h \in C : Firm(h)
  BY <1>1, <1>2, ActiveChain DEF Firm
<1>4. Chain(g)' = C
  <2>1. \A h \in Gens : Parent(h)' \in Gens \cup {None}
    BY ParentTyped DEF StoreInv, Typed, Parent, Manifest
  <2>2. \A h \in C : Parent(h)' = Parent(h)
    BY <1>3 DEF Steady
  <2> QED BY <1>2, <2>1, <2>2, ChainStays, ParentTyped DEF StoreInv
<1>5. k \in 1..Now' /\ Shows(C, remote'[k], manifest', rows')
  BY <1>2, <1>3, ShownOn
<1>6. \A h \in C : manifest'[h].depth <= manifest'[g].depth
  BY <1>2, <1>3 DEF Steady
<1>7. control'.gen = g /\ control'.cursor = k
  BY <1>1, <1>2
<1> QED BY <1>4, <1>5, <1>6, <1>7 DEF ActiveShown

----------------------------------------------------------------------------
(* Readers *)

\* a lease that goes on, or ends
LEMMA ReaderStays ==
    ASSUME StoreInv, ReadersShown, Steady, History, NEW d \in Contexts,
           \/ reader'[d].at = "none"
           \/ /\ reader[d].at # "none"
              /\ reader'[d].gens = reader[d].gens /\ reader'[d].cursor = reader[d].cursor
    PROVE  ReaderShown(reader'[d], manifest', rows', remote')
<1> SUFFICES ASSUME reader'[d].at # "none"
             PROVE  ReaderShown(reader'[d], manifest', rows', remote')
  BY DEF ReaderShown
<1>1. /\ reader[d].at # "none" /\ reader'[d].gens = reader[d].gens
      /\ reader'[d].cursor = reader[d].cursor
  OBVIOUS
<1>2. PICK S \in SUBSET Gens, k \in 1..Now :
         /\ S = reader[d].gens /\ k = reader[d].cursor
         /\ Shows(S, remote[k], manifest, rows) /\ \A g \in S : Firm(g)
  <2>1. reader[d].gens \in SUBSET Gens /\ \A g \in reader[d].gens : Firm(g)
    BY <1>1 DEF StoreInv, Typed, Readings, ReaderGood, Reader, Firm
  <2>2. /\ reader[d].cursor \in 1..Now
        /\ Shows(reader[d].gens, remote[reader[d].cursor], manifest, rows)
    BY <1>1 DEF ReadersShown, ReaderShown, Now
  <2> QED BY <2>1, <2>2
<1>3. k \in 1..Now' /\ Shows(S, remote'[k], manifest', rows')
  BY <1>2, ShownOn
<1> QED BY <1>1, <1>2, <1>3 DEF ReaderShown, Now

LEMMA ReadersStay ==
    ASSUME StoreInv, ActiveShown, ReadersShown, Steady, History, [StoreNext]_storeVars
    PROVE  ReadersShown'
<1>1. ASSUME UNCHANGED reader PROVE ReadersShown'
  <2> SUFFICES ASSUME NEW d \in Contexts
               PROVE  ReaderShown(reader'[d], manifest', rows', remote')
    BY DEF ReadersShown
  <2>1. CASE reader[d].at = "none"
    BY <1>1, <2>1, ReaderStays
  <2>2. CASE reader[d].at # "none"
    BY <1>1, <2>2, ReaderStays
  <2> QED BY <2>1, <2>2
<1>2. ASSUME NEW c \in Contexts, NEW s \in Reader, reader' = [reader EXCEPT ![c] = s],
             ReaderShown(s, manifest', rows', remote')
      PROVE  ReadersShown'
  <2> SUFFICES ASSUME NEW d \in Contexts
               PROVE  ReaderShown(reader'[d], manifest', rows', remote')
    BY DEF ReadersShown
  <2>1. reader'[c] = s /\ \A x \in Contexts \ {c} : reader'[x] = reader[x]
    BY <1>2 DEF StoreInv, Typed
  <2>2. CASE d = c
    BY <1>2, <2>1, <2>2
  <2>3. CASE d # c /\ reader[d].at = "none"
    BY <2>1, <2>3, ReaderStays
  <2>4. CASE d # c /\ reader[d].at # "none"
    BY <2>1, <2>4, ReaderStays
  <2> QED BY <2>2, <2>3, <2>4
<1>3. ASSUME NEW c \in Contexts, reader' = [reader EXCEPT ![c] = NoReader] PROVE ReadersShown'
  BY <1>2, <1>3, NoReaderIsReader DEF ReaderShown
<1>4. ASSUME NEW c \in Contexts, NEW mine \in BOOLEAN, OpenRead(c, mine) PROVE ReadersShown'
  <2>1. PICK p \in Pins :
           reader' = [reader EXCEPT ![c] =
              [at |-> "acquiring", mine |-> mine, pin |-> p, gen |-> control.gen,
               gens |-> Chain(control.gen), cursor |-> control.cursor]]
    BY <1>4 DEF OpenRead, FreshPin
  <2> DEFINE s == [at |-> "acquiring", mine |-> mine, pin |-> p, gen |-> control.gen,
                   gens |-> Chain(control.gen), cursor |-> control.cursor]
  <2>2. /\ control \in Control /\ Ready /\ UNCHANGED <<remote, manifest, rows>>
        /\ control.gen \in Gens /\ Chain(control.gen) \in SUBSET Gens
    BY <1>4, ActiveChain DEF OpenRead, StoreInv, Typed
  <2>3. s \in Reader
    BY <2>2 DEF Reader, Control
  <2>4. ReaderShown(s, manifest', rows', remote')
    BY <2>2 DEF ReaderShown, ActiveShown, Now
  <2> QED BY <1>2, <2>1, <2>3, <2>4
<1>5. ASSUME NEW c \in Contexts, OpenReadDone(c) PROVE ReadersShown'
  <2> SUFFICES ASSUME NEW d \in Contexts
               PROVE  ReaderShown(reader'[d], manifest', rows', remote')
    BY DEF ReadersShown
  <2>1. /\ reader[c].at = "acquiring" /\ reader[c] \in Reader
        /\ reader' = [reader EXCEPT ![c] = [reader[c] EXCEPT !.at = "open"]]
    BY <1>5 DEF OpenReadDone, StoreInv, Typed
  <2>2. /\ reader'[c].gens = reader[c].gens /\ reader'[c].cursor = reader[c].cursor
        /\ \A x \in Contexts \ {c} : reader'[x] = reader[x]
    BY <2>1 DEF Reader, StoreInv, Typed
  <2>3. CASE d = c \/ reader[d].at # "none"
    BY <2>1, <2>2, <2>3, ReaderStays
  <2>4. CASE d # c /\ reader[d].at = "none"
    BY <2>2, <2>4, ReaderStays
  <2> QED BY <2>3, <2>4
<1>6. ASSUME NEW c \in Contexts, Release(c) \/ Materialize(c) \/ Crash(c) PROVE ReadersShown'
  BY <1>3, <1>6 DEF Release, Materialize, Released, Crash
<1>7. ASSUME NEW c \in Contexts,
             \/ ReadBaseline(c) \/ ReadChanges(c) \/ Recheck(c) \/ Reserve(c) \/ Flush(c)
             \/ Seal(c) \/ Prove(c) \/ Publish(c) \/ GiveUp(c) \/ Collect(c)
             \/ \E delta \in BOOLEAN : Begin(c, delta)
      PROVE  ReadersShown'
  BY <1>1, <1>7 DEF ReadBaseline, ReadChanges, Recheck, Reserve, Flush, Seal, Prove, Publish,
                    GiveUp, Collect, Begin, memory
<1>8. CASE Save \/ AccountChanges \/ UNCHANGED storeVars
  BY <1>1, <1>8 DEF Save, AccountChanges, storeVars, memory
<1>9. Writers \subseteq Contexts /\ Readers \subseteq Contexts /\ Collectors \subseteq Contexts
  BY InventoryAssumption
<1> QED BY <1>4, <1>5, <1>6, <1>7, <1>8, <1>9 DEF StoreNext, Work, Read

----------------------------------------------------------------------------
(* What publications know of their layers *)

\* a manifest says what it said, or is collected
AlikeAt(g) == manifest'[g] # None =>
    /\ manifest[g] # None
    /\ manifest'[g].parent = manifest[g].parent
    /\ manifest'[g].depth = manifest[g].depth
    /\ manifest'[g].digest = manifest[g].digest
Spared(d) == /\ job[d].delta => AlikeAt(job[d].before.active)
             /\ job[d].at \in Sealing => AlikeAt(job[d].gen)

\* what a publication knows names keys that were handed out
LEMMA KeysAreIssued ==
    ASSUME StoreInv, Drafts, NEW d \in Contexts
    PROVE  /\ job[d].delta => job[d].before.active \in 1..issued
           /\ job[d].at \in Owning => job[d].gen \in 1..issued
           /\ 1..issued \subseteq Gens /\ issued \in Nat
BY JobFacts DEF Drafts, DraftGood, JobGood, StoreInv, Typed

LEMMA StepSpares ==
    ASSUME StoreInv, Drafts, Bygone, [StoreNext]_storeVars, NEW d \in Contexts
    PROVE  Spared(d)
<1>1. ASSUME UNCHANGED manifest PROVE Spared(d)
  BY <1>1 DEF Spared, AlikeAt
<1>2. ASSUME \A g \in 1..issued : AlikeAt(g) PROVE Spared(d)
  BY <1>2, KeysAreIssued DEF Spared, Sealing, Owning
<1>3. ASSUME NEW c \in Contexts, Reserve(c) PROVE Spared(d)
  <2>1. CASE UNCHANGED disk
    BY <1>1, <2>1 DEF disk
  <2>2. CASE manifest' = [manifest EXCEPT ![issued + 1] = Unsealed(c)]
    <3>1. \A g \in 1..issued : manifest'[g] = manifest[g]
      BY <2>2, KeysAreIssued DEF StoreInv, Typed
    <3> QED BY <1>2, <3>1 DEF AlikeAt
  <2> QED BY <1>3, <2>1, <2>2 DEF Reserve
<1>4. ASSUME NEW c \in Contexts, Seal(c) PROVE Spared(d)
  <2>1. /\ manifest' = [manifest EXCEPT ![job[c].gen] = Sealed(c)]
        /\ job[c].at = "flush"
    BY <1>4 DEF Seal
  <2>2. \A g \in Gens : g # job[c].gen => manifest'[g] = manifest[g]
    BY <2>1 DEF StoreInv, Typed
  <2>3. job[d].delta => job[d].before.active # job[c].gen
    BY <2>1 DEF Bygone
  <2>4. job[d].at \in Sealing => job[d].gen # job[c].gen
    BY <2>1 DEF StoreInv, Apart, Sealing, Owning
  <2> QED BY <2>2, <2>3, <2>4, KeysAreIssued DEF Spared, AlikeAt, Sealing, Owning
<1>5. ASSUME NEW c \in Contexts, Publish(c) PROVE Spared(d)
  <2>1. CASE UNCHANGED disk
    BY <1>1, <2>1 DEF disk
  <2>2. CASE ~UNCHANGED disk
    <3>1. \A g \in Gens : AlikeAt(g)
      BY <1>5, <2>2, PublishedLayer DEF Publish, AlikeAt
    <3> QED BY <1>2, <3>1, KeysAreIssued
  <2> QED BY <2>1, <2>2
<1>6. ASSUME NEW c \in Contexts, Collect(c) PROVE Spared(d)
  <2>1. PICK x \in Gens : \/ manifest' = [manifest EXCEPT ![x] = None]
                          \/ UNCHANGED manifest
    BY <1>6 DEF Collect, Victims, Unreachable, Abandoned
  <2>2. \A g \in Gens : manifest'[g] = None \/ manifest'[g] = manifest[g]
    BY <2>1 DEF StoreInv, Typed
  <2> QED BY <1>2, <2>2, KeysAreIssued DEF AlikeAt
<1>7. ASSUME NEW c \in Contexts,
             \/ Materialize(c) \/ ReadBaseline(c) \/ ReadChanges(c) \/ Recheck(c) \/ Flush(c)
             \/ Prove(c) \/ GiveUp(c) \/ Read(c) \/ Crash(c)
             \/ \E delta \in BOOLEAN : Begin(c, delta) \/ OpenRead(c, delta)
      PROVE  Spared(d)
  BY <1>1, <1>7 DEF Materialize, ReadBaseline, ReadChanges, Recheck, Flush, Prove, GiveUp, Read,
                    OpenReadDone, Release, Crash, Begin, OpenRead, disk
<1>8. CASE Save \/ AccountChanges \/ UNCHANGED storeVars
  BY <1>1, <1>8 DEF Save, AccountChanges, storeVars, disk
<1>9. Writers \subseteq Contexts /\ Readers \subseteq Contexts /\ Collectors \subseteq Contexts
  BY InventoryAssumption
<1> QED BY <1>3, <1>4, <1>5, <1>6, <1>7, <1>8, <1>9 DEF StoreNext, Work

LEMMA IssuedGrows ==
    ASSUME StoreInv, [StoreNext]_storeVars
    PROVE  issued \in Nat /\ issued' \in Nat /\ issued <= issued'
<1>1. issued \in Nat
  BY DEF StoreInv, Typed
<1>2. issued' = issued \/ issued' = issued + 1
  BY DEF StoreNext, storeVars, Save, AccountChanges, Work, Read, Begin, OpenRead, Materialize,
         ReadBaseline, ReadChanges, Recheck, Reserve, Flush, Seal, Prove, Publish, GiveUp,
         Collect, OpenReadDone, Release, Crash
<1> QED BY <1>1, <1>2

\* what a publication knew before a step is still so after it
LEMMA DraftStays ==
    ASSUME StoreInv, Drafts, Bygone, History, [StoreNext]_storeVars, NEW d \in Contexts
    PROVE  DraftGood(job[d], manifest', issued', remote')
<1>1. /\ Spared(d) /\ issued \in Nat /\ issued' \in Nat /\ issued <= issued'
      /\ DraftGood(job[d], manifest, issued, remote)
  BY StepSpares, IssuedGrows DEF Drafts
<1>2. \A k \in 1..Len(remote) : k \in 1..Len(remote') /\ remote'[k] = remote[k]
  BY DEF History, Now
<1>3. job[d].delta =>
         /\ job[d].before.active \in 1..issued' /\ job[d].before.cursor \in 1..Len(remote')
         /\ remote'[job[d].before.cursor] = remote[job[d].before.cursor]
         /\ manifest'[job[d].before.active] # None =>
               manifest'[job[d].before.active].depth + 1 = job[d].depth
  BY <1>1, <1>2 DEF DraftGood, Spared, AlikeAt
<1>4. ~job[d].delta => job[d].depth = 0
  BY <1>1 DEF DraftGood
<1>5. job[d].at \in Drawn => /\ job[d].terminal \in 1..Len(remote')
                             /\ job[d].delta => job[d].before.cursor < job[d].terminal
                             /\ job[d].cand = Take(remote'[job[d].terminal],
                                                   Sought(job[d], remote'))
  <2> SUFFICES ASSUME job[d].at \in Drawn
               PROVE  /\ job[d].terminal \in 1..Len(remote')
                      /\ job[d].delta => job[d].before.cursor < job[d].terminal
                      /\ job[d].cand = Take(remote'[job[d].terminal], Sought(job[d], remote'))
    OBVIOUS
  <2>1. /\ job[d].terminal \in 1..Len(remote')
        /\ job[d].delta => job[d].before.cursor < job[d].terminal
        /\ remote'[job[d].terminal] = remote[job[d].terminal]
        /\ job[d].cand = Take(remote[job[d].terminal], Sought(job[d], remote))
    BY <1>1, <1>2 DEF DraftGood
  <2>2. Sought(job[d], remote') = Sought(job[d], remote)
    BY <1>3, <2>1 DEF Sought
  <2> QED BY <2>1, <2>2
<1>6. job[d].at \in Sealing /\ manifest'[job[d].gen] # None =>
         /\ manifest'[job[d].gen].parent = IF job[d].delta THEN job[d].before.active ELSE None
         /\ manifest'[job[d].gen].depth = job[d].depth
         /\ manifest'[job[d].gen].digest = job[d].cand
  BY <1>1 DEF DraftGood, Spared, AlikeAt
<1>7. job[d].at = "publish" => job[d].proof = job[d].cand
  BY <1>1 DEF DraftGood
<1> QED BY <1>3, <1>4, <1>5, <1>6, <1>7 DEF DraftGood

\* one publication moves on, the others keep what they know
LEMMA DraftsMove ==
    ASSUME StoreInv, Drafts, Bygone, History, [StoreNext]_storeVars,
           NEW c \in Contexts, NEW j, Goto(c, j), DraftGood(j, manifest', issued', remote')
    PROVE  Drafts'
<1>1. job'[c] = j /\ \A d \in Contexts \ {c} : job'[d] = job[d]
  BY DEF Goto, StoreInv, Typed
<1> SUFFICES ASSUME NEW d \in Contexts
             PROVE  DraftGood(job'[d], manifest', issued', remote')
  BY DEF Drafts
<1>2. CASE d = c
  BY <1>1, <1>2
<1>3. CASE d # c
  BY <1>1, <1>3, DraftStays
<1> QED BY <1>2, <1>3

\* a publication that is over knows nothing
LEMMA IdleKnowsNothing == ASSUME NEW m, NEW n, NEW past PROVE DraftGood(Idle, m, n, past)
BY DEF DraftGood, Idle, Drawn, Owning, Sealing

LEMMA BeginDrafts ==
    ASSUME StoreInv, HorizonInv, History, [StoreNext]_storeVars,
           NEW c \in Contexts, NEW delta \in BOOLEAN, Begin(c, delta)
    PROVE  Drafts'
<1> DEFINE j == [Idle EXCEPT !.at = IF delta THEN "open" ELSE "provider",
                             !.delta = delta, !.before = CurrentSnapshot,
                             !.depth = IF delta THEN manifest[control.gen].depth + 1
                                                ELSE 0]
<1>1. /\ Goto(c, j) /\ UNCHANGED <<remote, manifest, issued>>
      /\ delta => Ready /\ FenceMatches
  BY DEF Begin, MayExtend, SnapshotTrusted, disk
<1>2. /\ j.delta = delta /\ j.before = CurrentSnapshot
      /\ j.at \notin Drawn \cup Sealing
      /\ j.depth = IF delta THEN manifest[control.gen].depth + 1 ELSE 0
  <2>1. (IF delta THEN "open" ELSE "provider") \in {"open", "provider"}
    OBVIOUS
  <2> QED BY <2>1 DEF Idle, Drawn, Owning, Sealing
<1>3. delta => /\ control.gen \in 1..issued /\ authority.cursor \in 1..Len(remote)
               /\ CurrentSnapshot.active = control.gen
               /\ CurrentSnapshot.cursor = authority.cursor
  <2> SUFFICES ASSUME delta
               PROVE  /\ control.gen \in 1..issued /\ authority.cursor \in 1..Len(remote)
                      /\ CurrentSnapshot.active = control.gen
                      /\ CurrentSnapshot.cursor = authority.cursor
    OBVIOUS
  <2>1. control.gen \in Gens /\ manifest[control.gen] # None
    BY <1>1, ActiveChain DEF Intact
  <2>2. control.gen \in 1..issued
    BY <2>1 DEF StoreInv, Typed, Unissued, Gens
  <2>3. authority.cursor \in 1..Len(remote)
    BY <1>1 DEF HorizonInv, ActiveShown, FenceMatches, Now
  <2> QED BY <1>1, <2>2, <2>3 DEF CurrentSnapshot
<1> HIDE DEF j
<1>4. DraftGood(j, manifest', issued', remote')
  BY <1>1, <1>2, <1>3 DEF DraftGood, Drawn, Sealing
<1> QED BY <1>1, <1>4, DraftsMove DEF HorizonInv

LEMMA WorkDrafts ==
    ASSUME StoreInv, HorizonInv, History, [StoreNext]_storeVars,
           NEW c \in Contexts, Work(c) \/ GiveUp(c)
    PROVE  Drafts'
<1> DEFINE o == job[c]
<1>1. /\ DraftGood(o, manifest', issued', remote') /\ o \in Job
      /\ DraftGood(o, manifest, issued, remote)
  BY DraftStays, JobFacts DEF HorizonInv, Drafts
<1>2. ASSUME Goto(c, Idle) PROVE Drafts'
  BY <1>2, IdleKnowsNothing, DraftsMove DEF HorizonInv
<1>3. ASSUME NEW j, Goto(c, j), DraftGood(j, manifest', issued', remote') PROVE Drafts'
  BY <1>3, DraftsMove DEF HorizonInv
<1>4. ASSUME Materialize(c) PROVE Drafts'
  <2> DEFINE j == [job[c] EXCEPT !.at = "provider", !.base = Effective(reader[c].gens)]
  <2>1. Goto(c, j) \/ Goto(c, Idle)
    BY <1>4 DEF Materialize
  <2>2. /\ j.at = "provider" /\ j.delta = o.delta /\ j.before = o.before /\ j.depth = o.depth
    BY <1>1 DEF Job
  <2> HIDE DEF j
  <2>3. DraftGood(j, manifest', issued', remote')
    BY <1>1, <2>2 DEF DraftGood, Drawn, Owning, Sealing
  <2> QED BY <1>2, <1>3, <2>1, <2>3
<1>5. ASSUME ReadBaseline(c) PROVE Drafts'
  <2> DEFINE j == [job[c] EXCEPT !.at = "again", !.terminal = Now,
                                 !.cand = Take(remote[Now], Present(remote[Now]))]
  <2>1. Goto(c, j) /\ ~o.delta /\ UNCHANGED remote
    BY <1>5 DEF ReadBaseline
  <2>2. /\ j.at = "again" /\ j.delta = o.delta /\ j.before = o.before /\ j.depth = o.depth
        /\ j.terminal = Now /\ j.cand = Take(remote[Now], Present(remote[Now]))
    BY <1>1 DEF Job
  <2> HIDE DEF j
  <2>3. Now \in 1..Len(remote')
    BY <2>1 DEF StoreInv, Typed, Now
  <2>4. DraftGood(j, manifest', issued', remote')
    BY <1>1, <2>1, <2>2, <2>3 DEF DraftGood, Drawn, Owning, Sealing, Sought
  <2> QED BY <1>3, <2>1, <2>4
<1>6. ASSUME ReadChanges(c) PROVE Drafts'
  <2> DEFINE cand == Take(remote[Now], Changed(job[c].before.cursor, Now))
             j == [job[c] EXCEPT !.at = "again", !.terminal = Now,
                                 !.base = NoRows, !.cand = cand]
  <2>1. Goto(c, j) /\ o.delta /\ o.before.cursor < Now /\ UNCHANGED remote
    BY <1>1, <1>6 DEF ReadChanges, DraftGood, StoreInv, Typed, Now
  <2>2. /\ j.at = "again" /\ j.delta = o.delta /\ j.before = o.before /\ j.depth = o.depth
        /\ j.terminal = Now /\ j.cand = cand
    BY <1>1 DEF Job
  <2> HIDE DEF j
  <2>3. Now \in 1..Len(remote')
    BY <2>1 DEF StoreInv, Typed, Now
  <2>4. cand = Take(remote'[j.terminal], Sought(j, remote'))
    BY <2>1, <2>2 DEF Sought, Changed
  <2> HIDE DEF cand
  <2>5. DraftGood(j, manifest', issued', remote')
    BY <1>1, <2>1, <2>2, <2>3, <2>4 DEF DraftGood, Drawn, Owning, Sealing
  <2> QED BY <1>3, <2>1, <2>5
<1>7. ASSUME Recheck(c) PROVE Drafts'
  <2> DEFINE j == [job[c] EXCEPT !.at = "reserve"]
  <2>1. Goto(c, j) /\ o.at = "again"
    BY <1>7 DEF Recheck
  <2>2. /\ j.at = "reserve" /\ j.delta = o.delta /\ j.before = o.before /\ j.depth = o.depth
        /\ j.terminal = o.terminal /\ j.cand = o.cand
    BY <1>1 DEF Job
  <2> HIDE DEF j
  <2>3. DraftGood(j, manifest', issued', remote')
    BY <1>1, <2>1, <2>2 DEF DraftGood, Drawn, Owning, Sealing, Sought
  <2> QED BY <1>3, <2>1, <2>3
<1>8. ASSUME Reserve(c) PROVE Drafts'
  <2> DEFINE j == [job[c] EXCEPT !.at = "flush", !.gen = issued + 1]
  <2>1. Goto(c, Idle) \/ Goto(c, j)
    BY <1>8 DEF Reserve
  <2>2. /\ j.at = "flush" /\ j.delta = o.delta /\ j.before = o.before /\ j.depth = o.depth
        /\ j.terminal = o.terminal /\ j.cand = o.cand /\ o.at = "reserve"
    BY <1>1, <1>8 DEF Job, Reserve
  <2> HIDE DEF j
  <2>3. DraftGood(j, manifest', issued', remote')
    BY <1>1, <2>2 DEF DraftGood, Drawn, Owning, Sealing, Sought
  <2> QED BY <1>2, <1>3, <2>1, <2>3
<1>9. ASSUME Flush(c) PROVE Drafts'
  <2> DEFINE done == job[c].flushed \cup {NextObject(DOMAIN job[c].cand \ job[c].flushed)}
             j == [job[c] EXCEPT !.flushed = done]
  <2>1. Goto(c, j) /\ o.at = "flush"
    BY <1>9 DEF Flush
  <2>2. /\ j.at = "flush" /\ j.delta = o.delta /\ j.before = o.before /\ j.depth = o.depth
        /\ j.terminal = o.terminal /\ j.cand = o.cand
    BY <1>1, <2>1 DEF Job
  <2> HIDE DEF j
  <2>3. DraftGood(j, manifest', issued', remote')
    BY <1>1, <2>1, <2>2 DEF DraftGood, Drawn, Owning, Sealing, Sought
  <2> QED BY <1>3, <2>1, <2>3
<1>10. ASSUME Seal(c) PROVE Drafts'
  <2> DEFINE j == [job[c] EXCEPT !.at = "proof"]
  <2>1. /\ Goto(c, j) /\ o.at = "flush" /\ o.gen \in Gens
        /\ manifest' = [manifest EXCEPT ![o.gen] = Sealed(c)]
    BY <1>10, JobFacts DEF Seal, JobGood, Owning
  <2>2. /\ j.at = "proof" /\ j.delta = o.delta /\ j.before = o.before /\ j.depth = o.depth
        /\ j.terminal = o.terminal /\ j.cand = o.cand /\ j.gen = o.gen
    BY <1>1 DEF Job
  <2>3. /\ manifest'[o.gen] = Sealed(c) /\ Sealed(c).depth = o.depth
        /\ Sealed(c).parent = (IF o.delta THEN o.before.active ELSE None)
        /\ Sealed(c).digest = o.cand
    BY <2>1 DEF StoreInv, Typed, Sealed, Unsealed, Parentage
  <2> HIDE DEF j
  <2>4. DraftGood(j, manifest', issued', remote')
    BY <1>1, <2>1, <2>2, <2>3 DEF DraftGood, Drawn, Owning, Sealing, Sought
  <2> QED BY <1>3, <2>1, <2>4
<1>11. ASSUME Prove(c) PROVE Drafts'
  <2> DEFINE j == [job[c] EXCEPT !.at = "publish", !.proof = rows[job[c].gen]]
  <2>1. CASE Intact(o.gen)
    <3>1. /\ Goto(c, j) /\ o.at = "proof" /\ manifest[o.gen] # None
          /\ rows[o.gen] = manifest[o.gen].digest
      BY <1>11, <2>1 DEF Prove, Intact
    <3>2. rows[o.gen] = o.cand
      BY <1>1, <3>1 DEF DraftGood, Sealing
    <3>3. /\ j.at = "publish" /\ j.delta = o.delta /\ j.before = o.before /\ j.depth = o.depth
          /\ j.terminal = o.terminal /\ j.cand = o.cand /\ j.gen = o.gen
          /\ j.proof = rows[o.gen]
      BY <1>1 DEF Job
    <3> HIDE DEF j
    <3>4. DraftGood(j, manifest', issued', remote')
      BY <1>1, <3>1, <3>2, <3>3 DEF DraftGood, Drawn, Owning, Sealing, Sought
    <3> QED BY <1>3, <3>1, <3>4
  <2>2. CASE ~Intact(o.gen)
    BY <1>2, <1>11, <2>2 DEF Prove
  <2> QED BY <2>1, <2>2
<1>12. ASSUME Publish(c) \/ GiveUp(c) PROVE Drafts'
  BY <1>2, <1>12 DEF Publish, GiveUp
<1> QED BY <1>4, <1>5, <1>6, <1>7, <1>8, <1>9, <1>10, <1>11, <1>12 DEF Work

LEMMA DraftsStay ==
    ASSUME StoreInv, HorizonInv, History, [StoreNext]_storeVars
    PROVE  Drafts'
<1>1. ASSUME UNCHANGED job PROVE Drafts'
  BY <1>1, DraftStays DEF HorizonInv, Drafts
<1>2. ASSUME NEW c \in Contexts, Crash(c) PROVE Drafts'
  BY <1>2, IdleKnowsNothing, DraftsMove DEF HorizonInv, Crash, Goto
<1>3. ASSUME NEW c \in Contexts, NEW mine \in BOOLEAN,
             OpenRead(c, mine) \/ Collect(c) \/ Read(c)
      PROVE  Drafts'
  BY <1>1, <1>3 DEF OpenRead, Collect, Read, OpenReadDone, Release, memory
<1>4. CASE Save \/ AccountChanges \/ UNCHANGED storeVars
  BY <1>1, <1>4 DEF Save, AccountChanges, storeVars, memory
<1>5. Writers \subseteq Contexts /\ Readers \subseteq Contexts /\ Collectors \subseteq Contexts
  BY InventoryAssumption
<1> QED BY <1>2, <1>3, <1>4, <1>5, BeginDrafts, WorkDrafts DEF StoreNext

\* a step in which no snapshot is taken and no key handed out
LEMMA NothingNamed ==
    ASSUME Bygone,
           \A c \in Contexts : job'[c].delta => job[c].delta /\ job'[c].before = job[c].before,
           \A c \in Contexts : job'[c].at = "flush" =>
              job[c].at = "flush" /\ job'[c].gen = job[c].gen
    PROVE  Bygone'
BY DEF Bygone

\* a job that moves on keeps its snapshot, and starts no layer
LEMMA NothingNamedBy ==
    ASSUME StoreInv, Bygone, NEW c \in Contexts, NEW j, Goto(c, j),
           j.delta => job[c].delta /\ j.before = job[c].before,
           j.at = "flush" => job[c].at = "flush" /\ j.gen = job[c].gen
    PROVE  Bygone'
<1>1. job'[c] = j /\ \A d \in Contexts \ {c} : job'[d] = job[d]
  BY DEF Goto, StoreInv, Typed
<1> QED BY <1>1, NothingNamed

LEMMA BygoneStays ==
    ASSUME StoreInv, HorizonInv, [StoreNext]_storeVars PROVE Bygone'
<1>1. Bygone
  BY DEF HorizonInv
<1>2. ASSUME UNCHANGED job PROVE Bygone'
  BY <1>1, <1>2 DEF Bygone
<1>3. ASSUME NEW c \in Contexts, Goto(c, Idle) PROVE Bygone'
  BY <1>1, <1>3, NothingNamedBy DEF Idle
<1>4. ASSUME NEW c \in Contexts, NEW delta \in BOOLEAN, Begin(c, delta) PROVE Bygone'
  <2> DEFINE j == [Idle EXCEPT !.at = IF delta THEN "open" ELSE "provider",
                               !.delta = delta, !.before = CurrentSnapshot,
                               !.depth = IF delta THEN manifest[control.gen].depth + 1
                                                  ELSE 0]
  <2>1. Goto(c, j) /\ (delta => Ready)
    BY <1>4 DEF Begin, MayExtend
  <2>2. /\ j.delta = delta /\ j.before = CurrentSnapshot /\ j.at # "flush"
    <3>1. (IF delta THEN "open" ELSE "provider") \in {"open", "provider"}
      OBVIOUS
    <3> QED BY <3>1 DEF Idle
  <2> HIDE DEF j
  <2>3. job'[c] = j /\ \A d \in Contexts \ {c} : job'[d] = job[d]
    BY <2>1 DEF Goto, StoreInv, Typed
  <2>4. Ready => \A d \in Contexts : job[d].at = "flush" => job[d].gen # control.gen
    BY ActiveChain, JobFacts DEF JobGood, Intact
  <2>5. delta => CurrentSnapshot.active = control.gen
    BY <2>1 DEF CurrentSnapshot
  <2> QED BY <1>1, <2>1, <2>2, <2>3, <2>4, <2>5 DEF Bygone
<1>5. ASSUME NEW c \in Contexts, Reserve(c) PROVE Bygone'
  <2> DEFINE j == [job[c] EXCEPT !.at = "flush", !.gen = issued + 1]
  <2>1. Goto(c, j) \/ Goto(c, Idle)
    BY <1>5 DEF Reserve
  <2>2. ASSUME Goto(c, j) PROVE Bygone'
    <3>1. job[c] \in Job
      BY JobFacts
    <3>2. j.delta = job[c].delta /\ j.before = job[c].before /\ j.gen = issued + 1
      BY <3>1 DEF Job
    <3> HIDE DEF j
    <3>3. job'[c] = j /\ \A d \in Contexts \ {c} : job'[d] = job[d]
      BY <2>2 DEF Goto, StoreInv, Typed
    <3>4. \A d \in Contexts : job[d].delta => job[d].before.active # issued + 1
      BY KeysAreIssued DEF HorizonInv
    <3> QED BY <1>1, <3>2, <3>3, <3>4 DEF Bygone
  <2> QED BY <1>3, <2>1, <2>2
<1>6. ASSUME NEW c \in Contexts,
             \/ Materialize(c) \/ ReadBaseline(c) \/ ReadChanges(c) \/ Recheck(c)
             \/ Flush(c) \/ Seal(c) \/ Prove(c)
      PROVE  Bygone'
  <2>1. \/ Goto(c, Idle)
        \/ \E j \in Job : /\ Goto(c, j) /\ j.delta = job[c].delta /\ j.before = job[c].before
                          /\ j.gen = job[c].gen
                          /\ j.at = "flush" => job[c].at = "flush"
    <3>1. job[c] \in Job /\ job' \in [Contexts -> Job]
      <4>1. StoreInv'
        BY StoreStep
      <4> QED BY <4>1, JobFacts DEF StoreInv, Typed
    <3>2. \A j : Goto(c, j) => j \in Job
      <4> SUFFICES ASSUME NEW j, Goto(c, j) PROVE j \in Job
        OBVIOUS
      <4>1. job'[c] = j
        BY DEF Goto, StoreInv, Typed
      <4> QED BY <3>1, <4>1
    <3>3. CASE Materialize(c)
      <4> DEFINE j == [job[c] EXCEPT !.at = "provider", !.base = Effective(reader[c].gens)]
      <4>1. Goto(c, j) \/ Goto(c, Idle)
        BY <3>3 DEF Materialize
      <4>2. /\ j.delta = job[c].delta /\ j.before = job[c].before /\ j.gen = job[c].gen
            /\ j.at = "provider"
        BY <3>1 DEF Job
      <4> HIDE DEF j
      <4> QED BY <3>2, <4>1, <4>2
    <3>4. CASE ReadBaseline(c)
      <4> DEFINE j == [job[c] EXCEPT !.at = "again", !.terminal = Now,
                                     !.cand = Take(remote[Now], Present(remote[Now]))]
      <4>1. Goto(c, j)
        BY <3>4 DEF ReadBaseline
      <4>2. /\ j.delta = job[c].delta /\ j.before = job[c].before /\ j.gen = job[c].gen
            /\ j.at = "again"
        BY <3>1 DEF Job
      <4> HIDE DEF j
      <4> QED BY <3>2, <4>1, <4>2
    <3>5. CASE ReadChanges(c)
      <4> DEFINE cand == Take(remote[Now], Changed(job[c].before.cursor, Now))
                 j == [job[c] EXCEPT !.at = "again", !.terminal = Now,
                                     !.base = NoRows, !.cand = cand]
      <4>1. Goto(c, j)
        BY <3>5 DEF ReadChanges
      <4> HIDE DEF cand
      <4>2. /\ j.delta = job[c].delta /\ j.before = job[c].before /\ j.gen = job[c].gen
            /\ j.at = "again"
        BY <3>1 DEF Job
      <4> HIDE DEF j
      <4> QED BY <3>2, <4>1, <4>2
    <3>6. CASE Recheck(c) \/ Seal(c)
      BY <3>1, <3>6 DEF Recheck, Seal, Job
    <3>7. CASE Flush(c)
      <4> DEFINE done == job[c].flushed \cup {NextObject(DOMAIN job[c].cand \ job[c].flushed)}
                 j == [job[c] EXCEPT !.flushed = done]
      <4>1. Goto(c, j)
        BY <3>7 DEF Flush
      <4> HIDE DEF done
      <4>2. /\ j.delta = job[c].delta /\ j.before = job[c].before /\ j.gen = job[c].gen
            /\ j.at = job[c].at
        BY <3>1 DEF Job
      <4> HIDE DEF j
      <4> QED BY <3>2, <4>1, <4>2
    <3>8. CASE Prove(c)
      <4> DEFINE j == [job[c] EXCEPT !.at = "publish", !.proof = rows[job[c].gen]]
      <4>1. Goto(c, j) \/ Goto(c, Idle)
        BY <3>8 DEF Prove
      <4>2. /\ j.delta = job[c].delta /\ j.before = job[c].before /\ j.gen = job[c].gen
            /\ j.at = "publish"
        BY <3>1 DEF Job
      <4> HIDE DEF j
      <4> QED BY <3>2, <4>1, <4>2
    <3> QED BY <1>6, <3>3, <3>4, <3>5, <3>6, <3>7, <3>8
  <2> QED BY <1>1, <1>3, <2>1, NothingNamedBy
<1>7. ASSUME NEW c \in Contexts, Publish(c) \/ GiveUp(c) \/ Crash(c) PROVE Bygone'
  BY <1>3, <1>7 DEF Publish, GiveUp, Crash, Goto
<1>8. ASSUME NEW c \in Contexts, NEW mine \in BOOLEAN,
             OpenRead(c, mine) \/ Collect(c) \/ Read(c)
      PROVE  Bygone'
  BY <1>2, <1>8 DEF OpenRead, Collect, Read, OpenReadDone, Release, memory
<1>9. CASE Save \/ AccountChanges \/ UNCHANGED storeVars
  BY <1>2, <1>9 DEF Save, AccountChanges, storeVars, memory
<1>10. Writers \subseteq Contexts /\ Readers \subseteq Contexts /\ Collectors \subseteq Contexts
  BY InventoryAssumption
<1> QED BY <1>4, <1>5, <1>6, <1>7, <1>8, <1>9, <1>10 DEF StoreNext, Work

----------------------------------------------------------------------------
(* Publication *)

\* a step that makes a candidate the active inventory
Accepted(c) ==
    /\ CandidateHolds(c) /\ PointerHolds(c) /\ AuthorityHolds(c) /\ authority.rev < MaxRev
    /\ authority' = PublishedAuthority(c)
    /\ manifest' = [manifest EXCEPT ![job[c].gen].rev = authority.rev + 1]
    /\ control' = [status |-> "ready", gen |-> job[c].gen,
                   cursor |-> job[c].terminal, rev |-> authority.rev + 1]
    /\ UNCHANGED <<counter, rows, pinned>>

LEMMA PublishCases ==
    ASSUME NEW c \in Contexts, Publish(c) PROVE UNCHANGED disk \/ Accepted(c)
BY DEF Publish, Accepted

\* the candidate, when it is accepted
LEMMA CandidateIs ==
    ASSUME StoreInv, HorizonInv, NEW c \in Contexts, job[c].at = "publish", CandidateHolds(c),
           PointerHolds(c)
    PROVE  LET j == job[c]
               g == j.gen
           IN  /\ g \in Gens /\ Intact(g) /\ j.terminal \in 1..Now
               /\ rows[g] = Take(remote[j.terminal], Sought(j, remote))
               /\ manifest[g].depth = j.depth
               /\ IF j.delta
                  THEN /\ Ready /\ Parent(g) = control.gen /\ j.before.cursor = control.cursor
                       /\ j.before.cursor < j.terminal
                       /\ manifest[control.gen].depth < manifest[g].depth
                  ELSE Parent(g) = None
<1> DEFINE j == job[c]
           g == j.gen
<1>1. /\ g \in Gens /\ Intact(g) /\ manifest[g] \in Manifest /\ manifest[g] # None
      /\ manifest[g].digest = j.proof
  BY CandidateIsIntact, JobFacts DEF JobGood, Owning, CandidateHolds
<1>2. DraftGood(j, manifest, issued, remote)
  BY DEF HorizonInv, Drafts
<1>3. /\ j.terminal \in 1..Now /\ j.cand = Take(remote[j.terminal], Sought(j, remote))
      /\ j.delta => j.before.cursor < j.terminal
      /\ manifest[g].parent = (IF j.delta THEN j.before.active ELSE None)
      /\ manifest[g].depth = j.depth /\ j.proof = j.cand
  BY <1>1, <1>2 DEF DraftGood, Drawn, Owning, Sealing, Now
<1>4. rows[g] = Take(remote[j.terminal], Sought(j, remote))
  BY <1>1, <1>3 DEF Intact
<1>5. Parent(g) = manifest[g].parent
  BY <1>1 DEF Parent
<1>6. CASE j.delta
  <2>1. j.before.active \in Gens /\ j.before.active # None
    BY <1>2, <1>6, JobFacts, NoneIsNoGen DEF DraftGood
  <2>2. /\ Ready /\ control.gen = j.before.active /\ control.cursor = j.before.cursor
    BY <2>1, <1>3, <1>6 DEF PointerHolds
  <2>3. manifest[control.gen] # None /\ manifest[control.gen] \in Manifest
    BY <2>1, <2>2, ActiveChain DEF Intact, StoreInv, Typed
  <2>4. manifest[control.gen].depth + 1 = j.depth
    BY <1>2, <1>6, <2>2, <2>3 DEF DraftGood
  <2>5. manifest[control.gen].depth < manifest[g].depth
    <3>1. manifest[control.gen].depth \in Nat
      BY <2>3, InventoryAssumption DEF Manifest
    <3> QED BY <1>3, <2>4, <3>1
  <2> QED BY <1>1, <1>3, <1>4, <1>5, <1>6, <2>2, <2>5
<1>7. CASE ~j.delta
  BY <1>1, <1>3, <1>4, <1>5, <1>7
<1> QED BY <1>6, <1>7

LEMMA AcceptedShows ==
    ASSUME StoreInv, StoreInv', HorizonInv, NEW c \in Contexts, Publish(c), Accepted(c)
    PROVE  ActiveShown'
<1>1. PICK g \in Gens, k \in 1..Now : g = job[c].gen /\ k = job[c].terminal
  BY CandidateIs DEF Publish, Accepted
<1>2. /\ Intact(g) /\ manifest[g].depth = job[c].depth
      /\ rows[g] = Take(remote[k], Sought(job[c], remote))
  BY <1>1, CandidateIs DEF Publish, Accepted
<1>3. \A h \in Gens : /\ rows'[h] = rows[h] /\ Parent(h)' = Parent(h)
                      /\ manifest[h] # None => manifest'[h].depth = manifest[h].depth
  BY PublishedLayer DEF Accepted
<1>4. control'.gen = g /\ control'.cursor = k /\ UNCHANGED remote
  BY <1>1 DEF Accepted, Publish
<1>5. remote[k] \in Content
  BY <1>1 DEF StoreInv, Typed, Now
<1>6. \A h \in Gens : Parent(h) \in Gens \cup {None} /\ Parent(h)' \in Gens \cup {None}
  BY <1>3, ParentTyped DEF StoreInv
<1>7. \E C \in SUBSET Gens :
         /\ C = Chain(g)' /\ Shows(C, remote[k], manifest', rows')
         /\ \A h \in C : manifest'[h].depth <= manifest'[g].depth
  <2>1. CASE ~job[c].delta
    <3>1. Parent(g)' = None
      BY <1>1, <1>3, <2>1, CandidateIs DEF Publish, Accepted
    <3>2. Chain(g)' = {g}
      <4>1. Closed({g})'
        BY <3>1 DEF Closed
      <4>2. g \in Chain(g)' /\ Chain(g)' \subseteq {g}
        BY <4>1 DEF Chain
      <4> QED BY <4>2
    <3>3. DOMAIN rows[g] = Present(remote[k]) /\ \A o \in DOMAIN rows[g] : rows[g][o] = remote[k][o]
      BY <1>1, <1>2, <2>1 DEF Take, Sought
    <3>4. Shows({g}, remote[k], manifest', rows')
      <4>1. \A o \in Objects : o \in DOMAIN rows'[g] => rows'[g][o] = remote[k][o]
        BY <1>3, <3>3
      <4>2. \A o \in Objects : o \notin DOMAIN rows'[g] => remote[k][o] = 0
        BY <1>3, <3>3 DEF Present
      <4> QED BY <4>1, <4>2, ShowsAlone
    <3>5. manifest'[g].depth \in Nat
      <4>1. manifest[g] # None /\ manifest[g] \in Manifest
        BY <1>2 DEF Intact, StoreInv, Typed
      <4> QED BY <1>3, <4>1, InventoryAssumption DEF Manifest
    <3> QED BY <3>2, <3>4, <3>5
  <2>2. CASE job[c].delta
    <3>1. PICK q \in Gens, C \in SUBSET Gens, f \in 1..Now :
             /\ q = control.gen /\ f = control.cursor /\ C = Chain(q)
      BY <1>1, <2>2, CandidateIs, ActiveChain
      DEF Publish, Accepted, HorizonInv, ActiveShown, StoreInv, Typed
    <3>2. /\ Ready /\ Parent(g) = q /\ job[c].before.cursor = f
          /\ manifest[q].depth < manifest[g].depth
      BY <1>1, <2>2, <3>1, CandidateIs DEF Publish, Accepted
    <3>3. /\ Shows(C, remote[f], manifest, rows) /\ q \in C /\ Closed(C)
          /\ \A h \in C : manifest[h].depth <= manifest[q].depth /\ Intact(h)
      BY <3>1, <3>2, ActiveChain DEF HorizonInv, ActiveShown
    <3>4. \A h \in C \cup {g} : manifest[h] # None /\ manifest[h].depth \in Nat
      BY <1>2, <3>3, InventoryAssumption DEF Intact, StoreInv, Typed, Manifest
    <3>5. /\ g \notin C /\ \A h \in C : manifest'[h].depth < manifest'[g].depth
      BY <1>3, <3>2, <3>3, <3>4
    <3>6. Chain(g)' = C \cup {g}
      <4> DEFINE D == Chain(g)'
      <4>1. Closed(C \cup {g})'
        BY <1>3, <3>2, <3>3 DEF Closed
      <4>2. D \subseteq C \cup {g}
        BY <4>1 DEF Chain
      <4>3. g \in D /\ D \subseteq Gens /\ \A h \in D : Parent(h)' # None => Parent(h)' \in D
        BY <1>6 DEF Chain, Closed
      <4>4. q \in D
        BY <1>3, <3>2, <4>3, NoneIsNoGen
      <4> HIDE DEF D
      <4>5. PICK T \in SUBSET Gens : T = D
        BY <4>3
      <4>6. Closed(T)
        BY <1>3, <4>3, <4>5 DEF Closed
      <4>7. C \subseteq T
        BY <3>1, <4>4, <4>5, <4>6, ChainIsLeast
      <4> QED BY <4>2, <4>3, <4>5, <4>7 DEF D
    <3>7. /\ DOMAIN rows[g] = {o \in Objects : remote[f][o] # remote[k][o]}
          /\ \A o \in DOMAIN rows[g] : rows[g][o] = remote[k][o]
      BY <1>1, <1>2, <2>2, <3>2 DEF Take, Sought
    <3>8. Shows(C, remote[f], manifest', rows')
      <4>1. \A h \in C : rows'[h] = rows[h] /\ manifest'[h].depth = manifest[h].depth
        BY <1>3, <3>4
      <4> QED BY <3>3, <4>1, ShowsOn
    <3>9. Shows(C \cup {g}, remote[k], manifest', rows')
      <4>1. \A o \in Objects : o \in DOMAIN rows'[g] => rows'[g][o] = remote[k][o]
        BY <1>3, <3>7
      <4>2. \A o \in Objects : o \notin DOMAIN rows'[g] => remote[f][o] = remote[k][o]
        BY <1>3, <3>7
      <4> QED BY <3>5, <3>8, <4>1, <4>2, ShowsAbove
    <3>10. \A h \in C \cup {g} : manifest'[h].depth <= manifest'[g].depth
      BY <1>3, <3>4, <3>5
    <3> QED BY <3>6, <3>9, <3>10
  <2> QED BY <2>1, <2>2
<1> QED BY <1>4, <1>7 DEF ActiveShown, Now

----------------------------------------------------------------------------
(* Theorems *)

LEMMA HorizonInitially == StoreInit => HorizonInv
<1> SUFFICES ASSUME StoreInit PROVE HorizonInv
  OBVIOUS
<1>1. ActiveShown
  BY DEF StoreInit, ActiveShown, Ready
<1>2. ReadersShown
  BY NoReaderIsReader DEF StoreInit, ReadersShown, ReaderShown
<1>3. Drafts
  BY IdleKnowsNothing DEF StoreInit, Drafts
<1>4. Bygone
  <2>1. \A c \in Contexts : ~job[c].delta
    BY DEF StoreInit, Idle
  <2> QED BY <2>1 DEF Bygone
<1> QED BY <1>1, <1>2, <1>3, <1>4 DEF HorizonInv

\* a step that publishes nothing leaves the pointer, or withdraws it
LEMMA PointerStays ==
    ASSUME [StoreNext]_storeVars, \A c \in Contexts : ~(Publish(c) /\ Accepted(c))
    PROVE  control' = control \/ control'.status = "invalid"
<1>1. CASE Save
  <2>1. PICK a : control' = Unfenced(a)
    BY <1>1 DEF Save
  <2> QED BY <2>1 DEF Unfenced
<1>2. ASSUME NEW c \in Contexts, Publish(c) PROVE control' = control
  BY <1>2, PublishCases DEF disk
<1>3. ASSUME NEW c \in Contexts,
             \/ Materialize(c) \/ ReadBaseline(c) \/ ReadChanges(c) \/ Recheck(c) \/ Reserve(c)
             \/ Flush(c) \/ Seal(c) \/ Prove(c) \/ GiveUp(c) \/ Read(c) \/ Crash(c) \/ Collect(c)
             \/ \E delta \in BOOLEAN : Begin(c, delta) \/ OpenRead(c, delta)
      PROVE  control' = control
  BY <1>3 DEF Materialize, ReadBaseline, ReadChanges, Recheck, Reserve, Flush, Seal, Prove,
              GiveUp, Read, OpenReadDone, Release, Crash, Collect, Begin, OpenRead, disk
<1>4. CASE AccountChanges \/ UNCHANGED storeVars
  BY <1>4 DEF AccountChanges, storeVars, disk
<1>5. Writers \subseteq Contexts /\ Readers \subseteq Contexts /\ Collectors \subseteq Contexts
  BY InventoryAssumption
<1> QED BY <1>1, <1>2, <1>3, <1>4, <1>5 DEF StoreNext, Work

LEMMA HorizonStep ==
    ASSUME StoreInv, HorizonInv, [StoreNext]_storeVars PROVE HorizonInv'
<1>1. StoreInv' /\ Steady /\ History
  BY StoreStep, StepIsSteady, StepKeepsHistory
<1>2. ActiveShown'
  BY <1>1, ActiveStays, AcceptedShows, PointerStays DEF HorizonInv
<1>3. ReadersShown' /\ Drafts' /\ Bygone'
  BY <1>1, ReadersStay, DraftsStay, BygoneStays DEF HorizonInv
<1> QED BY <1>2, <1>3 DEF HorizonInv

THEOREM HorizonHolds == StoreSpec => []HorizonInv
BY StoreInvariantHolds, HorizonInitially, HorizonStep, PTL DEF StoreSpec

\* Layers of intact manifests lie at depths.
LEMMA DepthsOf ==
    ASSUME StoreInv, NEW S \in SUBSET Gens, \A g \in S : Intact(g)
    PROVE  \A g \in S : manifest[g].depth \in Nat
BY InventoryAssumption DEF Intact, StoreInv, Typed, Manifest

\* A reader sees the account as of the cursor of its lease for as long as it holds
\* it, whatever is published, withdrawn and collected meanwhile (openRead, release,
\* collectGarbage).
THEOREM LeasesReadTheirHorizon == StoreSpec => []LeaseReadsItsHorizon
<1>1. ASSUME StoreInv, HorizonInv PROVE LeaseReadsItsHorizon
  <2> SUFFICES ASSUME NEW c \in Contexts, reader[c].at = "open"
               PROVE  Effective(reader[c].gens) = remote[reader[c].cursor]
    BY DEF LeaseReadsItsHorizon
  <2>1. /\ reader[c].gens \in SUBSET Gens /\ \A g \in reader[c].gens : Intact(g)
        /\ reader[c].cursor \in 1..Now
        /\ Shows(reader[c].gens, remote[reader[c].cursor], manifest, rows)
    BY <1>1 DEF HorizonInv, ReadersShown, ReaderShown, StoreInv, Typed, Readings, ReaderGood,
                PinnedIntact, Reader, Now
  <2>2. PICK S \in SUBSET Gens, content \in Content :
           S = reader[c].gens /\ content = remote[reader[c].cursor]
    BY <1>1, <2>1 DEF StoreInv, Typed, Now
  <2> QED BY <1>1, <2>1, <2>2, DepthsOf, ShownIsEffective
<1> QED BY <1>1, StoreInvariantHolds, HorizonHolds, PTL

----------------------------------------------------------------------------
(* The store implements the view *)

\* what readers are offered, and what the cursor has passed unreduced
Made(g) == IF Parent(g) = None THEN "whole" ELSE "patched"
Offered == {[content |-> Effective(Chain(g)), made |-> Made(g)] : g \in Active}
Custody == UNION {(b.from + 1)..b.to : b \in authority.batches}
OfferedIs ==
    Offered = IF Ready
              THEN {[content |-> remote[control.cursor], made |-> Made(control.gen)]}
              ELSE {}

LEMMA OfferIs == ASSUME StoreInv, HorizonInv PROVE OfferedIs
<1>1. CASE ~Ready
  BY <1>1 DEF OfferedIs, Offered, Active
<1>2. CASE Ready
  <2>1. PICK C \in SUBSET Gens, content \in Content :
           /\ C = Chain(control.gen) /\ content = remote[control.cursor]
           /\ Shows(C, content, manifest, rows) /\ \A g \in C : Intact(g)
    BY <1>2, ActiveChain DEF HorizonInv, ActiveShown, StoreInv, Typed, Now
  <2>2. Effective(C) = content
    BY <2>1, DepthsOf, ShownIsEffective
  <2>3. Effective(Chain(control.gen)) = remote[control.cursor]
    BY <2>1, <2>2
  <2> QED BY <1>2, <2>3 DEF OfferedIs, Offered, Active
<1> QED BY <1>1, <1>2

\* pointer, cursor and batches stay: readers are offered what they were
LEMMA OfferStays ==
    ASSUME StoreInv, HorizonInv, Steady, History, OfferedIs, OfferedIs',
           UNCHANGED control
    PROVE  Offered' = Offered
<1>1. CASE ~Ready
  BY <1>1 DEF OfferedIs, Ready
<1>2. CASE Ready
  <2>1. PICK g \in Gens, k \in 1..Now : g = control.gen /\ k = control.cursor
    BY <1>2 DEF HorizonInv, ActiveShown, StoreInv, Typed
  <2>2. Firm(g) /\ Parent(g)' = Parent(g) /\ remote'[k] = remote[k]
    BY <1>2, <2>1, ActiveChain DEF Firm, Steady, History
  <2>3. Made(g)' = Made(g)
    BY <2>2 DEF Made
  <2>4. /\ Offered = {[content |-> remote[k], made |-> Made(g)]}
        /\ Offered' = {[content |-> remote'[k], made |-> Made(g)']}
    BY <1>2, <2>1 DEF OfferedIs, Ready
  <2> QED BY <2>2, <2>3, <2>4
<1> QED BY <1>1, <1>2

\* the steps of the view, on what the store makes of them
Step == \/ /\ remote' # remote
           /\ \E content \in Content : remote' = Append(remote, content)
           /\ UNCHANGED <<authority, Custody, Offered>>
        \/ \E k \in DOMAIN remote :
              /\ authority'.cursor = k /\ Custody = {} /\ Custody' = {}
              /\ Offered' = {[content |-> remote[k], made |-> "whole"]}
              /\ UNCHANGED remote
        \/ \E k \in DOMAIN remote :
              /\ k > authority.cursor /\ authority'.cursor = k
              /\ Custody' = Custody \cup ((authority.cursor + 1)..k)
              /\ \/ Offered' = {[content |-> remote[k], made |-> "patched"]}
                 \/ Offered' = {}
              /\ UNCHANGED remote
        \/ /\ Custody' \subseteq Custody
           /\ remote' = remote /\ authority'.cursor = authority.cursor /\ Offered' = Offered

LEMMA SaveIsStep ==
    ASSUME StoreInv, HorizonInv, Steady, History, OfferedIs, OfferedIs', Save
    PROVE  Step
<1>1. PICK a \in Updates(authority) : /\ control' = Unfenced(a)
                                      /\ authority' = [a EXCEPT !.rev = @ + 1]
  BY DEF Save
<1>2. authority \in Authority /\ UNCHANGED remote /\ Now \in DOMAIN remote
  BY DEF Save, StoreInv, Typed, Now
<1>3. CASE \/ a \in {Persisted(authority), Settled(authority)}
           \/ \E b \in authority.batches : a = Retired(authority, b)
  <2>1. /\ authority'.cursor = authority.cursor /\ a.cursor = authority.cursor
        /\ authority'.batches \subseteq authority.batches
    BY <1>1, <1>2, <1>3 DEF Persisted, Settled, Retired, Authority
  <2>2. UNCHANGED control
    BY <1>1, <2>1 DEF Unfenced
  <2>3. Custody' \subseteq Custody
    BY <2>1 DEF Custody
  <2> QED BY <1>2, <2>1, <2>2, <2>3, OfferStays DEF Step
<1>4. CASE authority.cursor < Now /\ a = Learned(authority, Now)
  <2>1. /\ authority'.cursor = Now /\ a.cursor = Now
        /\ authority'.batches =
              authority.batches \cup {[from |-> authority.cursor, to |-> Now]}
    BY <1>1, <1>2, <1>4 DEF Learned, Authority
  <2>2. Custody' = Custody \cup ((authority.cursor + 1)..Now)
    <3> DEFINE b == [from |-> authority.cursor, to |-> Now]
    <3>1. b.from = authority.cursor /\ b.to = Now
      OBVIOUS
    <3> HIDE DEF b
    <3>2. authority'.batches = authority.batches \cup {b}
      BY <2>1 DEF b
    <3> QED BY <3>1, <3>2 DEF Custody
  <2>3. ~Ready'
    <3>1. Now \in Nat /\ authority.cursor \in Nat
      BY <1>2, InventoryAssumption DEF StoreInv, Typed, Authority, Cursors
    <3>2. Ready => control' = [control EXCEPT !.status = "invalid"]
      BY <1>1, <1>4, <2>1, <3>1 DEF Unfenced
    <3>3. ~Ready => control' = control
      BY <1>1 DEF Unfenced
    <3>4. control \in Control
      BY DEF StoreInv, Typed
    <3> QED BY <3>2, <3>3, <3>4 DEF Ready, Control
  <2>4. Offered' = {}
    BY <2>3 DEF OfferedIs
  <2> QED BY <1>2, <1>4, <2>1, <2>2, <2>4 DEF Step
<1> QED BY <1>1, <1>3, <1>4 DEF Updates

LEMMA AcceptedIsStep ==
    ASSUME StoreInv, HorizonInv, OfferedIs, OfferedIs',
           NEW c \in Contexts, Publish(c), Accepted(c)
    PROVE  Step
<1>1. PICK g \in Gens, k \in 1..Now : g = job[c].gen /\ k = job[c].terminal
  BY CandidateIs DEF Publish, Accepted
<1>2. /\ Ready' /\ control'.gen = g /\ control'.cursor = k /\ UNCHANGED remote
      /\ authority'.cursor = k /\ Parent(g)' = Parent(g)
      /\ authority.cursor = job[c].before.cursor /\ k \in DOMAIN remote
  <2>1. authority'.cursor = k
    BY <1>1, PublishedTyped DEF Accepted
  <2>2. Parent(g)' = Parent(g)
    BY PublishedLayer DEF Accepted
  <2>3. k \in DOMAIN remote
    BY DEF StoreInv, Typed, Now
  <2> QED BY <1>1, <2>1, <2>2, <2>3 DEF Accepted, Publish, Ready, AuthorityHolds
<1>3. Offered' = {[content |-> remote[k], made |-> Made(g)']}
  BY <1>2 DEF OfferedIs
<1>4. authority \in Authority
  BY DEF StoreInv, Typed
<1>5. CASE job[c].delta
  <2>1. /\ Parent(g) \in Gens /\ authority.cursor < k
    BY <1>1, <1>2, <1>5, CandidateIs DEF Publish, Accepted, StoreInv, Typed
  <2>2. Made(g)' = "patched"
    BY <1>2, <2>1, NoneIsNoGen DEF Made
  <2>3. Custody' = Custody \cup ((authority.cursor + 1)..k)
    <3> DEFINE b == [from |-> authority.cursor, to |-> k]
    <3>1. b.from = authority.cursor /\ b.to = k
      OBVIOUS
    <3>2. authority'.batches = authority.batches \cup {b}
      BY <1>1, <1>2, <1>4, <1>5 DEF Accepted, PublishedAuthority, Authority
    <3> HIDE DEF b
    <3> QED BY <3>1, <3>2 DEF Custody
  <2> QED BY <1>2, <1>3, <2>1, <2>2, <2>3 DEF Step
<1>6. CASE ~job[c].delta
  <2>1. Made(g)' = "whole"
    BY <1>1, <1>2, <1>6, CandidateIs DEF Publish, Accepted, Made
  <2>2. authority.batches = {} /\ authority'.batches = {}
    BY <1>4, <1>6 DEF Accepted, AuthorityHolds, PublishedAuthority, Authority
  <2>3. Custody = {} /\ Custody' = {}
    BY <2>2 DEF Custody
  <2> QED BY <1>2, <1>3, <2>1, <2>3 DEF Step
<1> QED BY <1>5, <1>6

LEMMA AccountIsStep ==
    ASSUME StoreInv, HorizonInv, Steady, History, OfferedIs, OfferedIs', AccountChanges
    PROVE  Step
<1>1. UNCHANGED <<authority, control>> /\ Custody' = Custody
  BY DEF AccountChanges, disk, Custody
<1>2. PICK o \in Objects, v \in {0, Now + 1} :
         remote' = Append(remote, [remote[Now] EXCEPT ![o] = v])
  BY DEF AccountChanges
<1> DEFINE content == [remote[Now] EXCEPT ![o] = v]
<1>3. content \in Content
  <2>1. v \in Cursors /\ remote[Now] \in Content
    BY InventoryAssumption DEF AccountChanges, StoreInv, Typed, Now, Cursors
  <2> QED BY <2>1 DEF Content
<1>4. remote' = Append(remote, content)
  BY <1>2
<1> HIDE DEF content
<1>5. remote' # remote
  <2>1. Len(remote') = Len(remote) + 1 /\ Len(remote) \in Nat
    BY <1>3, <1>4 DEF StoreInv, Typed
  <2> QED BY <2>1
<1> QED BY <1>1, <1>3, <1>4, <1>5, OfferStays DEF Step

LEMMA StepIsStep ==
    ASSUME StoreInv, HorizonInv, OfferedIs, OfferedIs', [StoreNext]_storeVars
    PROVE  Step
<1>1. Steady /\ History
  BY StepIsSteady, StepKeepsHistory
<1>2. ASSUME UNCHANGED <<remote, authority, control>> PROVE Step
  <2>1. Offered' = Offered /\ Custody' = Custody
    BY <1>1, <1>2, OfferStays DEF Custody
  <2> QED BY <1>2, <2>1 DEF Step
<1>3. ASSUME NEW c \in Contexts, Publish(c) PROVE Step
  BY <1>2, <1>3, PublishCases, AcceptedIsStep DEF Publish, disk
<1>4. ASSUME NEW c \in Contexts,
             \/ Materialize(c) \/ ReadBaseline(c) \/ ReadChanges(c) \/ Recheck(c) \/ Reserve(c)
             \/ Flush(c) \/ Seal(c) \/ Prove(c) \/ GiveUp(c) \/ Read(c) \/ Crash(c) \/ Collect(c)
             \/ \E delta \in BOOLEAN : Begin(c, delta) \/ OpenRead(c, delta)
      PROVE  Step
  BY <1>2, <1>4
  DEF Materialize, ReadBaseline, ReadChanges, Recheck, Reserve, Flush, Seal, Prove,
      GiveUp, Read, OpenReadDone, Release, Crash, Collect, Begin, OpenRead, disk
<1>5. CASE UNCHANGED storeVars
  BY <1>2, <1>5 DEF storeVars, disk
<1>6. Writers \subseteq Contexts /\ Readers \subseteq Contexts /\ Collectors \subseteq Contexts
  BY InventoryAssumption
<1> QED BY <1>1, <1>3, <1>4, <1>5, <1>6, SaveIsStep, AccountIsStep DEF StoreNext, Work

LEMMA StepOfView == Step => [View!ViewNext]_(View!viewVars)
BY DEF Step, Offered, Custody, Made, View!ViewNext, View!viewVars, View!AccountChanges,
       View!Rebase, View!LearnUpTo, View!Reduce, View!Shown, View!Hidden

LEMMA ViewInitially == StoreInit => View!ViewInit
<1> SUFFICES ASSUME StoreInit PROVE View!ViewInit
  OBVIOUS
<1>1. Len(remote) = 1 /\ authority.cursor = 0 /\ authority.batches = {} /\ Active = {}
  BY DEF StoreInit, Active, Ready
<1> QED BY <1>1 DEF View!ViewInit

\* The store implements its abstract view: what readers are offered is the account
\* as of the canonical cursor, and the cursor passes a change only into custody or
\* by reading the whole account (publishAtomically, saveAuthority).
THEOREM StoreImplementsView == StoreSpec => PublishesViews
<1>1. StoreInv /\ HorizonInv => OfferedIs
  BY OfferIs
<1>2. StoreInv /\ HorizonInv /\ OfferedIs /\ OfferedIs' /\ [StoreNext]_storeVars
      => [View!ViewNext]_(View!viewVars)
  BY StepIsStep, StepOfView
<1> QED BY <1>1, <1>2, ViewInitially, StoreInvariantHolds, HorizonHolds, PTL
        DEF StoreSpec, PublishesViews, View!ViewSpec
=============================================================================
