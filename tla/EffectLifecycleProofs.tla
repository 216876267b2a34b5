----------------------- MODULE EffectLifecycleProofs -----------------------
(***************************************************************************)
(* Safety of EffectLifecycle for every set of operations and clients: what *)
(* the document records as verified has happened, the canonical journal    *)
(* covers whole operations, and verified effects are stable.  The          *)
(* invariant adds to these what the snapshots and the chains of awaits     *)
(* still remember of older states; both may lag behind, but only behind a  *)
(* set of happened effects and a journal that grow.                        *)
(*                                                                         *)
(* The second half is about any number of chains that plan, recover and    *)
(* execute beside each other.  Of the sure operations, which nothing gives *)
(* up after a mere look, the document accounts for every effect ever sent, *)
(* and they implement OperationContract; and of any operation a commit is  *)
(* repeated in one order only.  The invariant adds what a chain knows of   *)
(* the document as it has become since it was read, and that all who are   *)
(* about to commit an operation by recovery mean the same commit.          *)
(***************************************************************************)
EXTENDS EffectLifecycle, TLAPS

\* nothing a document says of a verified effect or of a commit is untrue
Truthful(d, happened, journal) ==
    /\ \A e \in Effect : d.stage[e] \in Verified => e \in happened
    /\ \A o \in Op : d.journal[o] # Unreferenced => journal[o] # Unreferenced

\* a document whose parts agree with each other
Sound(d, happened) ==
    /\ \A e \in Effect : e[1] \in d.intents \/ d.stage[e] = "intent-persisted"
    /\ \A e \in Effect : d.stage[e] \in Verified => e \in happened
    /\ \A e \in Effect : d.stage[e] = "state-committed" =>
                            d.journal[e[1]] # Unreferenced
    /\ \A o \in Op : d.journal[o] # Unreferenced => OwnEffects(o) \subseteq happened

\* what a chain of awaits has already established about its job
Remembers(k, happened, journal) ==
    /\ k.left \subseteq OwnEffects(k.job)
    /\ k.pc \in {"observe", "record", "authorize", "guard", "await"} => k.left # {}
    /\ k.pc \in {"run", "check"} => k.left = {}
    /\ k.pc = "record" /\ k.res = "verified-effect" => First(k.left) \in happened
    /\ k.pc \in {"canonical", "ready", "commit"} =>
          OwnEffects(k.job) \subseteq happened /\ k.ref # Unreferenced
    /\ k.pc = "finalize" => journal[k.job] # Unreferenced

\* a later document still has every verified effect, verified or finalized
Keeps(d, later) ==
    \A e \in Effect : d.stage[e] \in Verified =>
        /\ later.stage[e] \in Verified
        /\ d.stage[e] = "state-committed" => later.stage[e] = "state-committed"
        /\ e[1] \in later.intents

IInv == /\ TypeOK
        /\ Sound(doc, applied)
        /\ \A c \in Client : view[c] = "current" => snap[c] = doc
        /\ \A c \in Client : Truthful(snap[c], applied, doc.journal)
        /\ \A c \in Client : Remembers(ctl[c], applied, doc.journal)

\* what a client may write over the current document
Admissible(d) ==
    /\ d \in Document
    /\ Sound(d, applied)
    /\ Keeps(doc, d)
    /\ \A o \in Op : doc.journal[o] # Unreferenced => d.journal[o] # Unreferenced

\* what every step must establish
Good == IInv' /\ Keeps(doc, doc')
----------------------------------------------------------------------------
(* Operators *)

LEMMA EffectShape == ASSUME NEW e \in Effect
                     PROVE e[1] \in Op /\ e[2] \in {1, 2} /\ e \in OwnEffects(e[1])
BY DEF Effect, OwnEffects

LEMMA FirstIn == ASSUME NEW S, S \subseteq Effect, S # {}
                 PROVE First(S) \in S
<1>1. CASE \E e \in S : e[2] = 1
  <2>1. PICK e \in S : e[2] = 1
    BY <1>1
  <2>2. \A d \in S : e[2] <= d[2]
    BY <2>1, EffectShape
  <2>3. \E x \in S : \A d \in S : x[2] <= d[2]
    BY <2>2
  <2> QED BY <2>3 DEF First
<1>2. CASE ~\E e \in S : e[2] = 1
  <2>1. PICK e \in S : TRUE
    OBVIOUS
  <2>2. \A d \in S : d[2] = 2
    BY <1>2, EffectShape
  <2>3. \A d \in S : e[2] <= d[2]
    BY <2>2
  <2>4. \E x \in S : \A d \in S : x[2] <= d[2]
    BY <2>3
  <2> QED BY <2>4 DEF First
<1> QED BY <1>1, <1>2

LEMMA IdleControl == Idle \in Control
<1>1. (CHOOSE o \in Op : TRUE) \in Op
  BY ConstantsAssumption
<1> QED BY <1>1 DEF Idle, Control, Reading, Outcome, Reference, Unreferenced

LEMMA IdleRemembers == ASSUME NEW happened, NEW journal
                       PROVE Remembers(Idle, happened, journal)
BY DEF Idle, Remembers

LEMMA InitialIsDocument == InitialDocument \in Document
BY DEF InitialDocument, Document, Stage, Reference, Unreferenced

LEMMA InitialIsTruthful == ASSUME NEW happened, NEW journal
                           PROVE Truthful(InitialDocument, happened, journal)
BY DEF InitialDocument, Truthful, Verified

\* realigning completed intents touches neither stages nor journal nor intents
LEMMA RebasedDocument ==
    ASSUME NEW d \in Document
    PROVE  /\ Rebased(d) \in Document
           /\ Rebased(d).stage = d.stage
           /\ Rebased(d).journal = d.journal
           /\ Rebased(d).intents = d.intents
           /\ Rebased(d).gen = d.gen
BY DEF Rebased, Document

LEMMA WithStageDocument ==
    ASSUME NEW d \in Document, NEW e \in Effect, NEW s \in Stage
    PROVE  /\ WithStage(d, e, s) \in Document
           /\ WithStage(d, e, s).intents = d.intents
           /\ WithStage(d, e, s).journal = d.journal
           /\ WithStage(d, e, s).stage[e] = s
           /\ \A x \in Effect \ {e} : WithStage(d, e, s).stage[x] = d.stage[x]
BY DEF WithStage, Document

LEMMA WithIntentDocument ==
    ASSUME NEW d \in Document, NEW o \in Op, NEW n \in Nat
    PROVE  /\ WithIntent(d, o, n) \in Document
           /\ WithIntent(d, o, n).intents = d.intents \cup {o}
           /\ WithIntent(d, o, n).journal = d.journal
           /\ WithIntent(d, o, n).stage = d.stage
BY DEF WithIntent, Document

LEMMA WithoutIntentDocument ==
    ASSUME NEW d \in Document, NEW o \in Op
    PROVE  /\ WithoutIntent(d, o) \in Document
           /\ WithoutIntent(d, o).intents = d.intents \ {o}
           /\ WithoutIntent(d, o).journal = d.journal
           /\ \A x \in Effect : WithoutIntent(d, o).stage[x] =
                  IF x[1] = o THEN "intent-persisted" ELSE d.stage[x]
BY DEF WithoutIntent, Document, Stage

LEMMA AdvancedDocument ==
    ASSUME NEW d \in Document
    PROVE  /\ Advanced(d) \in Document
           /\ Advanced(d).intents = d.intents
           /\ Advanced(d).journal = d.journal
           /\ Advanced(d).stage = d.stage
BY DEF Advanced, Document

LEMMA JournaledDocument ==
    ASSUME NEW d \in Document, NEW o \in Op, NEW r \in Reference
    PROVE  /\ Journaled(d, o, r) \in Document
           /\ Journaled(d, o, r).intents = d.intents
           /\ Journaled(d, o, r).stage = d.stage
           /\ Journaled(d, o, r).journal[o] = r
           /\ \A x \in Op \ {o} : Journaled(d, o, r).journal[x] = d.journal[x]
BY DEF Journaled, Document
----------------------------------------------------------------------------
(* Frames: a step that writes nothing, and a step that writes a sound document *)

\* what has happened and what is journaled only grows
LEMMA TruthGrows ==
    ASSUME NEW happened, NEW journal, NEW later, NEW longer, NEW d,
           happened \subseteq later,
           \A o \in Op : journal[o] # Unreferenced => longer[o] # Unreferenced,
           Truthful(d, happened, journal)
    PROVE  Truthful(d, later, longer)
BY DEF Truthful

LEMMA MemoryGrows ==
    ASSUME NEW happened, NEW journal, NEW later, NEW longer, NEW k \in Control,
           happened \subseteq later,
           \A o \in Op : journal[o] # Unreferenced => longer[o] # Unreferenced,
           Remembers(k, happened, journal)
    PROVE  Remembers(k, later, longer)
BY DEF Remembers, Control

LEMMA SpentIsBounded == ASSUME TypeOK, Calm \/ Disturb
                        PROVE disturbances' \in 0..MaxDisturbances
BY ConstantsAssumption DEF TypeOK, Calm, Disturb

LEMMA DropFrame ==
    ASSUME IInv, NEW c \in Client, Drop(c), UNCHANGED doc, applied \subseteq applied'
    PROVE  /\ view' \in [Client -> {"none", "current", "stale"}]
           /\ snap' \in [Client -> Document]
           /\ \A x \in Client : view'[x] = "current" => snap'[x] = doc'
           /\ \A x \in Client : Truthful(snap'[x], applied', doc'.journal)
<1>1. /\ view' \in [Client -> {"none", "current", "stale"}]
      /\ snap' \in [Client -> Document]
  BY InitialIsDocument DEF IInv, TypeOK, Drop
<1>2. \A x \in Client : view'[x] = "current" => snap'[x] = doc'
  BY DEF IInv, TypeOK, Drop
<1>3. ASSUME NEW x \in Client PROVE Truthful(snap'[x], applied', doc'.journal)
  <2>1. CASE x = c
    BY <2>1, InitialIsTruthful DEF IInv, TypeOK, Drop
  <2>2. CASE x # c
    <3>1. snap'[x] = snap[x] /\ Truthful(snap[x], applied, doc.journal)
      BY <2>2 DEF IInv, TypeOK, Drop
    <3> QED BY <3>1, TruthGrows
  <2> QED BY <2>1, <2>2
<1> QED BY <1>1, <1>2, <1>3

LEMMA SaveFrame ==
    ASSUME IInv, NEW c \in Client, NEW d \in Document, Save(c, d),
           UNCHANGED applied,
           \A o \in Op : doc.journal[o] # Unreferenced => d.journal[o] # Unreferenced
    PROVE  /\ doc' \in Document
           /\ doc'.stage = d.stage /\ doc'.journal = d.journal
           /\ doc'.intents = d.intents
           /\ view' \in [Client -> {"none", "current", "stale"}]
           /\ snap' \in [Client -> Document]
           /\ \A x \in Client : view'[x] = "current" => snap'[x] = doc'
           /\ \A x \in Client : Truthful(snap'[x], applied', doc'.journal)
<1>1. /\ doc' \in Document
      /\ doc'.stage = d.stage /\ doc'.journal = d.journal
      /\ doc'.intents = d.intents
  BY RebasedDocument DEF Save
<1>2. /\ view' \in [Client -> {"none", "current", "stale"}]
      /\ snap' \in [Client -> Document]
  BY InitialIsDocument DEF IInv, TypeOK, Save
<1>3. \A x \in Client : view'[x] = "current" => snap'[x] = doc'
  BY DEF IInv, TypeOK, Save
<1>4. ASSUME NEW x \in Client PROVE Truthful(snap'[x], applied', doc'.journal)
  <2>1. CASE x = c
    BY <2>1, InitialIsTruthful DEF IInv, TypeOK, Save
  <2>2. CASE x # c
    <3>1. snap'[x] = snap[x] /\ Truthful(snap[x], applied, doc.journal)
      BY <2>2 DEF IInv, TypeOK, Save
    <3> QED BY <3>1, <1>1, TruthGrows
  <2> QED BY <2>1, <2>2
<1> QED BY <1>1, <1>2, <1>3, <1>4

LEMMA GotoFrame ==
    ASSUME IInv, NEW c \in Client, NEW r \in Control, Goto(c, r),
           applied \subseteq applied',
           \A o \in Op : doc.journal[o] # Unreferenced => doc'.journal[o] # Unreferenced,
           Remembers(r, applied', doc'.journal)
    PROVE  /\ ctl' \in [Client -> Control]
           /\ \A x \in Client : Remembers(ctl'[x], applied', doc'.journal)
<1>1. ctl' \in [Client -> Control]
  BY DEF IInv, TypeOK, Goto
<1>2. ASSUME NEW x \in Client PROVE Remembers(ctl'[x], applied', doc'.journal)
  <2>1. CASE x = c
    BY <2>1 DEF IInv, TypeOK, Goto
  <2>2. CASE x # c
    <3>1. /\ ctl'[x] = ctl[x] /\ ctl[x] \in Control
          /\ Remembers(ctl[x], applied, doc.journal)
      BY <2>2 DEF IInv, TypeOK, Goto
    <3> QED BY <3>1, MemoryGrows
  <2> QED BY <2>1, <2>2
<1> QED BY <1>1, <1>2

\* a step of one client that leaves the document alone
LEMMA QuietStep ==
    ASSUME IInv, NEW c \in Client, NEW r \in Control, Goto(c, r),
           UNCHANGED doc,
           Drop(c) \/ UNCHANGED <<view, snap>>,
           UNCHANGED applied, inflight' \subseteq Effect, planned' \subseteq Op,
           Calm \/ Disturb,
           Remembers(r, applied, doc.journal)
    PROVE  Good
<1>1. /\ view' \in [Client -> {"none", "current", "stale"}]
      /\ snap' \in [Client -> Document]
      /\ \A x \in Client : view'[x] = "current" => snap'[x] = doc'
      /\ \A x \in Client : Truthful(snap'[x], applied', doc'.journal)
  <2>1. CASE Drop(c)
    BY <2>1, DropFrame
  <2>2. CASE UNCHANGED <<view, snap>>
    BY <2>2 DEF IInv, TypeOK
  <2> QED BY <2>1, <2>2
<1>2. /\ ctl' \in [Client -> Control]
      /\ \A x \in Client : Remembers(ctl'[x], applied', doc'.journal)
  BY GotoFrame
<1>3. disturbances' \in 0..MaxDisturbances
  BY SpentIsBounded DEF IInv
<1>4. TypeOK'
  BY <1>1, <1>2, <1>3 DEF IInv, TypeOK
<1>5. Sound(doc', applied')
  BY DEF IInv
<1>6. Keeps(doc, doc')
  BY DEF IInv, Sound, Keeps, Verified
<1> QED BY <1>1, <1>2, <1>4, <1>5, <1>6 DEF IInv, Good

\* a step of one client that writes d
LEMMA WriteStep ==
    ASSUME IInv, NEW c \in Client, NEW d, NEW r \in Control,
           Save(c, d), Goto(c, r),
           UNCHANGED <<world, planned>>,
           Calm \/ Disturb,
           Admissible(d),
           Remembers(r, applied, d.journal)
    PROVE  Good
<1>1. /\ doc' \in Document
      /\ doc'.stage = d.stage /\ doc'.journal = d.journal
      /\ doc'.intents = d.intents
      /\ view' \in [Client -> {"none", "current", "stale"}]
      /\ snap' \in [Client -> Document]
      /\ \A x \in Client : view'[x] = "current" => snap'[x] = doc'
      /\ \A x \in Client : Truthful(snap'[x], applied', doc'.journal)
  BY SaveFrame DEF world, Admissible
<1>2. /\ ctl' \in [Client -> Control]
      /\ \A x \in Client : Remembers(ctl'[x], applied', doc'.journal)
  BY <1>1, GotoFrame DEF world, Admissible
<1>3. disturbances' \in 0..MaxDisturbances
  BY SpentIsBounded DEF IInv
<1>4. Sound(doc', applied')
  BY <1>1 DEF Sound, world, Admissible
<1>5. TypeOK'
  BY <1>1, <1>2, <1>3, <1>4 DEF IInv, TypeOK, Sound, world
<1>6. Keeps(doc, doc')
  BY <1>1 DEF Admissible, Keeps
<1> QED BY <1>1, <1>2, <1>4, <1>5, <1>6 DEF IInv, Good

\* what the invariant says of one client
LEMMA ClientFacts ==
    ASSUME IInv, NEW c \in Client
    PROVE  /\ ctl[c] \in Control /\ snap[c] \in Document /\ doc \in Document
           /\ Remembers(ctl[c], applied, doc.journal)
           /\ Truthful(snap[c], applied, doc.journal)
           /\ view[c] = "current" => snap[c] = doc
           /\ applied \subseteq Effect /\ inflight \subseteq Effect
           /\ planned \subseteq Op
BY DEF IInv, TypeOK

LEMMA Stopped ==
    ASSUME IInv, NEW c \in Client, Stop(c), UNCHANGED doc,
           Drop(c) \/ UNCHANGED <<view, snap>>,
           UNCHANGED applied, inflight' \subseteq Effect, planned' \subseteq Op,
           Calm \/ Disturb
    PROVE  Good
BY QuietStep, IdleControl, IdleRemembers DEF Stop
----------------------------------------------------------------------------
(* What may be written *)

LEMMA StageAdmissible ==
    ASSUME IInv, NEW e \in Effect, NEW s \in Stage,
           e[1] \in doc.intents,
           s \in Verified => e \in applied,
           s = "state-committed" => doc.journal[e[1]] # Unreferenced,
           doc.stage[e] \in Verified =>
               doc.stage[e] = "effect-verified" /\ s = "state-committed"
    PROVE  Admissible(WithStage(doc, e, s))
<1> DEFINE d == WithStage(doc, e, s)
<1>1. doc \in Document
  BY DEF IInv, TypeOK
<1>2. /\ d \in Document /\ d.intents = doc.intents /\ d.journal = doc.journal
      /\ d.stage[e] = s /\ \A x \in Effect \ {e} : d.stage[x] = doc.stage[x]
  BY <1>1, WithStageDocument
<1> HIDE DEF d
<1>3. Sound(d, applied)
  BY <1>2 DEF IInv, Sound
<1>4. Keeps(doc, d)
  BY <1>2 DEF IInv, Sound, Keeps, Verified
<1>5. Admissible(d)
  BY <1>2, <1>3, <1>4 DEF Admissible
<1> QED BY <1>5 DEF d

LEMMA IntentAdmissible ==
    ASSUME IInv, NEW o \in Op, NEW n \in Nat
    PROVE  Admissible(WithIntent(doc, o, n))
<1> DEFINE d == WithIntent(doc, o, n)
<1>1. doc \in Document
  BY DEF IInv, TypeOK
<1>2. /\ d \in Document /\ d.intents = doc.intents \cup {o}
      /\ d.journal = doc.journal /\ d.stage = doc.stage
  BY <1>1, WithIntentDocument
<1> HIDE DEF d
<1>3. Admissible(d)
  BY <1>2 DEF IInv, Sound, Keeps, Verified, Admissible
<1> QED BY <1>3 DEF d

\* only an intent none of whose effects is verified may be removed
LEMMA RetireAdmissible ==
    ASSUME IInv, NEW o \in Op,
           \A e \in OwnEffects(o) : doc.stage[e] \notin Verified
    PROVE  Admissible(WithoutIntent(doc, o))
<1> DEFINE d == WithoutIntent(doc, o)
<1>1. doc \in Document
  BY DEF IInv, TypeOK
<1>2. /\ d \in Document /\ d.intents = doc.intents \ {o}
      /\ d.journal = doc.journal
      /\ \A x \in Effect : d.stage[x] =
             IF x[1] = o THEN "intent-persisted" ELSE doc.stage[x]
  BY <1>1, WithoutIntentDocument
<1> HIDE DEF d
<1>3. Sound(d, applied)
  BY <1>2 DEF IInv, Sound, Verified
<1>4. \A x \in Effect : doc.stage[x] \in Verified => x[1] # o
  BY EffectShape DEF OwnEffects
<1>5. Keeps(doc, d)
  BY <1>2, <1>4 DEF IInv, Sound, Keeps, Verified
<1>6. Admissible(d)
  BY <1>2, <1>3, <1>5 DEF Admissible
<1> QED BY <1>6 DEF d

LEMMA AdvanceAdmissible ==
    ASSUME NEW d, Admissible(d)
    PROVE  Admissible(Advanced(d)) /\ Advanced(d).journal = d.journal
BY AdvancedDocument DEF Admissible, Sound, Keeps

LEMMA DocAdmissible == ASSUME IInv PROVE Admissible(doc)
BY DEF IInv, TypeOK, Sound, Keeps, Admissible, Verified

LEMMA JournalAdmissible ==
    ASSUME IInv, NEW o \in Op, NEW r \in Reference, r # Unreferenced,
           OwnEffects(o) \subseteq applied
    PROVE  /\ Admissible(Journaled(doc, o, r))
           /\ Journaled(doc, o, r).journal[o] # Unreferenced
<1> DEFINE d == Journaled(doc, o, r)
<1>1. doc \in Document
  BY DEF IInv, TypeOK
<1>2. /\ d \in Document /\ d.intents = doc.intents /\ d.stage = doc.stage
      /\ d.journal[o] = r
      /\ \A x \in Op \ {o} : d.journal[x] = doc.journal[x]
  BY <1>1, JournaledDocument
<1> HIDE DEF d
<1>3. Sound(d, applied)
  BY <1>2, EffectShape DEF IInv, Sound
<1>4. Keeps(doc, d)
  BY <1>2 DEF IInv, Sound, Keeps, Verified
<1>5. Admissible(d) /\ d.journal[o] # Unreferenced
  BY <1>2, <1>3, <1>4 DEF Admissible
<1> QED BY <1>5 DEF d
----------------------------------------------------------------------------
(* Where a chain of awaits may go *)

LEMMA RunControl ==
    ASSUME NEW todo \in SUBSET Op, NEW partial \in BOOLEAN
    PROVE  /\ Run(todo, partial) \in Control
           /\ \A happened, journal : Remembers(Run(todo, partial), happened, journal)
<1>1. Run(todo, partial) \in Control
  BY IdleControl DEF Run, Control, Reading
<1>2. \A happened, journal : Remembers(Run(todo, partial), happened, journal)
  BY DEF Run, Idle, Remembers
<1> QED BY <1>1, <1>2

LEMMA PassControl ==
    ASSUME NEW c \in Client, ctl[c] \in Control
    PROVE  /\ Recovered(c) \in Control
           /\ \A happened, journal : Remembers(Recovered(c), happened, journal)
<1>1. Recovered(c) \in Control
  BY IdleControl DEF Recovered, Pass, Control, Reading
<1>2. \A happened, journal : Remembers(Recovered(c), happened, journal)
  BY DEF Recovered, Pass, Idle, Remembers
<1> QED BY <1>1, <1>2

LEMMA FinishedControl ==
    ASSUME NEW c \in Client, ctl[c] \in Control
    PROVE  /\ Ran(c) \in Control /\ Skipped(c) \in Control /\ Finished(c) \in Control
           /\ \A happened, journal : /\ Remembers(Ran(c), happened, journal)
                                     /\ Remembers(Skipped(c), happened, journal)
                                     /\ Remembers(Finished(c), happened, journal)
<1>1. ctl[c].todo \in SUBSET Op /\ ctl[c].partial \in BOOLEAN
  BY DEF Control
<1>2. Ran(c) \in Control /\ Skipped(c) \in Control /\ Finished(c) \in Control
  BY <1>1, RunControl, PassControl DEF Ran, Skipped, Finished
<1>3. \A happened, journal : /\ Remembers(Ran(c), happened, journal)
                             /\ Remembers(Skipped(c), happened, journal)
                             /\ Remembers(Finished(c), happened, journal)
  BY <1>1, RunControl, PassControl DEF Ran, Skipped, Finished
<1> QED BY <1>2, <1>3

\* once e is settled the job goes on with its other effects
LEMMA NextEffectControl ==
    ASSUME NEW c \in Client, ctl[c] \in Control, NEW e,
           NEW happened, NEW journal, Remembers(ctl[c], happened, journal)
    PROVE  /\ NextEffect(c, e) \in Control
           /\ Remembers(NextEffect(c, e), happened, journal)
<1> DEFINE rest == ctl[c].left \ {e}
           label == IF rest = {} THEN "verify"
                    ELSE IF ctl[c].mode = "dispatch" THEN "authorize" ELSE "observe"
<1>1. NextEffect(c, e) = [ctl[c] EXCEPT !.left = rest, !.res = "none", !.pc = label]
  BY DEF NextEffect
<1>2. rest \in SUBSET Effect /\ rest \subseteq OwnEffects(ctl[c].job)
  BY DEF Control, Remembers
<1>3. label \in {"verify", "authorize", "observe"} /\ (label # "verify" => rest # {})
  OBVIOUS
<1> HIDE DEF rest, label
<1>4. NextEffect(c, e) \in Control
  BY <1>1, <1>2, <1>3 DEF Control, Reading, Outcome
<1>5. Remembers(NextEffect(c, e), happened, journal)
  BY <1>1, <1>2, <1>3 DEF Remembers, Control
<1> QED BY <1>4, <1>5
----------------------------------------------------------------------------
(* Planning *)

LEMMA LoadGood == ASSUME IInv, NEW c \in Client, Load(c) PROVE Good
<1>1. /\ view' \in [Client -> {"none", "current", "stale"}]
      /\ snap' \in [Client -> Document]
      /\ \A x \in Client : view'[x] = "current" => snap'[x] = doc'
  BY DEF Load, IInv, TypeOK
<1>2. ASSUME NEW x \in Client PROVE Truthful(snap'[x], applied', doc'.journal)
  <2>1. snap'[x] = snap[x] \/ snap'[x] = doc
    BY DEF Load, IInv, TypeOK
  <2>2. Truthful(snap[x], applied, doc.journal)
    BY DEF IInv
  <2>3. Truthful(doc, applied, doc.journal)
    BY DEF IInv, Sound, Truthful
  <2> QED BY <2>1, <2>2, <2>3 DEF Load, world
<1>3. TypeOK'
  BY <1>1 DEF Load, IInv, TypeOK, world
<1>4. Sound(doc', applied') /\ Keeps(doc, doc')
  BY DEF Load, IInv, Sound, Keeps, Verified, world
<1>5. \A x \in Client : Remembers(ctl'[x], applied', doc'.journal)
  BY DEF Load, IInv, world
<1> QED BY <1>1, <1>2, <1>3, <1>4, <1>5 DEF IInv, Good

\* a pass begins, or begins again, with nothing established
LEMMA RoundControl ==
    ASSUME NEW again \in BOOLEAN, NEW label \in {"preflight", "learn"}
    PROVE  /\ [Idle EXCEPT !.pc = label, !.again = again] \in Control
           /\ \A happened, journal :
                 Remembers([Idle EXCEPT !.pc = label, !.again = again], happened, journal)
<1>1. [Idle EXCEPT !.pc = label, !.again = again] \in Control
  BY IdleControl DEF Control, Reading
<1>2. \A happened, journal :
         Remembers([Idle EXCEPT !.pc = label, !.again = again], happened, journal)
  BY DEF Idle, Remembers
<1> QED BY <1>1, <1>2

LEMMA AssembleGood ==
    ASSUME IInv, NEW c \in Client, NEW again \in BOOLEAN, AssembleRound(c, again),
           UNCHANGED <<doc, view, snap, world, planned>>
    PROVE  Good
<1>1. PICK label \in {"preflight", "learn"} :
         Goto(c, [Idle EXCEPT !.pc = label, !.again = again])
  BY DEF AssembleRound
<1>2. Calm \/ Disturb
  BY DEF AssembleRound
<1> QED BY <1>1, <1>2, RoundControl, QuietStep, ClientFacts DEF world

LEMMA BeginPlanningGood == ASSUME IInv, NEW c \in Client, BeginPlanning(c) PROVE Good
BY AssembleGood DEF BeginPlanning

\* moving to another place with what was established still in force
LEMMA MovedControl ==
    ASSUME NEW c \in Client, ctl[c] \in Control, NEW happened, NEW journal,
           ctl[c].left \subseteq OwnEffects(ctl[c].job),
           NEW label \in {"mirror", "preflight", "cursor"}
    PROVE  /\ [ctl[c] EXCEPT !.pc = label] \in Control
           /\ Remembers([ctl[c] EXCEPT !.pc = label], happened, journal)
<1>1. [ctl[c] EXCEPT !.pc = label] \in Control
  BY DEF Control, Reading
<1>2. Remembers([ctl[c] EXCEPT !.pc = label], happened, journal)
  BY DEF Remembers, Control
<1> QED BY <1>1, <1>2

\* a write that only advances the generation of the current document
LEMMA AdvanceStep ==
    ASSUME IInv, NEW c \in Client, Save(c, Advanced(snap[c])),
           NEW r \in Control, Goto(c, r), Remembers(r, applied, doc.journal),
           UNCHANGED <<world, planned, disturbances>>
    PROVE  Good
<1>1. snap[c] = doc
  BY ClientFacts DEF Save
<1>2. Admissible(Advanced(doc)) /\ Advanced(doc).journal = doc.journal
  BY DocAdmissible, AdvanceAdmissible
<1> HIDE DEF Good
<1> QED BY <1>1, <1>2, WriteStep DEF Calm

LEMMA LearnGood == ASSUME IInv, NEW c \in Client, Learn(c) PROVE Good
<1>1. ctl[c] \in Control /\ ctl[c].left \subseteq OwnEffects(ctl[c].job)
  BY ClientFacts DEF Remembers
<1>2. CASE Save(c, Advanced(snap[c])) /\ Goto(c, [ctl[c] EXCEPT !.pc = "mirror"])
  BY <1>1, <1>2, MovedControl, AdvanceStep DEF Learn
<1>3. CASE SaveRefused(c) /\ Stop(c)
  BY <1>3, Stopped, ClientFacts DEF Learn, SaveRefused, NoWrite, world, Calm
<1> QED BY <1>2, <1>3 DEF Learn

LEMMA MirrorGood == ASSUME IInv, NEW c \in Client, Mirror(c) PROVE Good
<1>1. ctl[c] \in Control /\ ctl[c].left \subseteq OwnEffects(ctl[c].job)
  BY ClientFacts DEF Remembers
<1>2. CASE Save(c, Advanced(snap[c])) /\ Goto(c, [ctl[c] EXCEPT !.pc = "preflight"])
  BY <1>1, <1>2, MovedControl, AdvanceStep DEF Mirror
<1>3. CASE SaveRefused(c) /\ Stop(c)
  BY <1>3, Stopped, ClientFacts DEF Mirror, SaveRefused, NoWrite, world, Calm
<1>4. CASE SaveRefused(c) /\ UNCHANGED ctl
  <2>1. Goto(c, ctl[c])
    BY <1>4 DEF Goto, IInv, TypeOK
  <2> QED BY <1>4, <2>1, QuietStep, ClientFacts
          DEF Mirror, SaveRefused, NoWrite, world, Calm
<1> QED BY <1>2, <1>3, <1>4 DEF Mirror

LEMMA PreflightGood == ASSUME IInv, NEW c \in Client, Preflight(c) PROVE Good
<1>1. CASE Stop(c) /\ (Calm \/ Disturb)
  BY <1>1, Stopped, ClientFacts DEF Preflight, NoWrite, world
<1> DEFINE found == snap[c].intents
           plan == {o \in Op : ~Committed(snap[c], o)}
           r == [ctl[c] EXCEPT !.pc = "recover", !.todo = found, !.plan = plan]
<1>2. CASE Goto(c, r) /\ Calm
  <2>1. found \in SUBSET Op /\ plan \in SUBSET Op
    BY ClientFacts DEF Document
  <2>2. ctl[c] \in Control /\ Remembers(ctl[c], applied, doc.journal)
    BY ClientFacts
  <2> HIDE DEF found, plan
  <2>3. r \in Control
    BY <2>1, <2>2 DEF Control, Reading
  <2>4. Remembers(r, applied, doc.journal)
    BY <2>1, <2>2 DEF Remembers, Control
  <2> HIDE DEF r
  <2> QED BY <1>2, <2>3, <2>4, QuietStep, ClientFacts DEF Preflight, NoWrite, world
<1> QED BY <1>1, <1>2 DEF Preflight

LEMMA SelectIntentGood ==
    ASSUME IInv, NEW c \in Client, NEW o \in Op, SelectIntent(c, o) PROVE Good
<1> DEFINE d == snap[c]
           left == {e \in OwnEffects(o) : d.stage[e] \in Unresolved}
           label == IF Unattempted(d, o) THEN "retire"
                    ELSE IF left = {} THEN "verify" ELSE "observe"
           others == ctl[c].todo \ {o}
           skip == [ctl[c] EXCEPT !.todo = @ \ {o}]
           r == [[ctl[c] EXCEPT !.job = o, !.left = left] EXCEPT !.pc = label]
<1>1. ctl[c] \in Control /\ Remembers(ctl[c], applied, doc.journal)
  BY ClientFacts
<1>2. ctl[c].pc = "recover"
  BY DEF SelectIntent, Holding, At
<1>3. CASE Goto(c, skip)
  <2>1. others \in SUBSET Op /\ skip = [ctl[c] EXCEPT !.todo = others]
    BY <1>1 DEF Control
  <2> HIDE DEF others, skip
  <2>2. skip \in Control
    BY <1>1, <2>1 DEF Control
  <2>3. Remembers(skip, applied, doc.journal)
    BY <1>1, <1>2, <2>1 DEF Remembers, Control
  <2> QED BY <1>3, <2>2, <2>3, QuietStep, ClientFacts
          DEF SelectIntent, NoWrite, world, Calm
<1>4. CASE Stop(c)
  BY <1>4, Stopped, ClientFacts DEF SelectIntent, NoWrite, world, Calm
<1>5. CASE Goto(c, r)
  <2>1. left \in SUBSET Effect /\ left \subseteq OwnEffects(o)
    BY DEF OwnEffects
  <2>2. label \in {"retire", "verify", "observe"} /\ (label = "observe" => left # {})
    OBVIOUS
  <2> HIDE DEF left, label
  <2>3. r \in Control
    BY <1>1, <2>1, <2>2 DEF Control, Reading
  <2>4. Remembers(r, applied, doc.journal)
    BY <1>1, <2>1, <2>2 DEF Remembers, Control
  <2> HIDE DEF r
  <2> QED BY <1>5, <2>3, <2>4, QuietStep, ClientFacts
          DEF SelectIntent, NoWrite, world, Calm
<1> QED BY <1>3, <1>4, <1>5 DEF SelectIntent

LEMMA RetireUnattemptedGood ==
    ASSUME IInv, NEW c \in Client, RetireUnattempted(c) PROVE Good
<1> DEFINE o == ctl[c].job
<1>1. ctl[c] \in Control /\ o \in Op
  BY ClientFacts DEF Control
<1>2. CASE SaveRefused(c) /\ Stop(c)
  BY <1>2, Stopped, ClientFacts DEF RetireUnattempted, SaveRefused, NoWrite, world, Calm
<1>3. CASE NoWrite(c) /\ Stop(c)
  BY <1>3, Stopped, ClientFacts DEF RetireUnattempted, NoWrite, world, Calm
<1>4. CASE /\ Unattempted(snap[c], o)
           /\ Save(c, WithoutIntent(snap[c], o))
           /\ Goto(c, Recovered(c)) \/ Stop(c)
  <2>1. snap[c] = doc
    BY <1>4, ClientFacts DEF Save
  <2>2. Admissible(WithoutIntent(doc, o))
    BY <1>1, <1>4, <2>1, RetireAdmissible DEF Unattempted, AllAt, Verified
  <2>3. PICK r \in {Recovered(c), Idle} : Goto(c, r)
    BY <1>4 DEF Stop
  <2>4. r \in Control /\ Remembers(r, applied, WithoutIntent(doc, o).journal)
    BY <1>1, <2>3, PassControl, IdleControl, IdleRemembers
  <2> HIDE DEF Good
  <2> QED BY <1>4, <2>1, <2>2, <2>3, <2>4, WriteStep DEF RetireUnattempted, Calm
<1> QED BY <1>2, <1>3, <1>4 DEF RetireUnattempted

\* the answer of a look is only "verified" when the effect has happened
LEMMA SeenControl ==
    ASSUME IInv, NEW c \in Client, ctl[c].left # {}, NEW outcome \in Outcome,
           outcome = "verified-effect" => First(ctl[c].left) \in applied
    PROVE  /\ [ctl[c] EXCEPT !.pc = "record", !.res = outcome] \in Control
           /\ Remembers([ctl[c] EXCEPT !.pc = "record", !.res = outcome],
                        applied, doc.journal)
<1>1. ctl[c] \in Control /\ Remembers(ctl[c], applied, doc.journal)
  BY ClientFacts
<1>2. [ctl[c] EXCEPT !.pc = "record", !.res = outcome] \in Control
  BY <1>1 DEF Control, Reading
<1>3. Remembers([ctl[c] EXCEPT !.pc = "record", !.res = outcome], applied, doc.journal)
  BY <1>1 DEF Remembers, Control
<1> QED BY <1>2, <1>3

LEMMA SeenGood ==
    ASSUME IInv, NEW c \in Client, ctl[c].left # {}, NEW outcome \in Outcome,
           outcome = "verified-effect" => First(ctl[c].left) \in applied,
           Goto(c, [ctl[c] EXCEPT !.pc = "record", !.res = outcome]),
           UNCHANGED <<doc, view, snap, applied, planned>>,
           inflight' \subseteq Effect, Calm \/ Disturb
    PROVE  Good
BY SeenControl, QuietStep, ClientFacts

LEMMA ObserveGood == ASSUME IInv, NEW c \in Client, Observe(c) PROVE Good
<1>1. ctl[c].left # {}
  BY ClientFacts DEF Observe, At, Remembers
<1>2. PICK outcome \in Outcome :
        /\ Goto(c, [ctl[c] EXCEPT !.pc = "record", !.res = outcome])
        /\ outcome = "verified-effect" => Converged(First(ctl[c].left))
        /\ Calm \/ Disturb
  BY DEF Observe, Outcome
<1>3. outcome = "verified-effect" => First(ctl[c].left) \in applied
  BY <1>2 DEF Converged
<1> QED BY <1>1, <1>2, <1>3, SeenGood, ClientFacts DEF Observe, world

LEMMA RecordGood == ASSUME IInv, NEW c \in Client, Record(c) PROVE Good
<1> DEFINE o == ctl[c].job
           e == First(ctl[c].left)
           d == snap[c]
<1>1. ctl[c] \in Control /\ Remembers(ctl[c], applied, doc.journal)
  BY ClientFacts
<1>2. ctl[c].pc = "record" /\ ctl[c].left # {}
  BY <1>1 DEF Record, Holding, At, Remembers
<1>3. o \in Op /\ e \in Effect /\ e \in OwnEffects(o) /\ e[1] = o
  <2>1. ctl[c].left \subseteq Effect /\ ctl[c].left \subseteq OwnEffects(o)
    BY <1>1 DEF Control, Remembers
  <2> QED BY <1>1, <1>2, <2>1, FirstIn DEF Control, OwnEffects
<1>4. UNCHANGED <<world, planned>>
  BY DEF Record
<1> DEFINE Leaves(r) == Goto(c, r) /\ (Calm \/ Disturb)
<1>5. ASSUME NEW r \in {Idle, Recovered(c), Skipped(c), NextEffect(c, e)}
      PROVE  /\ r \in Control
             /\ \A journal : (\A x \in Op : doc.journal[x] # Unreferenced
                                                => journal[x] # Unreferenced)
                                => Remembers(r, applied, journal)
  <2>1. r \in Control /\ Remembers(r, applied, doc.journal)
    BY <1>1, IdleControl, IdleRemembers, PassControl, FinishedControl, NextEffectControl
  <2> QED BY <2>1, MemoryGrows
<1>6. PICK r \in {Idle, Recovered(c), Skipped(c), NextEffect(c, e)} : Leaves(r)
  BY Zenon DEF Record, Stop
<1>7. r \in Control /\ Remembers(r, applied, doc.journal)
  BY <1>5, <1>6
<1>8. CASE NoWrite(c)
  BY <1>4, <1>6, <1>7, <1>8, QuietStep, ClientFacts DEF NoWrite, world
<1>9. CASE SaveRefused(c)
  BY <1>8, <1>9 DEF SaveRefused
<1>10. ASSUME NEW w, Save(c, w), d = doc => Admissible(w) PROVE Good
  <2>1. Admissible(w)
    BY <1>10, ClientFacts DEF Save
  <2>2. Remembers(r, applied, w.journal)
    BY <1>5, <1>6, <2>1 DEF Admissible
  <2> HIDE DEF Good
  <2> QED BY <1>4, <1>6, <1>7, <1>10, <2>1, <2>2, WriteStep
<1>11. CASE /\ Recordable(d, o, e) /\ ctl[c].res = "verified-effect"
            /\ Save(c, WithStage(d, e, "effect-verified"))
  <2>1. e \in applied
    BY <1>1, <1>2, <1>11 DEF Remembers
  <2>2. d = doc => Admissible(WithStage(d, e, "effect-verified"))
    BY <1>3, <1>11, <2>1, StageAdmissible DEF Recordable, Unresolved, Verified, Stage
  <2> QED BY <1>10, <1>11, <2>2
<1>12. CASE /\ Recordable(d, o, e) /\ Alone(d, o, e)
            /\ Save(c, WithoutIntent(d, o))
  <2>1. \A x \in OwnEffects(o) : d.stage[x] \notin Verified
    BY <1>12 DEF Recordable, Alone, Unresolved, Verified
  <2>2. d = doc => Admissible(WithoutIntent(d, o))
    BY <1>3, <2>1, RetireAdmissible
  <2> QED BY <1>10, <1>12, <2>2
<1>13. CASE /\ Recordable(d, o, e)
            /\ Save(c, WithStage(d, e, "outcome-unknown"))
  <2>1. d = doc => Admissible(WithStage(d, e, "outcome-unknown"))
    BY <1>3, <1>13, StageAdmissible DEF Recordable, Unresolved, Verified, Stage
  <2> QED BY <1>10, <1>13, <2>1
<1> QED BY <1>8, <1>9, <1>11, <1>12, <1>13 DEF Record

LEMMA VerifyGood == ASSUME IInv, NEW c \in Client, Verify(c) PROVE Good
<1> DEFINE o == ctl[c].job
           d == snap[c]
           ref == IF ctl[c].mode = "dispatch" THEN [by |-> "receipt", gen |-> 0]
                                              ELSE [by |-> "recovery", gen |-> d.born[o]]
           res == IF AllAt(d, o, {"effect-verified"}) THEN "verified-effect"
                                                      ELSE "state-committed"
           r == [ctl[c] EXCEPT !.pc = "canonical", !.res = res, !.ref = ref]
<1>1. ctl[c] \in Control /\ Remembers(ctl[c], applied, doc.journal) /\ o \in Op
  BY ClientFacts DEF Control
<1>2. CASE Stop(c)
  BY <1>2, Stopped, ClientFacts DEF Verify, NoWrite, world, Calm
<1>3. CASE Goto(c, r) /\ AllAt(d, o, Verified)
  <2>1. d.born[o] \in Nat
    BY <1>1, ClientFacts DEF Document
  <2>2. ref \in Reference /\ ref # Unreferenced
    BY <2>1 DEF Reference, Unreferenced
  <2>3. OwnEffects(o) \subseteq applied
    BY <1>3, ClientFacts DEF AllAt, Truthful, OwnEffects
  <2>4. res \in Outcome
    BY DEF Outcome
  <2> HIDE DEF ref, res
  <2>5. r \in Control
    BY <1>1, <2>2, <2>4 DEF Control, Reading
  <2>6. Remembers(r, applied, doc.journal)
    BY <1>1, <2>2, <2>3 DEF Remembers, Control
  <2> HIDE DEF r
  <2> QED BY <1>3, <2>5, <2>6, QuietStep, ClientFacts DEF Verify, NoWrite, world, Calm
<1>4. AllAt(d, o, {"effect-verified"}) => AllAt(d, o, Verified)
  BY DEF AllAt, Verified
<1> QED BY <1>2, <1>3, <1>4 DEF Verify

\* whoever stands before the commit has all effects of its job behind it
LEMMA CommitMemory ==
    ASSUME IInv, NEW c \in Client, ctl[c].pc \in {"canonical", "ready"}
    PROVE  /\ [ctl[c] EXCEPT !.pc = "ready"] \in Control
           /\ Remembers([ctl[c] EXCEPT !.pc = "ready"], applied, doc.journal)
           /\ [ctl[c] EXCEPT !.pc = "commit"] \in Control
           /\ Remembers([ctl[c] EXCEPT !.pc = "commit"], applied, doc.journal)
<1>1. ctl[c] \in Control /\ Remembers(ctl[c], applied, doc.journal)
  BY ClientFacts
<1>2. /\ [ctl[c] EXCEPT !.pc = "ready"] \in Control
      /\ [ctl[c] EXCEPT !.pc = "commit"] \in Control
  BY <1>1 DEF Control, Reading
<1>3. /\ Remembers([ctl[c] EXCEPT !.pc = "ready"], applied, doc.journal)
      /\ Remembers([ctl[c] EXCEPT !.pc = "commit"], applied, doc.journal)
  BY <1>1 DEF Remembers, Control
<1> QED BY <1>2, <1>3

LEMMA CanonicalGood == ASSUME IInv, NEW c \in Client, Canonical(c) PROVE Good
<1>1. ctl[c] \in Control /\ Remembers(ctl[c], applied, doc.journal)
  BY ClientFacts
<1>2. ctl[c].pc = "canonical" /\ NoWrite(c)
  BY DEF Canonical, Holding, At
<1>3. CASE Stop(c)
  BY <1>2, <1>3, Stopped, ClientFacts DEF Canonical, NoWrite, world, Calm
<1> DEFINE r == [ctl[c] EXCEPT !.pc = "finalize"]
           g == snap[c].gen
           w == [ctl[c] EXCEPT !.pc = "commit", !.gen = g]
<1>4. CASE snap[c].journal[ctl[c].job] = ctl[c].ref /\ Goto(c, r)
  <2>1. ctl[c].job \in Op /\ doc.journal[ctl[c].job] # Unreferenced
    BY <1>1, <1>2, <1>4, ClientFacts DEF Remembers, Truthful, Control
  <2>2. r \in Control
    BY <1>1 DEF Control, Reading
  <2>3. Remembers(r, applied, doc.journal)
    BY <1>1, <2>1 DEF Remembers, Control
  <2> HIDE DEF r
  <2> QED BY <1>2, <1>4, <2>2, <2>3, QuietStep, ClientFacts
          DEF Canonical, NoWrite, world, Calm
<1>5. CASE Goto(c, [ctl[c] EXCEPT !.pc = "ready"])
  BY <1>2, <1>5, CommitMemory, QuietStep, ClientFacts
  DEF Canonical, NoWrite, world, Calm
<1>6. CASE Goto(c, w)
  <2>1. g \in Nat
    BY ClientFacts DEF Document
  <2> HIDE DEF g
  <2>2. w \in Control
    BY <1>1, <2>1 DEF Control, Reading
  <2>3. Remembers(w, applied, doc.journal)
    BY <1>1, <1>2 DEF Remembers, Control
  <2> HIDE DEF w
  <2> QED BY <1>2, <1>6, <2>2, <2>3, QuietStep, ClientFacts
          DEF Canonical, NoWrite, world, Calm
<1> QED BY <1>3, <1>4, <1>5, <1>6 DEF Canonical

LEMMA ReadyGood == ASSUME IInv, NEW c \in Client, Ready(c) PROVE Good
<1>1. ctl[c].pc = "ready" /\ NoWrite(c)
  BY DEF Ready, Holding, At
<1>2. CASE Stop(c)
  BY <1>1, <1>2, Stopped, ClientFacts DEF Ready, NoWrite, world, Calm
<1>3. CASE Goto(c, [ctl[c] EXCEPT !.pc = "commit"])
  BY <1>1, <1>3, CommitMemory, QuietStep, ClientFacts DEF Ready, NoWrite, world, Calm
<1> QED BY <1>2, <1>3 DEF Ready

LEMMA CommitGood == ASSUME IInv, NEW c \in Client, Commit(c) PROVE Good
<1> DEFINE o == ctl[c].job
           d == snap[c]
           r == [ctl[c] EXCEPT !.pc = "finalize"]
<1>1. ctl[c] \in Control /\ Remembers(ctl[c], applied, doc.journal)
  BY ClientFacts
<1>2. ctl[c].pc = "commit" /\ UNCHANGED <<world, planned, disturbances>>
  BY DEF Commit, Holding, At
<1>3. CASE NoWrite(c) /\ Stop(c)
  BY <1>2, <1>3, Stopped, ClientFacts DEF NoWrite, world, Calm
<1>4. CASE SaveRefused(c) /\ Stop(c)
  BY <1>3, <1>4 DEF SaveRefused
<1>5. /\ o \in Op /\ ctl[c].ref \in Reference /\ ctl[c].ref # Unreferenced
      /\ OwnEffects(o) \subseteq applied
  BY <1>1, <1>2 DEF Remembers, Control
<1>6. r \in Control
  BY <1>1 DEF Control, Reading
<1>7. ASSUME NEW journal, journal[o] # Unreferenced
      PROVE  Remembers(r, applied, journal)
  BY <1>1, <1>7 DEF Remembers, Control
<1> HIDE DEF r, Good
<1>8. CASE Save(c, Advanced(Journaled(d, o, ctl[c].ref))) /\ Goto(c, r)
  <2>1. d = doc
    BY <1>8, ClientFacts DEF Save
  <2>2. /\ Admissible(Advanced(Journaled(doc, o, ctl[c].ref)))
        /\ Advanced(Journaled(doc, o, ctl[c].ref)).journal[o] # Unreferenced
    BY <1>5, JournalAdmissible, AdvanceAdmissible
  <2> QED BY <1>2, <1>6, <1>7, <1>8, <2>1, <2>2, WriteStep DEF Calm
<1>9. CASE Save(c, Journaled(d, o, ctl[c].ref)) /\ Goto(c, r)
  <2>1. d = doc
    BY <1>9, ClientFacts DEF Save
  <2>2. /\ Admissible(Journaled(doc, o, ctl[c].ref))
        /\ Journaled(doc, o, ctl[c].ref).journal[o] # Unreferenced
    BY <1>5, JournalAdmissible
  <2> QED BY <1>2, <1>6, <1>7, <1>9, <2>1, <2>2, WriteStep DEF Calm
<1> QED BY <1>3, <1>4, <1>8, <1>9 DEF Commit, r

LEMMA FinalizeGood == ASSUME IInv, NEW c \in Client, Finalize(c) PROVE Good
<1> DEFINE o == ctl[c].job
           d == snap[c]
           rest == {e \in OwnEffects(o) : d.stage[e] # "state-committed"}
           e == First(rest)
<1>1. ctl[c] \in Control /\ Remembers(ctl[c], applied, doc.journal) /\ o \in Op
  BY ClientFacts DEF Control
<1>2. ctl[c].pc = "finalize" /\ UNCHANGED <<world, planned, disturbances>>
  BY DEF Finalize, Holding, At
<1>3. CASE NoWrite(c) /\ Stop(c)
  BY <1>2, <1>3, Stopped, ClientFacts DEF NoWrite, world, Calm
<1>4. CASE SaveRefused(c) /\ Stop(c)
  BY <1>3, <1>4 DEF SaveRefused
<1>5. CASE NoWrite(c) /\ Goto(c, Finished(c))
  BY <1>1, <1>2, <1>5, FinishedControl, QuietStep, ClientFacts DEF NoWrite, world, Calm
<1>6. CASE /\ o \in d.intents /\ rest # {} /\ d.stage[e] = "effect-verified"
           /\ Save(c, WithStage(d, e, "state-committed"))
           /\ UNCHANGED ctl
  <2>1. e \in Effect /\ e[1] = o
    <3>1. rest \subseteq Effect /\ e \in rest
      BY <1>6, FirstIn DEF OwnEffects
    <3> QED BY <3>1 DEF OwnEffects
  <2>2. d = doc
    BY <1>6, ClientFacts DEF Save
  <2>3. doc.journal[o] # Unreferenced
    BY <1>1, <1>2 DEF Remembers
  <2>4. e \in applied
    BY <1>6, <2>1, <2>2, ClientFacts DEF Truthful, Verified
  <2> HIDE DEF e
  <2>5. Admissible(WithStage(doc, e, "state-committed"))
    BY <1>6, <2>1, <2>2, <2>3, <2>4, StageAdmissible DEF Stage
  <2>6. WithStage(doc, e, "state-committed").journal = doc.journal
    BY <2>1, ClientFacts, WithStageDocument DEF Stage
  <2>7. Goto(c, ctl[c])
    BY <1>6 DEF Goto, IInv, TypeOK
  <2> HIDE DEF Good
  <2> QED BY <1>1, <1>2, <1>6, <2>2, <2>5, <2>6, <2>7, WriteStep DEF Calm
<1> QED BY <1>3, <1>4, <1>5, <1>6 DEF Finalize

LEMMA EndPlanningGood == ASSUME IInv, NEW c \in Client, EndPlanning(c) PROVE Good
<1>1. ctl[c] \in Control /\ ctl[c].plan \in SUBSET Op
  BY ClientFacts DEF Control
<1>2. CASE AssembleRound(c, TRUE) /\ UNCHANGED planned
  BY <1>2, AssembleGood DEF EndPlanning
<1>3. CASE Stop(c) /\ planned' \in {planned, ctl[c].plan} /\ Calm
  BY <1>1, <1>3, Stopped, ClientFacts DEF EndPlanning, world
<1>4. CASE Goto(c, Run(ctl[c].plan, FALSE)) /\ planned' = ctl[c].plan /\ Calm
  BY <1>1, <1>4, RunControl, QuietStep, ClientFacts DEF EndPlanning, world
<1> QED BY <1>2, <1>3, <1>4 DEF EndPlanning, Calm
----------------------------------------------------------------------------
(* Executing *)

LEMMA ExecuteReviewedGood ==
    ASSUME IInv, NEW c \in Client, ExecuteReviewed(c) PROVE Good
<1>1. Goto(c, Run(planned, FALSE)) /\ planned \in SUBSET Op
  BY ClientFacts DEF ExecuteReviewed
<1> QED BY <1>1, RunControl, QuietStep, ClientFacts DEF ExecuteReviewed, world

LEMMA BeginOperationGood ==
    ASSUME IInv, NEW c \in Client, NEW o \in Op, BeginOperation(c, o) PROVE Good
<1> DEFINE others == ctl[c].todo \ {o}
           g == snap[c].gen
           r == [ctl[c] EXCEPT !.pc = "check", !.todo = others, !.job = o, !.gen = g]
<1>1. /\ ctl[c] \in Control /\ Remembers(ctl[c], applied, doc.journal)
      /\ ctl[c].pc = "run" /\ g \in Nat /\ others \in SUBSET Op
  BY ClientFacts DEF BeginOperation, Holding, At, Control, Document
<1>2. Goto(c, r)
  BY <1>1 DEF BeginOperation, Control
<1> HIDE DEF g, others
<1>3. r \in Control
  BY <1>1 DEF Control, Reading
<1>4. Remembers(r, applied, doc.journal)
  BY <1>1 DEF Remembers, Control
<1> HIDE DEF r
<1> QED BY <1>2, <1>3, <1>4, QuietStep, ClientFacts
        DEF BeginOperation, NoWrite, world, Calm

LEMMA SkipDependentGood ==
    ASSUME IInv, NEW c \in Client, NEW o \in Op, SkipDependent(c, o) PROVE Good
<1> DEFINE others == ctl[c].todo \ {o}
           r == [ctl[c] EXCEPT !.todo = others]
<1>1. /\ ctl[c] \in Control /\ Remembers(ctl[c], applied, doc.journal)
      /\ ctl[c].pc = "run" /\ others \in SUBSET Op
  BY ClientFacts DEF SkipDependent, At, Control
<1>2. Goto(c, r)
  BY <1>1 DEF SkipDependent, Control
<1> HIDE DEF others
<1>3. r \in Control
  BY <1>1 DEF Control
<1>4. Remembers(r, applied, doc.journal)
  BY <1>1 DEF Remembers, Control
<1> HIDE DEF r
<1> QED BY <1>2, <1>3, <1>4, QuietStep, ClientFacts DEF SkipDependent, world, Calm

LEMMA CheckIntentGood ==
    ASSUME IInv, NEW c \in Client, CheckIntent(c) PROVE Good
<1> DEFINE o == ctl[c].job
           d == snap[c]
           left == {e \in OwnEffects(o) : d.stage[e] \in Unresolved}
           label == IF Unattempted(d, o) THEN "retire"
                    ELSE IF left = {} THEN "verify" ELSE "observe"
           r == [ctl[c] EXCEPT !.mode = "matching", !.left = left, !.pc = label]
           g == d.gen
           w == [ctl[c] EXCEPT !.pc = "persist", !.born = g]
<1>1. /\ ctl[c] \in Control /\ Remembers(ctl[c], applied, doc.journal)
      /\ o \in Op /\ g \in Nat
  BY ClientFacts DEF Control, Document
<1>2. NoWrite(c) /\ UNCHANGED <<world, planned>>
  BY DEF CheckIntent
<1>3. CASE Stop(c) /\ Calm
  BY <1>2, <1>3, Stopped, ClientFacts DEF NoWrite, world
<1>4. CASE Goto(c, Skipped(c)) /\ (Calm \/ Disturb)
  BY <1>1, <1>2, <1>4, FinishedControl, QuietStep, ClientFacts DEF NoWrite, world
<1>5. CASE Goto(c, r) /\ Calm
  <2>1. left \in SUBSET Effect /\ left \subseteq OwnEffects(o)
    BY DEF OwnEffects
  <2>2. label \in {"retire", "verify", "observe"} /\ (label = "observe" => left # {})
    OBVIOUS
  <2> HIDE DEF left, label
  <2>3. r \in Control
    BY <1>1, <2>1, <2>2 DEF Control, Reading
  <2>4. Remembers(r, applied, doc.journal)
    BY <1>1, <2>1, <2>2 DEF Remembers, Control
  <2> HIDE DEF r
  <2> QED BY <1>2, <1>5, <2>3, <2>4, QuietStep, ClientFacts DEF NoWrite, world
<1>6. CASE Goto(c, w) /\ Calm
  <2> HIDE DEF g
  <2>1. w \in Control
    BY <1>1 DEF Control, Reading
  <2>2. Remembers(w, applied, doc.journal)
    BY <1>1 DEF Remembers, Control
  <2> HIDE DEF w
  <2> QED BY <1>2, <1>6, <2>1, <2>2, QuietStep, ClientFacts DEF NoWrite, world
<1> QED BY <1>3, <1>4, <1>5, <1>6 DEF CheckIntent

LEMMA PersistIntentGood ==
    ASSUME IInv, NEW c \in Client, PersistIntent(c) PROVE Good
<1> DEFINE o == ctl[c].job
           left == OwnEffects(o)
           r == [ctl[c] EXCEPT !.pc = "authorize", !.left = left]
<1>1. /\ ctl[c] \in Control /\ Remembers(ctl[c], applied, doc.journal)
      /\ o \in Op /\ ctl[c].born \in Nat
  BY ClientFacts DEF Control
<1>2. UNCHANGED <<world, planned, disturbances>>
  BY DEF PersistIntent
<1>3. CASE NoWrite(c) /\ Stop(c)
  BY <1>2, <1>3, Stopped, ClientFacts DEF NoWrite, world, Calm
<1>4. CASE SaveRefused(c) /\ Stop(c)
  BY <1>3, <1>4 DEF SaveRefused
<1>5. CASE Save(c, WithIntent(snap[c], o, ctl[c].born)) /\ Goto(c, r)
  <2>1. left \in SUBSET Effect /\ left # {}
    <3>1. <<o, 1>> \in left
      BY <1>1 DEF OwnEffects, Effect
    <3> QED BY <3>1 DEF OwnEffects
  <2>2. snap[c] = doc
    BY <1>5, ClientFacts DEF Save
  <2>3. Admissible(WithIntent(doc, o, ctl[c].born))
    BY <1>1, IntentAdmissible
  <2>4. left \subseteq OwnEffects(o)
    OBVIOUS
  <2> HIDE DEF left
  <2>5. r \in Control
    BY <1>1, <2>1 DEF Control, Reading
  <2>6. Remembers(r, applied, WithIntent(doc, o, ctl[c].born).journal)
    BY <1>1, <2>1, <2>4 DEF Remembers, Control
  <2> HIDE DEF r, Good
  <2> QED BY <1>2, <1>5, <2>2, <2>3, <2>5, <2>6, WriteStep DEF Calm
<1> QED BY <1>3, <1>4, <1>5 DEF PersistIntent

\* the effect in hand stays in hand
LEMMA InHandControl ==
    ASSUME NEW c \in Client, ctl[c] \in Control, NEW happened, NEW journal,
           Remembers(ctl[c], happened, journal), ctl[c].left # {},
           NEW label \in {"guard", "await"}, NEW longer
    PROVE  /\ [ctl[c] EXCEPT !.pc = label] \in Control
           /\ Remembers([ctl[c] EXCEPT !.pc = label], happened, longer)
<1>1. [ctl[c] EXCEPT !.pc = label] \in Control
  BY DEF Control
<1>2. Remembers([ctl[c] EXCEPT !.pc = label], happened, longer)
  BY DEF Remembers, Control
<1> QED BY <1>1, <1>2

LEMMA AuthorizeGood ==
    ASSUME IInv, NEW c \in Client, Authorize(c) PROVE Good
<1> DEFINE o == ctl[c].job
           e == First(ctl[c].left)
           d == snap[c]
           r == [ctl[c] EXCEPT !.pc = "guard"]
<1>1. ctl[c] \in Control /\ Remembers(ctl[c], applied, doc.journal)
  BY ClientFacts
<1>2. ctl[c].left # {} /\ UNCHANGED <<world, planned, disturbances>>
  BY <1>1 DEF Authorize, Holding, At, Remembers
<1>3. e \in Effect /\ e[1] = o
  <2>1. ctl[c].left \subseteq Effect /\ ctl[c].left \subseteq OwnEffects(o)
    BY <1>1 DEF Control, Remembers
  <2> QED BY <1>2, <2>1, FirstIn DEF OwnEffects
<1>4. CASE NoWrite(c) /\ Stop(c)
  BY <1>2, <1>4, Stopped, ClientFacts DEF NoWrite, world, Calm
<1>5. CASE SaveRefused(c) /\ Stop(c)
  BY <1>4, <1>5 DEF SaveRefused
<1>6. CASE /\ o \in d.intents /\ d.stage[e] = "intent-persisted"
           /\ Save(c, WithStage(d, e, "dispatch-authorized"))
           /\ Goto(c, r)
  <2>1. d = doc
    BY <1>6, ClientFacts DEF Save
  <2> HIDE DEF e
  <2>2. Admissible(WithStage(doc, e, "dispatch-authorized"))
    BY <1>3, <1>6, <2>1, StageAdmissible DEF Stage, Verified
  <2>3. r \in Control /\ Remembers(r, applied, WithStage(doc, e, "dispatch-authorized").journal)
    BY <1>1, <1>2, InHandControl
  <2> HIDE DEF r, Good
  <2> QED BY <1>2, <1>6, <2>1, <2>2, <2>3, WriteStep DEF Calm
<1> QED BY <1>4, <1>5, <1>6 DEF Authorize

LEMMA GuardGood == ASSUME IInv, NEW c \in Client, Guard(c) PROVE Good
<1> DEFINE e == First(ctl[c].left)
<1>1. ctl[c] \in Control /\ Remembers(ctl[c], applied, doc.journal)
  BY ClientFacts
<1>2. ctl[c].left # {} /\ UNCHANGED <<doc, view, snap, applied, planned>>
  BY <1>1 DEF Guard, At, Remembers
<1>3. e \in Effect
  BY <1>1, <1>2, FirstIn DEF Control
<1>4. CASE /\ inflight' = inflight \cup {e} /\ Calm
           /\ Goto(c, [ctl[c] EXCEPT !.pc = "await"])
  BY <1>1, <1>2, <1>3, <1>4, InHandControl, QuietStep, ClientFacts
<1>5. CASE /\ Goto(c, [ctl[c] EXCEPT !.pc = "record", !.res = "refused"])
           /\ UNCHANGED inflight /\ (Calm \/ Disturb)
  BY <1>2, <1>5, SeenGood, ClientFacts DEF Outcome
<1> QED BY <1>4, <1>5 DEF Guard

LEMMA RespondGood == ASSUME IInv, NEW c \in Client, Respond(c) PROVE Good
<1>1. ctl[c].left # {} /\ UNCHANGED <<doc, view, snap, world, planned>>
  BY ClientFacts DEF Respond, At, Remembers
<1>2. CASE Stop(c) /\ Disturb
  BY <1>1, <1>2, Stopped, ClientFacts DEF world
<1>3. ASSUME NEW outcome \in Outcome,
             Goto(c, [ctl[c] EXCEPT !.pc = "record", !.res = outcome]),
             outcome = "verified-effect" => First(ctl[c].left) \in applied,
             Calm \/ Disturb
      PROVE Good
  BY <1>1, <1>3, SeenGood, ClientFacts DEF world
<1> QED BY <1>2, <1>3 DEF Respond, Converged, Outcome

LEMMA CancelRunGood == ASSUME IInv, NEW c \in Client, CancelRun(c) PROVE Good
BY Stopped, ClientFacts DEF CancelRun, world

LEMMA EndRunGood == ASSUME IInv, NEW c \in Client, EndRun(c) PROVE Good
<1>1. CASE Stop(c) /\ Calm
  BY <1>1, Stopped, ClientFacts DEF EndRun, world
<1> DEFINE r == [ctl[c] EXCEPT !.pc = "cursor"]
<1>2. CASE Goto(c, r) /\ Disturb
  <2>1. ctl[c] \in Control /\ ctl[c].left \subseteq OwnEffects(ctl[c].job)
    BY ClientFacts DEF Remembers
  <2>2. r \in Control /\ Remembers(r, applied, doc.journal)
    BY <2>1, MovedControl
  <2> HIDE DEF r
  <2> QED BY <1>2, <2>2, QuietStep, ClientFacts DEF EndRun, world
<1> QED BY <1>1, <1>2 DEF EndRun

LEMMA CommitCursorGood == ASSUME IInv, NEW c \in Client, CommitCursor(c) PROVE Good
<1>1. CASE SaveRefused(c)
  BY <1>1, Stopped, ClientFacts DEF CommitCursor, SaveRefused, NoWrite, world, Calm
<1>2. CASE Save(c, Advanced(snap[c]))
  BY <1>2, IdleControl, IdleRemembers, AdvanceStep DEF CommitCursor, Stop
<1> QED BY <1>1, <1>2 DEF CommitCursor
----------------------------------------------------------------------------
(* The world outside *)

\* what only happens to files leaves every fact in force
LEMMA WorldStep ==
    ASSUME IInv, UNCHANGED <<doc, view, snap, planned, ctl>>,
           applied \subseteq applied', applied' \subseteq Effect,
           inflight' \subseteq Effect, disturbances' \in 0..MaxDisturbances
    PROVE  Good
<1>1. TypeOK'
  BY DEF IInv, TypeOK
<1>2. Sound(doc', applied') /\ Keeps(doc, doc')
  BY DEF IInv, Sound, Keeps, Verified
<1>3. \A c \in Client : Truthful(snap'[c], applied', doc'.journal)
  BY DEF IInv, Truthful
<1>4. ASSUME NEW c \in Client PROVE Remembers(ctl'[c], applied', doc'.journal)
  BY ClientFacts, MemoryGrows
<1>5. \A c \in Client : view'[c] = "current" => snap'[c] = doc'
  BY DEF IInv
<1> QED BY <1>1, <1>2, <1>3, <1>4, <1>5 DEF IInv, Good

LEMMA LandGood == ASSUME IInv, NEW e \in Effect, Land(e) PROVE Good
BY WorldStep DEF Land, IInv, TypeOK

LEMMA LoseGood == ASSUME IInv, NEW e \in Effect, Lose(e) PROVE Good
<1>1. disturbances' \in 0..MaxDisturbances
  BY SpentIsBounded DEF Lose, IInv
<1> QED BY <1>1, WorldStep DEF Lose, IInv, TypeOK

LEMMA CrashGood == ASSUME IInv, Crash PROVE Good
<1>1. disturbances' \in 0..MaxDisturbances
  BY SpentIsBounded DEF Crash, IInv
<1>2. applied \subseteq applied' /\ applied' \subseteq Effect
  BY DEF Crash, IInv, TypeOK
<1>3. TypeOK'
  BY <1>1, <1>2, IdleControl, InitialIsDocument DEF Crash, IInv, TypeOK
<1>4. Sound(doc', applied') /\ Keeps(doc, doc')
  BY <1>2 DEF Crash, IInv, Sound, Keeps, Verified
<1>5. \A c \in Client : Truthful(snap'[c], applied', doc'.journal)
  BY InitialIsTruthful DEF Crash
<1>6. \A c \in Client : Remembers(ctl'[c], applied', doc'.journal)
  BY IdleRemembers DEF Crash
<1>7. \A c \in Client : view'[c] = "current" => snap'[c] = doc'
  BY DEF Crash
<1> QED BY <1>3, <1>4, <1>5, <1>6, <1>7 DEF IInv, Good
----------------------------------------------------------------------------
(* The invariant *)

LEMMA InitGood == Init => IInv
<1> SUFFICES ASSUME Init PROVE IInv
  OBVIOUS
<1>1. TypeOK
  <2>1. \A e \in Effect : InitialDocument.stage[e] = "intent-persisted"
    BY DEF InitialDocument
  <2>2. disturbances \in 0..MaxDisturbances
    BY ConstantsAssumption DEF Init
  <2> QED BY <2>1, <2>2, IdleControl, InitialIsDocument DEF Init, TypeOK
<1>2. Sound(doc, applied)
  BY DEF Init, Sound, InitialDocument, Verified, Unreferenced
<1>3. \A c \in Client : Truthful(snap[c], applied, doc.journal)
  BY InitialIsTruthful DEF Init
<1>4. \A c \in Client : Remembers(ctl[c], applied, doc.journal)
  BY IdleRemembers DEF Init
<1>5. \A c \in Client : view[c] = "current" => snap[c] = doc
  BY DEF Init
<1> QED BY <1>1, <1>2, <1>3, <1>4, <1>5 DEF IInv

LEMMA StutterGood == ASSUME IInv, UNCHANGED vars PROVE Good
BY WorldStep DEF vars, world, IInv, TypeOK

LEMMA StepGood == ASSUME IInv, [Next]_vars PROVE Good
<1> HIDE DEF Good
<1>1. ASSUME NEW c \in Client, PlanningStep(c) PROVE Good
  BY <1>1, LoadGood, BeginPlanningGood, LearnGood, MirrorGood, PreflightGood,
     SelectIntentGood, RetireUnattemptedGood, ObserveGood, RecordGood, VerifyGood,
     CanonicalGood, CommitGood, FinalizeGood, EndPlanningGood
  DEF PlanningStep
<1>2. ASSUME NEW c \in Client, ExecutionStep(c) PROVE Good
  BY <1>2, BeginOperationGood, SkipDependentGood, CheckIntentGood, PersistIntentGood,
     AuthorizeGood, GuardGood, RespondGood, ReadyGood, EndRunGood, CommitCursorGood
  DEF ExecutionStep
<1>3. ASSUME NEW c \in Client, ClientStep(c) \/ ExecuteReviewed(c) \/ CancelRun(c)
      PROVE Good
  BY <1>1, <1>2, <1>3, ExecuteReviewedGood, CancelRunGood DEF ClientStep
<1>4. CASE \E e \in Effect : Land(e) \/ Lose(e)
  BY <1>4, LandGood, LoseGood
<1>5. CASE Crash
  BY <1>5, CrashGood
<1>6. CASE UNCHANGED vars
  BY <1>6, StutterGood
<1> QED BY <1>3, <1>4, <1>5, <1>6 DEF Next

\* The strengthened invariant holds in every reachable state of every instance:
\* no client, however old its snapshot, holds a false fact about what happened.
THEOREM InvariantHolds == Spec => []IInv
<1>1. Init => IInv
  BY InitGood
<1>2. IInv /\ [Next]_vars => IInv'
  BY StepGood DEF Good
<1> QED BY <1>1, <1>2, PTL DEF Spec

\* Every variable keeps its type, and the document mentions no effect of an
\* intent that it does not hold (Document, Control).
THEOREM TypeCorrect == Spec => []TypeOK
<1>1. IInv => TypeOK
  BY DEF IInv
<1> QED BY <1>1, InvariantHolds, PTL

\* Whatever the interleaving of a run with previews, and across crashes, the
\* document calls an effect verified only after it has happened to the files.
THEOREM VerifiedHappened == Spec => []VerifiedIsApplied
<1>1. IInv => VerifiedIsApplied
  BY DEF IInv, Sound, VerifiedIsApplied
<1> QED BY <1>1, InvariantHolds, PTL

\* The canonical journal contains an operation only when all of its physical
\* effects have happened (the receipt is built from every verified effect).
THEOREM CommitsCover == Spec => []CommitCoversEffects
<1>1. IInv => CommitCoversEffects
  BY DEF IInv, Sound, CommitCoversEffects, Committed
<1> QED BY <1>1, InvariantHolds, PTL

\* An effect is marked state-committed only behind its canonical commit
\* (markEffectStateCommitted runs after commitVerifiedSuccess).
THEOREM FinalizedBehindCommit == Spec => []FinalizedAfterCommit
<1>1. IInv => FinalizedAfterCommit
  BY EffectShape DEF IInv, Sound, FinalizedAfterCommit, Committed, OwnEffects
<1> QED BY <1>1, InvariantHolds, PTL

\* No step of any client, not even a late or repeated recording, demotes a
\* verified effect or removes its intent (recordPhysicalResult).
THEOREM VerifiedStays == Spec => VerifiedIsStable
<1>1. IInv /\ [Next]_vars =>
          [\A e \in Effect : doc.stage[e] \in Verified =>
              /\ doc'.stage[e] \in Verified
              /\ doc.stage[e] = "state-committed" => doc'.stage[e] = "state-committed"
              /\ e[1] \in doc'.intents]_vars
  BY StepGood DEF Good, Keeps
<1> QED BY <1>1, InvariantHolds, PTL DEF Spec, VerifiedIsStable
----------------------------------------------------------------------------
(* Overlapping chains: the accounts of the sure operations are complete *)

Touched == applied \cup inflight
Absent == {"verified-not-applied", "refused"}
Committing == {"canonical", "ready", "commit"}
Holds(k) == k.mode # "recover"

\* at most one chain holds the run lease
Exclusive == \A c, x \in Client : Holds(ctl[c]) /\ Holds(ctl[x]) => c = x

\* no effect of a sure operation was ever sent that the document calls unsent
Recorded(d, touched) ==
    \A e \in touched \cap SureEffect : d.stage[e] # "intent-persisted"

\* a committed operation keeps its intent and its verified effects, and until it
\* is complete a recovery's commit carries the generation of the intent
Journal(d) ==
    \A o \in Op : Committed(d, o) =>
        /\ o \in d.intents /\ AllAt(d, o, Verified)
        /\ d.journal[o].by \in {"receipt", "recovery"}
        /\ d.journal[o].by = "recovery" /\ ~Complete(d, o) =>
              d.journal[o].gen = d.born[o]

\* what a chain knows of a later document than the one it read
Knows(k, d) ==
    /\ k.pc \in {"idle", "learn", "mirror", "preflight", "recover"} => k.mode = "recover"
    /\ k.pc \in {"run", "check", "persist", "authorize", "guard", "await", "cursor"} =>
          k.mode = "dispatch"
    /\ k.pc = "record" /\ k.res = "refused" => k.mode = "dispatch"
    /\ k.pc \in Committing =>
          /\ k.job \in d.intents /\ AllAt(d, k.job, Verified)
          /\ k.res = "verified-effect" \/ SomeAt(d, k.job, {"state-committed"})
          /\ k.ref.by = IF k.mode = "dispatch" THEN "receipt" ELSE "recovery"
    /\ k.pc = "commit" => k.res = "verified-effect"
    /\ k.mode = "dispatch" =>
          /\ k.gen <= d.gen
          /\ k.pc \notin {"run", "check", "cursor", "finalize"} /\ Committed(d, k.job) =>
                k.gen < d.gen

\* and what it relies on that only the holder of the lease could undo
Owns(k, d, touched) ==
    k.job \in Sure =>
        /\ k.pc = "guard" => /\ First(k.left) \notin touched
                             /\ d.stage[First(k.left)] # "intent-persisted"
        /\ k.pc = "record" /\ k.res \in Absent =>
              k.mode = "dispatch" /\ First(k.left) \notin touched

\* a snapshot in hand lags behind the document, never contradicts it
Snapshot(k, d, later) ==
    /\ Keeps(d, later)
    /\ d.gen <= later.gen
    /\ \A o \in Op : Committed(d, o) => o \in d.intents
    /\ \A o \in Op : Committed(later, o) /\ ~Committed(d, o) => d.gen < later.gen
    /\ k.pc = "check" => k.gen <= d.gen
    /\ k.pc \in Committing /\ k.res # "verified-effect" =>
          SomeAt(d, k.job, {"state-committed"})

\* a recovery takes o for verified and incomplete, in an intent of generation g:
\* it is about to commit it, or has just read it
Fresh(d, o) == o \in d.intents /\ AllAt(d, o, Verified) /\ ~Complete(d, o)
Pending(k) == k.pc \in Committing /\ k.res = "verified-effect" /\ k.ref.by = "recovery"
Claim(c, o, g) ==
    \/ Pending(ctl[c]) /\ ctl[c].job = o /\ ctl[c].ref.gen = g
    \/ view[c] # "none" /\ Fresh(snap[c], o) /\ snap[c].born[o] = g

\* all who claim an operation mean the same commit, and nobody made another
Claims == \A c \in Client, o \in Op, g \in Nat : Claim(c, o, g) =>
              /\ o \in doc.intents /\ AllAt(doc, o, Verified)
              /\ Complete(doc, o) \/ doc.born[o] = g
              /\ doc.journal[o].by = "recovery" => doc.journal[o].gen = g
              /\ \A x \in Client, h \in Nat : Claim(x, o, h) => h = g

\* a request is awaited, unless it may outlive its caller, and never repeated
Requests == /\ applied \cap inflight \cap SureEffect = {}
            /\ \A e \in inflight \ Lingering :
                  \E c \in Client : At(c, "await") /\ First(ctl[c].left) = e

SharedInv == /\ Exclusive
             /\ Recorded(doc, Touched)
             /\ Journal(doc)
             /\ Requests
             /\ Claims
             /\ \A c \in Client : Knows(ctl[c], doc) /\ Owns(ctl[c], doc, Touched)
             /\ \A c \in Client : view[c] # "none" => Snapshot(ctl[c], snap[c], doc)

\* the status of every sure operation that a document stands for
StatusIn(d) == [o \in Sure |-> IF Complete(d, o) THEN "closed"
                               ELSE IF Committed(d, o) THEN "committed"
                               ELSE IF o \in d.intents THEN "open"
                               ELSE "unopened"]
ContractStep == [SureContract!Next]_(SureContract!vars)

\* what a step of k leaves of the document that others rely on
Evolves(d, later, k) ==
    /\ d.gen <= later.gen
    /\ \A o \in Op :
          \/ later.journal[o] = d.journal[o]
          \/ /\ k.pc = "commit" /\ o = k.job /\ later.journal[o] = k.ref
             /\ Committed(d, o) =>
                   d.journal[o].by = "receipt" /\ k.ref.by = "recovery"
             /\ Committed(d, o) \/ d.gen < later.gen
    /\ \A o \in d.intents :
          AllAt(d, o, Verified) => Complete(later, o) \/ later.born[o] = d.born[o]
    /\ \/ k.mode = "dispatch"
       \/ \A e \in SureEffect : d.stage[e] # "intent-persisted" =>
                                   later.stage[e] # "intent-persisted"

\* what every step must establish
Promise == /\ SharedInv'
           /\ \A o \in Op : Committed(doc, o) /\ doc'.journal[o] # doc.journal[o] =>
                 doc.journal[o].by = "receipt" /\ doc'.journal[o].by = "recovery"
           /\ \A e \in inflight' \ inflight : e[1] \in Sure =>
                 /\ e[1] \in doc.intents /\ doc.stage[e] \in Unresolved
                 /\ e \notin applied
           /\ ContractStep

\* the situation every lemma on a step starts from
Working == IInv /\ SharedInv /\ Good
----------------------------------------------------------------------------
(* Operators *)

LEMMA HasEffect == ASSUME NEW o \in Op PROVE <<o, 1>> \in OwnEffects(o)
BY DEF OwnEffects, Effect

LEMMA KeepsAll ==
    ASSUME NEW d, NEW later, Keeps(d, later), NEW o \in Op
    PROVE  /\ AllAt(d, o, Verified) => o \in later.intents /\ AllAt(later, o, Verified)
           /\ Complete(d, o) => Complete(later, o)
           /\ SomeAt(d, o, {"state-committed"}) => SomeAt(later, o, {"state-committed"})
<1>1. <<o, 1>> \in OwnEffects(o) /\ \A e \in OwnEffects(o) : e \in Effect /\ e[1] = o
  BY HasEffect DEF OwnEffects
<1>2. AllAt(d, o, Verified) => o \in later.intents /\ AllAt(later, o, Verified)
  BY <1>1 DEF Keeps, AllAt
<1>3. Complete(d, o) => Complete(later, o)
  BY <1>1 DEF Keeps, AllAt, Complete, Verified
<1>4. SomeAt(d, o, {"state-committed"}) => SomeAt(later, o, {"state-committed"})
  BY <1>1 DEF Keeps, SomeAt, Verified
<1> QED BY <1>2, <1>3, <1>4

LEMMA KeepsOn == ASSUME NEW d, NEW next, NEW later, Keeps(d, next), Keeps(next, later)
                 PROVE  Keeps(d, later)
BY DEF Keeps

\* realigning completed intents changes nothing that anybody relies on
LEMMA RebasedParts ==
    ASSUME NEW d \in Document
    PROVE  /\ Rebased(d).stage = d.stage /\ Rebased(d).journal = d.journal
           /\ Rebased(d).intents = d.intents /\ Rebased(d).gen = d.gen
           /\ \A o \in Op : /\ Complete(Rebased(d), o) <=> Complete(d, o)
                            /\ Committed(Rebased(d), o) <=> Committed(d, o)
                            /\ Complete(d, o) \/ Rebased(d).born[o] = d.born[o]
<1> DEFINE r == Rebased(d)
<1>1. /\ r.stage = d.stage /\ r.journal = d.journal
      /\ r.intents = d.intents /\ r.gen = d.gen
  BY RebasedDocument
<1>2. \A o \in Op : Complete(d, o) \/ r.born[o] = d.born[o]
  BY DEF Rebased, Document
<1> HIDE DEF r
<1>3. \A o \in Op : /\ Complete(r, o) <=> Complete(d, o)
                    /\ Committed(r, o) <=> Committed(d, o)
  BY <1>1 DEF Complete, AllAt, Committed
<1> QED BY <1>1, <1>2, <1>3 DEF r

LEMMA RebasedKnows ==
    ASSUME NEW d \in Document, NEW k, k.job \in Op, Knows(k, d)
    PROVE  Knows(k, Rebased(d))
<1> DEFINE r == Rebased(d)
<1>1. /\ r.intents = d.intents /\ r.gen = d.gen
      /\ Committed(r, k.job) <=> Committed(d, k.job)
      /\ AllAt(r, k.job, Verified) <=> AllAt(d, k.job, Verified)
      /\ SomeAt(r, k.job, {"state-committed"}) <=> SomeAt(d, k.job, {"state-committed"})
  BY RebasedParts DEF AllAt, SomeAt
<1> HIDE DEF r
<1>2. Knows(k, r)
  BY <1>1 DEF Knows
<1> QED BY <1>2 DEF r

LEMMA RebasedEvolves ==
    ASSUME NEW base \in Document, NEW d \in Document, NEW k, Evolves(base, d, k)
    PROVE  Evolves(base, Rebased(d), k)
<1> DEFINE r == Rebased(d)
<1>1. /\ r.stage = d.stage /\ r.journal = d.journal /\ r.gen = d.gen
      /\ \A o \in Op : /\ Complete(r, o) <=> Complete(d, o)
                       /\ Complete(d, o) \/ r.born[o] = d.born[o]
  BY RebasedParts
<1>2. base.intents \subseteq Op
  BY DEF Document
<1> HIDE DEF r
<1>3. Evolves(base, r, k)
  BY <1>1, <1>2 DEF Evolves
<1> QED BY <1>3 DEF r

LEMMA EvolvesStill == ASSUME NEW d \in Document, NEW k PROVE Evolves(d, d, k)
<1>1. d.gen \in Nat
  BY DEF Document
<1> QED BY <1>1 DEF Evolves

LEMMA AdvanceEvolves ==
    ASSUME NEW d \in Document, NEW k
    PROVE  /\ Evolves(d, Advanced(d), k) /\ Advanced(d) \in Document
           /\ Advanced(d).stage = d.stage /\ StatusIn(Advanced(d)) = StatusIn(d)
<1> DEFINE r == Advanced(d)
<1>1. /\ r.stage = d.stage /\ r.journal = d.journal
      /\ r.intents = d.intents /\ r.gen = d.gen + 1 /\ r.born = d.born
  BY DEF Advanced, Document
<1>2. d.gen \in Nat /\ r \in Document
  BY AdvancedDocument DEF Document
<1> HIDE DEF r
<1>3. \A o \in Op : /\ Complete(r, o) <=> Complete(d, o)
                    /\ Committed(r, o) <=> Committed(d, o)
  BY <1>1 DEF Complete, AllAt, Committed
<1>4. Evolves(d, r, k)
  BY <1>1, <1>2 DEF Evolves
<1>5. StatusIn(r) = StatusIn(d)
  BY <1>1, <1>3 DEF StatusIn, Sure
<1> QED BY <1>1, <1>2, <1>4, <1>5 DEF r

LEMMA StageEvolves ==
    ASSUME NEW d \in Document, NEW e \in Effect, NEW s \in Stage, NEW k,
           s # "intent-persisted"
    PROVE  /\ Evolves(d, WithStage(d, e, s), k)
           /\ \A touched : Recorded(d, touched) => Recorded(WithStage(d, e, s), touched)
<1> DEFINE r == WithStage(d, e, s)
<1>1. /\ r.stage[e] = s /\ \A x \in Effect \ {e} : r.stage[x] = d.stage[x]
      /\ r.journal = d.journal /\ r.intents = d.intents
      /\ r.gen = d.gen /\ r.born = d.born
  BY DEF WithStage, Document
<1>2. d.gen \in Nat /\ SureEffect \subseteq Effect
  BY DEF Document, SureEffect
<1> HIDE DEF r
<1>3. Evolves(d, r, k)
  BY <1>1, <1>2 DEF Evolves
<1>4. \A touched : Recorded(d, touched) => Recorded(r, touched)
  BY <1>1, <1>2 DEF Recorded
<1> QED BY <1>3, <1>4 DEF r

\* as long as the stage is not the last one, no operation changes its status
LEMMA StagedStatus ==
    ASSUME NEW d \in Document, NEW e \in Effect, NEW s \in Stage,
           s # "state-committed", d.stage[e] # "state-committed"
    PROVE  StatusIn(WithStage(d, e, s)) = StatusIn(d)
<1> DEFINE r == WithStage(d, e, s)
<1>1. /\ r.stage[e] = s /\ \A x \in Effect \ {e} : r.stage[x] = d.stage[x]
      /\ r.journal = d.journal /\ r.intents = d.intents
  BY WithStageDocument
<1>2. ASSUME NEW o \in Op PROVE Complete(r, o) <=> Complete(d, o)
  <2>1. CASE o = e[1]
    BY <1>1, <2>1, EffectShape DEF Complete, AllAt
  <2>2. CASE o # e[1]
    <3>1. \A x \in OwnEffects(o) : r.stage[x] = d.stage[x]
      BY <1>1, <2>2 DEF OwnEffects
    <3> QED BY <1>1, <3>1 DEF AllAt, Complete
  <2> QED BY <2>1, <2>2
<1>3. \A o \in Op : Committed(r, o) <=> Committed(d, o)
  BY <1>1 DEF Committed
<1> HIDE DEF r
<1>4. StatusIn(r) = StatusIn(d)
  BY <1>1, <1>2, <1>3 DEF StatusIn, Sure
<1> QED BY <1>4 DEF r

\* opening an intent nobody holds
LEMMA IntentEvolves ==
    ASSUME NEW d \in Document, NEW o \in Op, NEW n \in Nat, o \notin d.intents, NEW k
    PROVE  Evolves(d, WithIntent(d, o, n), k)
<1> DEFINE r == WithIntent(d, o, n)
<1>1. /\ r.stage = d.stage /\ r.journal = d.journal /\ r.gen = d.gen
      /\ \A x \in Op \ {o} : r.born[x] = d.born[x]
  BY DEF WithIntent, Document
<1>2. d.gen \in Nat /\ d.intents \subseteq Op
  BY DEF Document
<1> HIDE DEF r
<1>3. Evolves(d, r, k)
  BY <1>1, <1>2 DEF Evolves
<1> QED BY <1>3 DEF r

\* removing one that nobody verified: whoever does not hold the lease removes
\* it only if nothing was authorized
LEMMA RetireEvolves ==
    ASSUME NEW d \in Document, NEW o \in Op, NEW k,
           \A e \in OwnEffects(o) : d.stage[e] \notin Verified,
           \/ k.mode = "dispatch"
           \/ \A e \in OwnEffects(o) \cap SureEffect : d.stage[e] = "intent-persisted"
    PROVE  Evolves(d, WithoutIntent(d, o), k)
<1> DEFINE r == WithoutIntent(d, o)
<1>1. /\ \A x \in Effect : x[1] # o => r.stage[x] = d.stage[x]
      /\ r.journal = d.journal /\ r.gen = d.gen
      /\ \A x \in Op \ {o} : r.born[x] = d.born[x]
  BY DEF WithoutIntent, Document
<1>2. d.gen \in Nat /\ d.intents \subseteq Op
  BY DEF Document
<1>3. ~AllAt(d, o, Verified)
  BY HasEffect DEF AllAt
<1> HIDE DEF r
<1>4. k.mode = "dispatch" \/ \A e \in SureEffect :
         d.stage[e] # "intent-persisted" => r.stage[e] # "intent-persisted"
  BY <1>1 DEF OwnEffects, SureEffect
<1>5. Evolves(d, r, k)
  BY <1>1, <1>2, <1>3, <1>4 DEF Evolves
<1> QED BY <1>5 DEF r
----------------------------------------------------------------------------
(* Steps of the contract *)

LEMMA ContractStutters ==
    ASSUME UNCHANGED applied, StatusIn(doc') = StatusIn(doc) PROVE ContractStep
BY DEF ContractStep, StatusIn, StatusOf, SureContract!vars

LEMMA ContractApplies ==
    ASSUME NEW e \in Effect, e \notin applied, applied' = applied \cup {e},
           UNCHANGED doc, e[1] \in Sure => StatusIn(doc)[e[1]] = "open"
    PROVE  ContractStep
<1>1. StatusIn(doc') = StatusIn(doc)
  BY DEF StatusIn
<1>2. CASE e \in SureEffect
  <2>1. applied' \cap SureEffect = (applied \cap SureEffect) \cup {e}
    BY <1>2
  <2>2. e[1] \in Sure /\ StatusIn(doc)[e[1]] = "open"
    BY <1>2 DEF SureEffect
  <2> QED BY <1>1, <1>2, <2>1, <2>2
          DEF ContractStep, StatusIn, StatusOf, SureContract!Next, SureContract!Apply
<1>3. CASE e \notin SureEffect
  <2>1. applied' \cap SureEffect = applied \cap SureEffect
    BY <1>3
  <2> QED BY <1>1, <2>1 DEF ContractStep, StatusIn, StatusOf, SureContract!vars
<1> QED BY <1>2, <1>3

LEMMA ContractMoves ==
    ASSUME NEW o \in Op, NEW from, NEW to, UNCHANGED applied,
           StatusIn(doc') = [StatusIn(doc) EXCEPT ![o] = to],
           o \in Sure =>
              /\ StatusIn(doc)[o] = from
              /\ \/ from = "unopened" /\ to = "open"
                 \/ from = "open" /\ to = "unopened" /\ OwnEffects(o) \cap applied = {}
                 \/ from = "open" /\ to = "committed" /\ OwnEffects(o) \subseteq applied
                 \/ from = "committed" /\ to = "closed"
    PROVE  ContractStep
<1>1. CASE o \notin Sure
  <2>1. StatusIn(doc') = StatusIn(doc)
    BY <1>1 DEF StatusIn
  <2> QED BY <2>1, ContractStutters
<1>2. CASE o \in Sure
  <2>1. SureContract!OwnEffects(o) = OwnEffects(o) /\ OwnEffects(o) \subseteq SureEffect
    BY <1>2 DEF SureContract!OwnEffects, OwnEffects, SureEffect
  <2>2. /\ OwnEffects(o) \cap applied = {} => OwnEffects(o) \cap (applied \cap SureEffect) = {}
        /\ OwnEffects(o) \subseteq applied => OwnEffects(o) \subseteq applied \cap SureEffect
    BY <2>1
  <2> QED BY <1>2, <2>1, <2>2
          DEF ContractStep, StatusIn, StatusOf, SureContract!Next, SureContract!Open,
              SureContract!Drop, SureContract!Commit, SureContract!Close
<1> QED BY <1>1, <1>2
----------------------------------------------------------------------------
(* What a step of one chain leaves to the others *)

LEMMA OthersStay ==
    ASSUME IInv, NEW c \in Client, NEW r, Goto(c, r)
    PROVE  ctl'[c] = r /\ \A x \in Client \ {c} : ctl'[x] = ctl[x]
BY DEF Goto, IInv, TypeOK

LEMMA ExclusiveStays ==
    ASSUME Working, NEW c \in Client, NEW r, Goto(c, r),
           Holds(r) => Holds(ctl[c]) \/ LeaseFree(c)
    PROVE  Exclusive'
<1>1. ctl'[c] = r /\ \A x \in Client \ {c} : ctl'[x] = ctl[x]
  BY OthersStay DEF Working
<1> QED BY <1>1 DEF Working, SharedInv, Exclusive, Holds, LeaseFree

\* the chain that commits claims the generation of its reference
LEMMA PendingClaims ==
    ASSUME Working, NEW c \in Client, Pending(ctl[c])
    PROVE  /\ Claim(c, ctl[c].job, ctl[c].ref.gen)
           /\ ctl[c].job \in Op /\ ctl[c].ref.gen \in Nat
<1>1. ctl[c].job \in Op /\ ctl[c].ref.gen \in Nat
  BY ClientFacts DEF Working, Control, Reference
<1> QED BY <1>1 DEF Claim

LEMMA JournalStays ==
    ASSUME Working, NEW c \in Client, Evolves(doc, doc', ctl[c])
    PROVE  Journal(doc')
<1> SUFFICES ASSUME NEW o \in Op, Committed(doc', o)
             PROVE  /\ o \in doc'.intents /\ AllAt(doc', o, Verified)
                    /\ doc'.journal[o].by \in {"receipt", "recovery"}
                    /\ doc'.journal[o].by = "recovery" /\ ~Complete(doc', o) =>
                          doc'.journal[o].gen = doc'.born[o]
  BY DEF Journal
<1>1. Keeps(doc, doc') /\ Journal(doc) /\ Claims /\ Knows(ctl[c], doc)
  BY DEF Working, Good, SharedInv
<1>2. ASSUME o \in doc.intents, AllAt(doc, o, Verified)
      PROVE  /\ o \in doc'.intents /\ AllAt(doc', o, Verified)
             /\ Complete(doc', o) \/ (~Complete(doc, o) /\ doc'.born[o] = doc.born[o])
  <2>1. /\ o \in doc'.intents /\ AllAt(doc', o, Verified)
        /\ Complete(doc, o) => Complete(doc', o)
    BY <1>1, <1>2, KeepsAll
  <2>2. Complete(doc', o) \/ doc'.born[o] = doc.born[o]
    BY <1>2 DEF Evolves
  <2> QED BY <2>1, <2>2
<1>3. CASE doc'.journal[o] = doc.journal[o]
  <2>1. Committed(doc, o)
    BY <1>3 DEF Committed
  <2> QED BY <1>1, <1>2, <1>3, <2>1 DEF Journal
<1>4. CASE ctl[c].pc = "commit" /\ o = ctl[c].job /\ doc'.journal[o] = ctl[c].ref
  <2>1. /\ o \in doc.intents /\ AllAt(doc, o, Verified)
        /\ ctl[c].ref.by \in {"receipt", "recovery"}
        /\ ctl[c].ref.by = "recovery" => Pending(ctl[c])
    BY <1>1, <1>4 DEF Knows, Committing, Pending
  <2>2. ctl[c].ref.by = "recovery" =>
           Complete(doc, o) \/ doc.born[o] = ctl[c].ref.gen
    BY <1>1, <1>4, <2>1, PendingClaims DEF Claims
  <2> QED BY <1>2, <1>4, <2>1, <2>2
<1> QED BY <1>3, <1>4 DEF Evolves

LEMMA KnowsStays ==
    ASSUME Working, NEW c \in Client, NEW d \in Document, Keeps(doc, d),
           Evolves(doc, d, ctl[c]), NEW x \in Client
    PROVE  Knows(ctl[x], d)
<1>1. Knows(ctl[x], doc)
  BY DEF Working, SharedInv
<1>2. ctl[x] \in Control /\ ctl[x].job \in Op /\ ctl[x].gen \in Nat
  BY ClientFacts DEF Working, Control
<1>3. doc.gen \in Nat /\ d.gen \in Nat /\ doc.gen <= d.gen
  BY DEF Working, IInv, TypeOK, Document, Evolves
<1>4. ctl[x].pc \in Committing =>
         /\ ctl[x].job \in d.intents /\ AllAt(d, ctl[x].job, Verified)
         /\ \/ ctl[x].res = "verified-effect"
            \/ SomeAt(d, ctl[x].job, {"state-committed"})
  BY <1>1, <1>2, KeepsAll DEF Knows
<1>5. Committed(d, ctl[x].job) => Committed(doc, ctl[x].job) \/ doc.gen < d.gen
  BY <1>2 DEF Evolves, Committed
<1> QED BY <1>1, <1>2, <1>3, <1>4, <1>5 DEF Knows

\* the effect in hand is one of the job's
LEMMA InHand ==
    ASSUME IInv, NEW c \in Client,
           ctl[c].pc \in {"observe", "record", "authorize", "guard", "await"}
    PROVE  /\ ctl[c] \in Control /\ ctl[c].job \in Op /\ ctl[c].left # {}
           /\ First(ctl[c].left) \in Effect
           /\ First(ctl[c].left) \in OwnEffects(ctl[c].job)
           /\ First(ctl[c].left)[1] = ctl[c].job
<1>1. /\ ctl[c] \in Control /\ ctl[c].left # {} /\ ctl[c].left \subseteq Effect
      /\ ctl[c].left \subseteq OwnEffects(ctl[c].job) /\ ctl[c].job \in Op
  BY ClientFacts DEF Remembers, Control
<1> QED BY <1>1, FirstIn DEF OwnEffects

LEMMA OwnsStays ==
    ASSUME Working, NEW c \in Client, Evolves(doc, doc', ctl[c]),
           NEW x \in Client \ {c}, NEW touched,
           touched \subseteq Touched \/ ctl[c].mode = "dispatch"
    PROVE  Owns(ctl[x], doc', touched)
<1>1. Owns(ctl[x], doc, Touched) /\ Knows(ctl[x], doc) /\ Exclusive
  BY DEF Working, SharedInv
<1>2. CASE ctl[c].mode = "dispatch"
  <2>1. ~Holds(ctl[x])
    BY <1>1, <1>2 DEF Exclusive, Holds
  <2> QED BY <1>1, <2>1 DEF Knows, Owns, Holds
<1>3. CASE ctl[c].mode # "dispatch"
  <2>1. \A e \in SureEffect : doc.stage[e] # "intent-persisted" =>
                                 doc'.stage[e] # "intent-persisted"
    BY <1>3 DEF Evolves
  <2>2. ctl[x].job \in Sure /\ ctl[x].pc = "guard" => First(ctl[x].left) \in SureEffect
    BY InHand DEF Working, SureEffect
  <2> QED BY <1>1, <1>3, <2>1, <2>2 DEF Owns
<1> QED BY <1>2, <1>3

\* claims are kept if nobody makes a new one
LEMMA ClaimsStay ==
    ASSUME Working, NEW c \in Client, Evolves(doc, doc', ctl[c]),
           \A x \in Client, o \in Op, g \in Nat : Claim(x, o, g)' => Claim(x, o, g)
    PROVE  Claims'
<1> SUFFICES ASSUME NEW x \in Client, NEW o \in Op, NEW g \in Nat, Claim(x, o, g)'
             PROVE  /\ o \in doc'.intents /\ AllAt(doc', o, Verified)
                    /\ Complete(doc', o) \/ doc'.born[o] = g
                    /\ doc'.journal[o].by = "recovery" => doc'.journal[o].gen = g
                    /\ \A y \in Client, h \in Nat : Claim(y, o, h)' => h = g
  BY DEF Claims
<1>1. Claims /\ Claim(x, o, g) /\ Keeps(doc, doc') /\ Knows(ctl[c], doc)
  BY DEF Working, Good, SharedInv
<1>2. /\ o \in doc.intents /\ AllAt(doc, o, Verified)
      /\ Complete(doc, o) \/ doc.born[o] = g
      /\ doc.journal[o].by = "recovery" => doc.journal[o].gen = g
      /\ \A y \in Client, h \in Nat : Claim(y, o, h) => h = g
  BY <1>1 DEF Claims
<1>3. /\ o \in doc'.intents /\ AllAt(doc', o, Verified)
      /\ Complete(doc', o) \/ doc'.born[o] = g
  BY <1>1, <1>2, KeepsAll DEF Evolves
<1>4. doc'.journal[o].by = "recovery" => doc'.journal[o].gen = g
  <2>1. CASE doc'.journal[o] = doc.journal[o]
    BY <1>2, <2>1
  <2>2. CASE /\ ctl[c].pc = "commit" /\ o = ctl[c].job /\ doc'.journal[o] = ctl[c].ref
             /\ ctl[c].ref.by = "recovery"
    <3>1. Pending(ctl[c])
      BY <1>1, <2>2 DEF Knows, Pending, Committing
    <3> QED BY <1>2, <2>2, <3>1, PendingClaims
  <2> QED BY <2>1, <2>2 DEF Evolves
<1> QED BY <1>2, <1>3, <1>4

LEMMA SnapshotStays ==
    ASSUME Working, NEW c \in Client, Evolves(doc, doc', ctl[c]),
           NEW x \in Client, view[x] # "none", NEW k,
           k = ctl[x] \/ k.pc \notin Committing \cup {"check"}
    PROVE  Snapshot(k, snap[x], doc')
<1>1. Snapshot(ctl[x], snap[x], doc) /\ Keeps(doc, doc')
  BY DEF Working, Good, SharedInv
<1>2. /\ doc.gen \in Nat /\ doc'.gen \in Nat /\ snap[x].gen \in Nat
      /\ doc.gen <= doc'.gen
  BY DEF Working, Good, IInv, TypeOK, Document, Evolves
<1>3. Keeps(snap[x], doc')
  BY <1>1, KeepsOn DEF Snapshot
<1>4. \A o \in Op : Committed(doc', o) => Committed(doc, o) \/ doc.gen < doc'.gen
  BY DEF Evolves, Committed
<1> QED BY <1>1, <1>2, <1>3, <1>4 DEF Snapshot

\* the frame of every step of a chain that sends nothing
LEMMA ClientFrame ==
    ASSUME Working, NEW c \in Client, NEW r, Goto(c, r), UNCHANGED world,
           At(c, "await") => First(ctl[c].left) \notin inflight \ Lingering,
           Holds(r) => Holds(ctl[c]) \/ LeaseFree(c),
           Evolves(doc, doc', ctl[c]),
           Recorded(doc', Touched), Knows(r, doc'), Owns(r, doc', Touched),
           Pending(r) => Claim(c, r.job, r.ref.gen),
           \A x \in Client \ {c} :
              view'[x] # "none" => view[x] # "none" /\ snap'[x] = snap[x],
           \/ view'[c] = "none"
           \/ /\ view'[c] = view[c] /\ snap'[c] = snap[c]
              /\ r.pc \notin Committing \cup {"check"}
    PROVE  SharedInv'
<1>1. Touched' = Touched /\ UNCHANGED <<applied, inflight>>
  BY DEF Touched, world
<1>2. ctl'[c] = r /\ \A x \in Client \ {c} : ctl'[x] = ctl[x]
  BY OthersStay DEF Working
<1>3. Exclusive'
  BY ExclusiveStays
<1>4. Journal(doc')
  BY JournalStays
<1>5. \A x \in Client : Knows(ctl'[x], doc') /\ Owns(ctl'[x], doc', Touched')
  <2>1. doc' \in Document /\ Keeps(doc, doc')
    BY DEF Working, Good, IInv, TypeOK
  <2> QED BY <1>1, <1>2, <2>1, KnowsStays, OwnsStays
<1>6. Claims'
  <2>1. ASSUME NEW x \in Client, NEW o \in Op, NEW g \in Nat, Claim(x, o, g)'
        PROVE  Claim(x, o, g)
    BY <1>2, <2>1 DEF Claim
  <2> QED BY <2>1, ClaimsStay
<1>7. ASSUME NEW x \in Client, view'[x] # "none" PROVE Snapshot(ctl'[x], snap'[x], doc')
  <2>1. CASE x = c
    BY <1>2, <1>7, <2>1, SnapshotStays
  <2>2. CASE x # c
    BY <1>2, <1>7, <2>2, SnapshotStays
  <2> QED BY <2>1, <2>2
<1>8. Requests'
  <2> SUFFICES ASSUME NEW e \in inflight \ Lingering
               PROVE  \E x \in Client : At(x, "await")' /\ First(ctl'[x].left) = e
    BY <1>1 DEF Working, SharedInv, Requests
  <2>1. PICK x \in Client : At(x, "await") /\ First(ctl[x].left) = e
    BY DEF Working, SharedInv, Requests
  <2>2. x # c
    BY <2>1
  <2> QED BY <1>2, <2>1, <2>2 DEF At
<1> QED BY <1>1, <1>3, <1>4, <1>5, <1>6, <1>7, <1>8 DEF SharedInv

\* a journal that evolves changes in one order only
LEMMA RepeatsInOrder ==
    ASSUME NEW c \in Client, Evolves(doc, doc', ctl[c]), NEW o \in Op,
           Committed(doc, o), doc'.journal[o] # doc.journal[o]
    PROVE  doc.journal[o].by = "receipt" /\ doc'.journal[o].by = "recovery"
BY DEF Evolves

\* a step of one chain that writes nothing
LEMMA QuietPromise ==
    ASSUME Working, NEW c \in Client, NEW r, Goto(c, r), UNCHANGED <<doc, world>>,
           At(c, "await") => First(ctl[c].left) \notin inflight \ Lingering,
           Holds(r) => Holds(ctl[c]) \/ LeaseFree(c),
           Knows(r, doc), Owns(r, doc, Touched),
           Pending(r) => Claim(c, r.job, r.ref.gen),
           \/ Drop(c)
           \/ UNCHANGED <<view, snap>> /\ r.pc \notin Committing \cup {"check"}
    PROVE  Promise
<1>1. doc \in Document /\ UNCHANGED <<applied, inflight>>
  BY ClientFacts DEF Working, world
<1>2. Evolves(doc, doc', ctl[c])
  BY <1>1, EvolvesStill
<1>3. /\ \A x \in Client \ {c} : view'[x] = view[x] /\ snap'[x] = snap[x]
      /\ \/ view'[c] = "none"
         \/ /\ view'[c] = view[c] /\ snap'[c] = snap[c]
            /\ r.pc \notin Committing \cup {"check"}
  BY DEF Drop, Working, IInv, TypeOK
<1>4. Recorded(doc', Touched)
  BY DEF Working, SharedInv
<1>5. SharedInv'
  BY <1>2, <1>3, <1>4, ClientFrame
<1>6. ContractStep
  BY <1>1, ContractStutters
<1> QED BY <1>1, <1>5, <1>6 DEF Promise

\* a step of one chain that writes d
LEMMA WritePromise ==
    ASSUME Working, NEW c \in Client, ~At(c, "await"), NEW d \in Document, NEW r,
           Save(c, d), Goto(c, r), UNCHANGED world, r.job \in Op,
           Holds(r) => Holds(ctl[c]) \/ LeaseFree(c),
           Evolves(doc, d, ctl[c]), Recorded(d, Touched),
           Knows(r, d), Owns(r, d, Touched), r.pc \notin Committing,
           ContractStep
    PROVE  Promise
<1>1. doc \in Document /\ doc' = Rebased(d) /\ UNCHANGED <<applied, inflight>>
  BY ClientFacts DEF Save, Working, world
<1>2. doc'.stage = d.stage
  BY <1>1, RebasedParts
<1>3. Evolves(doc, doc', ctl[c]) /\ Knows(r, doc')
  BY <1>1, RebasedEvolves, RebasedKnows
<1>4. Recorded(doc', Touched) /\ Owns(r, doc', Touched)
  BY <1>2 DEF Recorded, Owns
<1>5. /\ view'[c] = "none"
      /\ \A x \in Client \ {c} :
            view'[x] # "none" => view[x] # "none" /\ snap'[x] = snap[x]
  BY DEF Save, Working, IInv, TypeOK
<1>6. ~Pending(r)
  BY DEF Pending
<1>7. SharedInv'
  BY <1>3, <1>4, <1>5, <1>6, ClientFrame
<1> QED BY <1>1, <1>3, <1>7, RepeatsInOrder DEF Promise
\* what is written was derived from the document as it is
LEMMA SavedParts ==
    ASSUME Working, NEW c \in Client, NEW d \in Document, Save(c, d)
    PROVE  /\ Keeps(doc, d) /\ StatusIn(doc') = StatusIn(d)
           /\ doc \in Document
<1>1. /\ doc' = Rebased(d) /\ doc'.stage = d.stage /\ doc'.intents = d.intents
      /\ \A o \in Op : /\ Complete(doc', o) <=> Complete(d, o)
                       /\ Committed(doc', o) <=> Committed(d, o)
  BY RebasedParts DEF Save
<1>2. Keeps(doc, d) /\ doc \in Document
  BY <1>1 DEF Keeps, Working, Good, IInv, TypeOK
<1>3. StatusIn(doc') = StatusIn(d)
  BY <1>1 DEF StatusIn, Sure
<1> QED BY <1>2, <1>3
----------------------------------------------------------------------------
(* Where a chain relies on nothing *)

Elsewhere == {"idle", "learn", "mirror", "preflight", "recover", "retire",
              "finalize", "observe", "verify"}
Light(k) == \/ k.mode = "recover" /\ k.pc \in Elsewhere
            \/ k.mode = "matching" /\ k.pc \in {"retire", "observe", "verify"}
            \/ k.mode = "dispatch" /\ k.pc = "run" /\ k.gen = 0

LEMMA LightKnows ==
    ASSUME NEW k, Light(k), NEW d \in Document, NEW touched
    PROVE  /\ Knows(k, d) /\ Owns(k, d, touched) /\ ~Pending(k)
           /\ k.pc \notin Committing \cup {"check"}
<1>1. 0 <= d.gen
  BY DEF Document
<1> QED BY <1>1 DEF Light, Elsewhere, Knows, Owns, Pending, Committing

LEMMA IdleLight == Light(Idle) /\ ~Holds(Idle) /\ Idle.job \in Op
BY IdleControl DEF Idle, Light, Elsewhere, Holds, Control

LEMMA LightControl ==
    ASSUME IInv, NEW c \in Client
    PROVE  /\ Light(Recovered(c)) /\ ~Holds(Recovered(c)) /\ Recovered(c).job \in Op
           /\ Light(Ran(c)) /\ Ran(c).job \in Op
           /\ Light(Skipped(c)) /\ Skipped(c).job \in Op
           /\ Light(Finished(c)) /\ Finished(c).job \in Op
           /\ Holds(Finished(c)) => Holds(ctl[c])
           /\ \A todo, partial : Light(Run(todo, partial)) /\ Run(todo, partial).job \in Op
<1>1. Idle.job \in Op
  BY IdleLight
<1>2. /\ Light(Recovered(c)) /\ ~Holds(Recovered(c)) /\ Recovered(c).job \in Op
  BY <1>1 DEF Recovered, Pass, Idle, Light, Elsewhere, Holds
<1>3. \A todo, partial : Light(Run(todo, partial)) /\ Run(todo, partial).job \in Op
  BY <1>1 DEF Run, Idle, Light
<1> QED BY <1>2, <1>3 DEF Ran, Skipped, Finished, Holds

\* the chain gives up, or goes where it relies on nothing
LEMMA LeftPromise ==
    ASSUME Working, NEW c \in Client, NEW r, Light(r), Goto(c, r),
           UNCHANGED <<doc, world>>, Drop(c) \/ UNCHANGED <<view, snap>>,
           Holds(r) => Holds(ctl[c]) \/ LeaseFree(c),
           At(c, "await") => First(ctl[c].left) \notin inflight \ Lingering
    PROVE  Promise
<1>1. doc \in Document
  BY ClientFacts DEF Working
<1>2. /\ Knows(r, doc) /\ Owns(r, doc, Touched) /\ ~Pending(r)
      /\ r.pc \notin Committing \cup {"check"}
  BY <1>1, LightKnows
<1> QED BY <1>2, QuietPromise

LEMMA StopPromise ==
    ASSUME Working, NEW c \in Client, Stop(c),
           UNCHANGED <<doc, world>>, Drop(c) \/ UNCHANGED <<view, snap>>,
           At(c, "await") => First(ctl[c].left) \notin inflight \ Lingering
    PROVE  Promise
BY IdleLight, LeftPromise DEF Stop

\* the chain writes d, and goes where it relies on nothing
LEMMA LightWrite ==
    ASSUME Working, NEW c \in Client, ~At(c, "await"), NEW d \in Document, NEW r,
           Light(r), r.job \in Op, Save(c, d), Goto(c, r), UNCHANGED world,
           Holds(r) => Holds(ctl[c]) \/ LeaseFree(c),
           Evolves(doc, d, ctl[c]), Recorded(d, Touched), ContractStep
    PROVE  Promise
<1>1. /\ Knows(r, d) /\ Owns(r, d, Touched) /\ r.pc \notin Committing
  BY LightKnows
<1> QED BY <1>1, WritePromise

\* a chain that goes on with its job keeps what it knows of the commits
LEMMA CarriedKnows ==
    ASSUME NEW k, NEW d, Knows(k, d), NEW r,
           r.mode = k.mode, r.gen = k.gen, r.job = k.job,
           k.pc \notin {"run", "check", "cursor", "finalize"},
           r.pc \notin Committing,
           \/ r.pc \in {"observe", "verify", "retire", "record", "finalize"}
           \/ r.pc \in {"persist", "authorize", "guard", "await"} /\ k.mode = "dispatch"
           \/ r.pc \in {"mirror", "preflight", "recover"} /\ k.mode = "recover",
           r.pc = "record" /\ r.res = "refused" => k.mode = "dispatch"
    PROVE  Knows(r, d) /\ ~Pending(r)
BY DEF Knows, Pending, Committing
----------------------------------------------------------------------------
(* Planning *)

LEMMA LoadPromise == ASSUME Working, NEW c \in Client, Load(c) PROVE Promise
<1>1. /\ UNCHANGED <<doc, applied, inflight, ctl>>
      /\ view[c] = "none" /\ snap'[c] = doc
      /\ \A x \in Client \ {c} : view'[x] = view[x] /\ snap'[x] = snap[x]
  BY DEF Load, world, Working, IInv, TypeOK
<1>2. /\ Journal(doc) /\ Claims /\ Knows(ctl[c], doc) /\ Keeps(doc, doc)
      /\ doc.gen \in Nat
  BY <1>1 DEF Working, Good, SharedInv, IInv, TypeOK, Document
<1>3. Snapshot(ctl[c], doc, doc)
  BY <1>2 DEF Snapshot, Journal, Knows, Committing
<1>4. \A x \in Client : view'[x] # "none" => Snapshot(ctl'[x], snap'[x], doc')
  BY <1>1, <1>3 DEF Working, SharedInv
<1>5. Claims'
  <2>1. \A x \in Client, o \in Op, g \in Nat : Claim(x, o, g)' =>
           Claim(x, o, g) \/ (Fresh(doc, o) /\ doc.born[o] = g)
    BY <1>1 DEF Claim
  <2>2. \A x \in Client, o \in Op, g \in Nat :
           Claim(x, o, g) /\ Fresh(doc, o) => doc.born[o] = g
    BY <1>2 DEF Claims, Fresh
  <2>3. \A o \in Op : Fresh(doc, o) =>
           /\ o \in doc.intents /\ AllAt(doc, o, Verified)
           /\ doc.journal[o].by = "recovery" => doc.journal[o].gen = doc.born[o]
    BY <1>2 DEF Fresh, Journal, Committed, Unreferenced
  <2> SUFFICES ASSUME NEW x \in Client, NEW o \in Op, NEW g \in Nat, Claim(x, o, g)'
               PROVE  /\ o \in doc.intents /\ AllAt(doc, o, Verified)
                      /\ Complete(doc, o) \/ doc.born[o] = g
                      /\ doc.journal[o].by = "recovery" => doc.journal[o].gen = g
                      /\ \A y \in Client, h \in Nat : Claim(y, o, h)' => h = g
    BY <1>1 DEF Claims
  <2>4. CASE Claim(x, o, g)
    <3>1. /\ o \in doc.intents /\ AllAt(doc, o, Verified)
          /\ Complete(doc, o) \/ doc.born[o] = g
          /\ doc.journal[o].by = "recovery" => doc.journal[o].gen = g
          /\ \A y \in Client, h \in Nat : Claim(y, o, h) => h = g
      BY <1>2, <2>4 DEF Claims
    <3> QED BY <2>1, <2>2, <2>4, <3>1
  <2>5. CASE Fresh(doc, o) /\ doc.born[o] = g
    BY <2>1, <2>2, <2>3, <2>5
  <2> QED BY <2>1, <2>4, <2>5
<1>6. SharedInv'
  BY <1>1, <1>4, <1>5 DEF Working, SharedInv, Exclusive, Requests, Touched, At
<1> QED BY <1>1, <1>6, ContractStutters DEF Promise

LEMMA AssemblePromise ==
    ASSUME Working, NEW c \in Client, NEW again, AssembleRound(c, again),
           UNCHANGED <<doc, view, snap, world>>, ~At(c, "await")
    PROVE  Promise
<1>1. PICK label \in {"preflight", "learn"} :
         Goto(c, [Idle EXCEPT !.pc = label, !.again = again])
  BY DEF AssembleRound
<1>2. /\ Light([Idle EXCEPT !.pc = label, !.again = again])
      /\ ~Holds([Idle EXCEPT !.pc = label, !.again = again])
  BY DEF Idle, Light, Elsewhere, Holds
<1> QED BY <1>1, <1>2, LeftPromise

LEMMA BeginPlanningPromise ==
    ASSUME Working, NEW c \in Client, BeginPlanning(c) PROVE Promise
BY AssemblePromise DEF BeginPlanning, At

\* a write that only advances the generation
LEMMA AdvancePromise ==
    ASSUME Working, NEW c \in Client, ~At(c, "await"),
           Save(c, Advanced(snap[c])), NEW r, Goto(c, r), UNCHANGED world,
           r.job \in Op, Holds(r) => Holds(ctl[c]), Light(r)
    PROVE  Promise
<1>1. snap[c] = doc /\ doc \in Document
  BY ClientFacts DEF Working, Save
<1>2. /\ Advanced(doc) \in Document /\ Evolves(doc, Advanced(doc), ctl[c])
      /\ Advanced(doc).stage = doc.stage /\ StatusIn(Advanced(doc)) = StatusIn(doc)
  BY <1>1, AdvanceEvolves
<1>3. Recorded(Advanced(doc), Touched)
  BY <1>2 DEF Working, SharedInv, Recorded
<1>4. ContractStep
  BY <1>1, <1>2, SavedParts, ContractStutters DEF world
<1> QED BY <1>1, <1>2, <1>3, <1>4, LightWrite

LEMMA LearnPromise == ASSUME Working, NEW c \in Client, Learn(c) PROVE Promise
<1>1. /\ ctl[c].pc = "learn" /\ ctl[c] \in Control /\ UNCHANGED world /\ ~At(c, "await")
      /\ Knows(ctl[c], doc)
  BY ClientFacts DEF Learn, Holding, At, Working, SharedInv
<1>2. CASE Save(c, Advanced(snap[c])) /\ Goto(c, [ctl[c] EXCEPT !.pc = "mirror"])
  <2>1. /\ Light([ctl[c] EXCEPT !.pc = "mirror"])
        /\ ~Holds([ctl[c] EXCEPT !.pc = "mirror"])
        /\ [ctl[c] EXCEPT !.pc = "mirror"].job \in Op
    BY <1>1 DEF Control, Light, Elsewhere, Holds, Knows
  <2> QED BY <1>1, <1>2, <2>1, AdvancePromise
<1>3. CASE SaveRefused(c) /\ Stop(c)
  BY <1>1, <1>3, StopPromise DEF SaveRefused, NoWrite
<1> QED BY <1>2, <1>3 DEF Learn

LEMMA MirrorPromise == ASSUME Working, NEW c \in Client, Mirror(c) PROVE Promise
<1>1. /\ ctl[c].pc = "mirror" /\ ctl[c] \in Control /\ UNCHANGED world /\ ~At(c, "await")
      /\ Knows(ctl[c], doc)
  BY ClientFacts DEF Mirror, Holding, At, Working, SharedInv
<1>2. CASE Save(c, Advanced(snap[c])) /\ Goto(c, [ctl[c] EXCEPT !.pc = "preflight"])
  <2>1. /\ Light([ctl[c] EXCEPT !.pc = "preflight"])
        /\ ~Holds([ctl[c] EXCEPT !.pc = "preflight"])
        /\ [ctl[c] EXCEPT !.pc = "preflight"].job \in Op
    BY <1>1 DEF Control, Light, Elsewhere, Holds, Knows
  <2> QED BY <1>1, <1>2, <2>1, AdvancePromise
<1>3. CASE SaveRefused(c) /\ Stop(c)
  BY <1>1, <1>3, StopPromise DEF SaveRefused, NoWrite
<1>4. CASE SaveRefused(c) /\ UNCHANGED ctl
  <2>1. Light(ctl[c]) /\ ~Holds(ctl[c])
    BY <1>1 DEF Light, Elsewhere, Holds, Knows
  <2>2. Goto(c, ctl[c])
    BY <1>4 DEF Goto, Working, IInv, TypeOK
  <2> QED BY <1>1, <1>4, <2>1, <2>2, LeftPromise DEF SaveRefused, NoWrite
<1> QED BY <1>2, <1>3, <1>4 DEF Mirror

LEMMA PreflightPromise == ASSUME Working, NEW c \in Client, Preflight(c) PROVE Promise
<1>1. /\ ctl[c].pc = "preflight" /\ ctl[c] \in Control /\ UNCHANGED <<doc, world>>
      /\ ~At(c, "await") /\ Drop(c) /\ Knows(ctl[c], doc)
  BY ClientFacts DEF Preflight, NoWrite, Holding, At, Working, SharedInv
<1>2. ASSUME NEW todo, NEW plan,
             Goto(c, [ctl[c] EXCEPT !.pc = "recover", !.todo = todo, !.plan = plan])
      PROVE  Promise
  <2>1. /\ Light([ctl[c] EXCEPT !.pc = "recover", !.todo = todo, !.plan = plan])
        /\ ~Holds([ctl[c] EXCEPT !.pc = "recover", !.todo = todo, !.plan = plan])
    BY <1>1 DEF Control, Light, Elsewhere, Holds, Knows
  <2> QED BY <1>1, <1>2, <2>1, LeftPromise
<1>3. CASE Stop(c)
  BY <1>1, <1>3, StopPromise
<1> QED BY <1>2, <1>3 DEF Preflight

LEMMA SelectIntentPromise ==
    ASSUME Working, NEW c \in Client, NEW o \in Op, SelectIntent(c, o) PROVE Promise
<1> DEFINE d == snap[c]
           left == {e \in OwnEffects(o) : d.stage[e] \in Unresolved}
           label == IF Unattempted(d, o) THEN "retire"
                    ELSE IF left = {} THEN "verify" ELSE "observe"
           r == [[ctl[c] EXCEPT !.job = o, !.left = left] EXCEPT !.pc = label]
           s == [ctl[c] EXCEPT !.todo = @ \ {o}]
<1>1. /\ Drop(c) /\ UNCHANGED <<doc, world>> /\ ctl[c].pc = "recover"
      /\ ctl[c] \in Control /\ ~At(c, "await") /\ Knows(ctl[c], doc)
  BY ClientFacts DEF SelectIntent, NoWrite, Holding, At, Working, SharedInv
<1>2. ctl[c].mode = "recover"
  BY <1>1 DEF Knows
<1>3. CASE Goto(c, s)
  <2>1. Light(s) /\ ~Holds(s)
    BY <1>1, <1>2 DEF Control, Light, Elsewhere, Holds
  <2> HIDE DEF s
  <2> QED BY <1>1, <1>3, <2>1, LeftPromise
<1>4. CASE Stop(c)
  BY <1>1, <1>4, StopPromise
<1>5. CASE Goto(c, r)
  <2>1. r.mode = "recover" /\ r.pc = label
    BY <1>1, <1>2 DEF Control
  <2> HIDE DEF r
  <2>2. Light(r) /\ ~Holds(r)
    BY <2>1 DEF Light, Elsewhere, Holds
  <2> QED BY <1>1, <1>5, <2>2, LeftPromise
<1> QED BY <1>3, <1>4, <1>5 DEF SelectIntent

\* removing an intent none of whose effects was sent is what the contract drops
LEMMA RetirePromise ==
    ASSUME Working, NEW c \in Client, ~At(c, "await"), NEW o \in Op,
           o \in doc.intents, \A e \in OwnEffects(o) : doc.stage[e] \notin Verified,
           o \in Sure => OwnEffects(o) \cap Touched = {},
           \/ ctl[c].mode = "dispatch"
           \/ \A e \in OwnEffects(o) \cap SureEffect : doc.stage[e] = "intent-persisted",
           Save(c, WithoutIntent(doc, o)), NEW r, Goto(c, r),
           Light(r), r.job \in Op, Holds(r) => Holds(ctl[c]), UNCHANGED world
    PROVE  Promise
<1> DEFINE d == WithoutIntent(doc, o)
<1>1. doc \in Document /\ Recorded(doc, Touched) /\ Journal(doc)
  BY ClientFacts DEF Working, SharedInv
<1>2. /\ d \in Document /\ d.intents = doc.intents \ {o} /\ d.journal = doc.journal
      /\ \A x \in Effect : d.stage[x] =
            IF x[1] = o THEN "intent-persisted" ELSE doc.stage[x]
  BY <1>1, WithoutIntentDocument
<1>3. ~Complete(doc, o) /\ ~Committed(doc, o)
  BY <1>1, HasEffect DEF Complete, AllAt, Verified, Journal
<1>4. Evolves(doc, d, ctl[c])
  BY <1>1, RetireEvolves
<1>5. Save(c, d)
  OBVIOUS
<1> HIDE DEF d
<1>6. Recorded(d, Touched)
  BY <1>1, <1>2 DEF Recorded, SureEffect, OwnEffects
<1>7. StatusIn(doc') = [StatusIn(doc) EXCEPT ![o] = "unopened"]
  <2>1. ~Complete(d, o) /\ ~Committed(d, o)
    BY <1>2, <1>3 DEF Complete, Committed
  <2>2. \A x \in Op \ {o} : /\ Complete(d, x) <=> Complete(doc, x)
                            /\ Committed(d, x) <=> Committed(doc, x)
    BY <1>2 DEF Complete, Committed, AllAt, OwnEffects
  <2>3. StatusIn(d) = [StatusIn(doc) EXCEPT ![o] = "unopened"]
    BY <1>2, <2>1, <2>2 DEF StatusIn, Sure
  <2> QED BY <1>2, <1>5, <2>3, SavedParts
<1>8. o \in Sure => StatusIn(doc)[o] = "open" /\ OwnEffects(o) \cap applied = {}
  BY <1>3 DEF StatusIn, Touched
<1>9. ContractStep
  BY <1>7, <1>8, ContractMoves DEF world
<1> QED BY <1>2, <1>4, <1>5, <1>6, <1>9, LightWrite

LEMMA RetireUnattemptedPromise ==
    ASSUME Working, NEW c \in Client, RetireUnattempted(c) PROVE Promise
<1> DEFINE o == ctl[c].job
<1>1. /\ o \in Op /\ ctl[c].pc = "retire" /\ UNCHANGED world /\ ~At(c, "await")
      /\ Recorded(doc, Touched)
  BY ClientFacts DEF RetireUnattempted, Holding, At, Control, Working, SharedInv
<1>2. CASE NoWrite(c) /\ Stop(c)
  BY <1>1, <1>2, StopPromise DEF NoWrite
<1>3. CASE /\ o \in snap[c].intents /\ Unattempted(snap[c], o)
           /\ Save(c, WithoutIntent(snap[c], o))
           /\ Goto(c, Recovered(c)) \/ Stop(c)
  <2>1. snap[c] = doc
    BY <1>3, ClientFacts DEF Save, Working
  <2>2. /\ \A e \in OwnEffects(o) : doc.stage[e] = "intent-persisted"
        /\ \A e \in OwnEffects(o) : doc.stage[e] \notin Verified
    BY <1>3, <2>1 DEF Unattempted, AllAt, Verified
  <2>3. o \in Sure => OwnEffects(o) \cap Touched = {}
    BY <1>1, <2>2 DEF Recorded, OwnEffects, SureEffect
  <2>4. PICK r \in {Recovered(c), Idle} : Goto(c, r)
    BY <1>3 DEF Stop
  <2>5. Light(r) /\ ~Holds(r) /\ r.job \in Op
    BY <2>4, IdleLight, LightControl DEF Working
  <2> QED BY <1>1, <1>3, <2>1, <2>2, <2>3, <2>4, <2>5, RetirePromise
<1> QED BY <1>1, <1>2, <1>3 DEF RetireUnattempted, SaveRefused

\* an answer is taken to where it is recorded
LEMMA SeenPromise ==
    ASSUME Working, NEW c \in Client, ctl[c].pc \in {"observe", "guard", "await"},
           NEW outcome,
           Goto(c, [ctl[c] EXCEPT !.pc = "record", !.res = outcome]),
           outcome = "refused" => ctl[c].mode = "dispatch",
           outcome \in Absent /\ ctl[c].job \in Sure =>
               ctl[c].mode = "dispatch" /\ First(ctl[c].left) \notin Touched,
           At(c, "await") => First(ctl[c].left) \notin inflight \ Lingering,
           UNCHANGED <<doc, view, snap, world>>
    PROVE  Promise
<1> DEFINE r == [ctl[c] EXCEPT !.pc = "record", !.res = outcome]
<1>1. ctl[c] \in Control /\ Knows(ctl[c], doc)
  BY ClientFacts DEF Working, SharedInv
<1>2. /\ r.pc = "record" /\ r.res = outcome /\ r.left = ctl[c].left
      /\ r.job = ctl[c].job /\ r.mode = ctl[c].mode /\ r.gen = ctl[c].gen
  BY <1>1 DEF Control
<1>3. Goto(c, r)
  OBVIOUS
<1> HIDE DEF r
<1>4. r.pc \notin Committing \cup {"check"}
  BY <1>2 DEF Committing
<1>5. Knows(r, doc) /\ ~Pending(r)
  BY <1>1, <1>2, <1>4, CarriedKnows
<1>6. Owns(r, doc, Touched)
  BY <1>2 DEF Owns
<1>7. Holds(r) => Holds(ctl[c])
  BY <1>2 DEF Holds
<1> QED BY <1>3, <1>4, <1>5, <1>6, <1>7, QuietPromise

LEMMA ObservePromise == ASSUME Working, NEW c \in Client, Observe(c) PROVE Promise
<1> DEFINE e == First(ctl[c].left)
<1>1. /\ ctl[c].pc = "observe" /\ UNCHANGED <<doc, view, snap, world>>
      /\ e \in OwnEffects(ctl[c].job)
  BY InHand DEF Observe, At, Working
<1>2. PICK outcome \in {"verified-effect", "verified-not-applied", "outcome-unknown"} :
        /\ Goto(c, [ctl[c] EXCEPT !.pc = "record", !.res = outcome])
        /\ outcome = "verified-not-applied" => e \in Provable
  BY DEF Observe
<1>3. outcome \in Absent => ctl[c].job \notin Sure
  BY <1>1, <1>2 DEF Absent, Sure
<1> QED BY <1>1, <1>2, <1>3, SeenPromise DEF At

LEMMA RecordPromise == ASSUME Working, NEW c \in Client, Record(c) PROVE Promise
<1> DEFINE o == ctl[c].job
           e == First(ctl[c].left)
           r == NextEffect(c, e)
<1>1. /\ ctl[c].pc = "record" /\ ~At(c, "await") /\ UNCHANGED world
      /\ Knows(ctl[c], doc) /\ Owns(ctl[c], doc, Touched)
      /\ Recorded(doc, Touched) /\ Journal(doc) /\ doc \in Document
  BY ClientFacts DEF Record, Holding, At, Working, SharedInv
<1>2. /\ ctl[c] \in Control /\ o \in Op
      /\ e \in Effect /\ e \in OwnEffects(o) /\ e[1] = o
  BY <1>1, InHand DEF Working
<1>3. /\ r.pc \in {"verify", "observe"} \/ (r.pc = "authorize" /\ ctl[c].mode = "dispatch")
      /\ r.job = o /\ r.mode = ctl[c].mode /\ r.gen = ctl[c].gen
  BY <1>2 DEF NextEffect, Control
<1> HIDE DEF r
<1>4. /\ r.pc \notin Committing \cup {"check"} /\ (Holds(r) => Holds(ctl[c]))
      /\ \A d, touched : Owns(r, d, touched)
  BY <1>3 DEF Committing, Holds, Owns
<1>5. ASSUME NEW d, Knows(ctl[c], d) PROVE Knows(r, d) /\ ~Pending(r)
  BY <1>1, <1>3, <1>4, <1>5, CarriedKnows
<1> DEFINE Free(k) == Light(k) /\ k.job \in Op /\ (Holds(k) => Holds(ctl[c]))
<1>6. /\ Free(Idle) /\ Free(Recovered(c))
      /\ ctl[c].res = "refused" => Free(Skipped(c))
  BY <1>1, IdleLight, LightControl DEF Knows, Holds, Working
<1>7. \E k : Goto(c, k) /\ (Free(k) \/ k = r)
  <2>1. \/ Goto(c, Idle) \/ Goto(c, Recovered(c)) \/ Goto(c, NextEffect(c, e))
        \/ ctl[c].res = "refused" /\ Goto(c, Skipped(c))
    BY DEF Record, Stop
  <2> QED BY <1>6, <2>1 DEF r
<1>8. PICK k : Goto(c, k) /\ (Free(k) \/ k = r)
  BY <1>7
<1>9. CASE NoWrite(c)
  <2>1. CASE Free(k)
    BY <1>1, <1>8, <1>9, <2>1, LeftPromise DEF NoWrite
  <2>2. CASE k = r
    BY <1>1, <1>4, <1>5, <1>8, <1>9, <2>2, QuietPromise DEF NoWrite
  <2> QED BY <1>8, <2>1, <2>2
<1>10. ASSUME NEW s \in {"effect-verified", "outcome-unknown"},
              Recordable(snap[c], o, e), Save(c, WithStage(snap[c], e, s))
       PROVE  Promise
  <2> DEFINE d == WithStage(doc, e, s)
  <2>1. snap[c] = doc
    BY <1>10, ClientFacts DEF Save, Working
  <2>2. /\ doc.stage[e] # "state-committed" /\ s \in Stage
        /\ s # "intent-persisted" /\ s # "state-committed"
    BY <1>10, <2>1 DEF Recordable, Unresolved, Stage
  <2>3. /\ d \in Document /\ Evolves(doc, d, ctl[c]) /\ Recorded(d, Touched)
        /\ StatusIn(d) = StatusIn(doc)
    BY <1>1, <1>2, <2>2, WithStageDocument, StageEvolves, StagedStatus
  <2>4. Save(c, d)
    BY <1>10, <2>1
  <2> HIDE DEF d
  <2>5. Keeps(doc, d) /\ ContractStep
    BY <1>1, <2>3, <2>4, SavedParts, ContractStutters DEF world
  <2>6. Knows(ctl[c], d)
    BY <2>3, <2>5, KnowsStays
  <2>7. CASE Free(k)
    BY <1>1, <1>8, <2>3, <2>4, <2>5, <2>7, LightWrite
  <2>8. CASE k = r
    BY <1>1, <1>2, <1>3, <1>4, <1>5, <1>8, <2>3, <2>4, <2>5, <2>6, <2>8, WritePromise
  <2> QED BY <1>8, <2>7, <2>8
<1>11. CASE /\ Recordable(snap[c], o, e) /\ Alone(snap[c], o, e)
            /\ ctl[c].res \in Absent
            /\ Save(c, WithoutIntent(snap[c], o))
            /\ IF ctl[c].mode = "recover" THEN Goto(c, Recovered(c))
               ELSE IF ctl[c].res = "refused" THEN Goto(c, Skipped(c)) ELSE Stop(c)
  <2>1. snap[c] = doc
    BY <1>11, ClientFacts DEF Save, Working
  <2>2. /\ o \in doc.intents /\ doc.stage[e] \in Unresolved
        /\ \A x \in OwnEffects(o) \ {e} : doc.stage[x] = "intent-persisted"
    BY <1>11, <2>1 DEF Recordable, Alone
  <2>3. \A x \in OwnEffects(o) : doc.stage[x] \notin Verified
    BY <2>2 DEF Unresolved, Verified
  <2>4. o \in Sure => ctl[c].mode = "dispatch" /\ OwnEffects(o) \cap Touched = {}
    BY <1>1, <1>11, <2>2 DEF Owns, Recorded, SureEffect, OwnEffects
  <2>5. o \notin Sure => OwnEffects(o) \cap SureEffect = {}
    BY DEF SureEffect, OwnEffects
  <2>6. PICK l : Goto(c, l) /\ Free(l)
    BY <1>6, <1>11 DEF Stop
  <2> QED BY <1>1, <1>2, <1>11, <2>1, <2>2, <2>3, <2>4, <2>5, <2>6, RetirePromise
<1> QED BY <1>9, <1>10, <1>11 DEF Record, SaveRefused, Absent

LEMMA VerifyPromise == ASSUME Working, NEW c \in Client, Verify(c) PROVE Promise
<1> DEFINE o == ctl[c].job
           d == snap[c]
           ref == IF ctl[c].mode = "dispatch" THEN [by |-> "receipt", gen |-> 0]
                                   ELSE [by |-> "recovery", gen |-> d.born[o]]
           res == IF AllAt(d, o, {"effect-verified"}) THEN "verified-effect"
                                                      ELSE "state-committed"
           r == [ctl[c] EXCEPT !.pc = "canonical", !.res = res, !.ref = ref]
<1>1. /\ ctl[c].pc = "verify" /\ ~At(c, "await") /\ Drop(c) /\ UNCHANGED <<doc, world>>
      /\ view[c] # "none" /\ Knows(ctl[c], doc) /\ ctl[c] \in Control /\ o \in Op
      /\ Snapshot(ctl[c], d, doc) /\ d \in Document
  BY ClientFacts DEF Verify, NoWrite, Holding, At, Working, SharedInv, Control
<1>2. CASE Stop(c)
  BY <1>1, <1>2, StopPromise
<1>3. CASE /\ Goto(c, r) /\ o \in d.intents /\ AllAt(d, o, Verified)
           /\ ctl[c].mode = "dispatch" => AllAt(d, o, {"effect-verified"})
  <2>1. /\ o \in doc.intents /\ AllAt(doc, o, Verified)
        /\ SomeAt(d, o, {"state-committed"}) => SomeAt(doc, o, {"state-committed"})
    BY <1>1, <1>3, KeepsAll DEF Snapshot
  <2>2. res = "verified-effect" \/ SomeAt(d, o, {"state-committed"})
    BY <1>3 DEF AllAt, SomeAt, Verified
  <2>3. res = "verified-effect" => Fresh(d, o)
    BY <1>1, <1>3, HasEffect DEF Fresh, Complete, AllAt
  <2>4. /\ r.pc = "canonical" /\ r.job = o /\ r.mode = ctl[c].mode
        /\ r.gen = ctl[c].gen /\ r.res = res /\ r.ref = ref
    BY <1>1 DEF Control
  <2>5. /\ ref.by = IF ctl[c].mode = "dispatch" THEN "receipt" ELSE "recovery"
        /\ ref.by = "recovery" => ref.gen = d.born[o]
    OBVIOUS
  <2> HIDE DEF r, res, ref
  <2>6. Knows(r, doc)
    BY <1>1, <2>1, <2>2, <2>4, <2>5 DEF Knows, Committing
  <2>7. Pending(r) => Claim(c, r.job, r.ref.gen)
    BY <1>1, <2>3, <2>4, <2>5 DEF Pending, Claim
  <2>8. Owns(r, doc, Touched) /\ (Holds(r) => Holds(ctl[c]))
    BY <2>4 DEF Owns, Holds
  <2> QED BY <1>1, <1>3, <2>6, <2>7, <2>8, QuietPromise
<1>4. AllAt(d, o, {"effect-verified"}) => AllAt(d, o, Verified)
  BY DEF AllAt, Verified
<1> QED BY <1>2, <1>3, <1>4 DEF Verify

\* what the chain holds on its way to the commit it still holds one step on
LEMMA OnwardPromise ==
    ASSUME Working, NEW c \in Client, ctl[c].pc \in {"canonical", "ready"},
           Drop(c), UNCHANGED <<doc, world>>, NEW r, Goto(c, r),
           r.job = ctl[c].job, r.mode = ctl[c].mode, r.res = ctl[c].res,
           r.ref = ctl[c].ref, r.gen = ctl[c].gen \/ r.mode = "recover",
           r.pc = "ready" \/ (r.pc = "commit" /\ r.res = "verified-effect")
    PROVE  Promise
<1>1. Knows(ctl[c], doc) /\ ~At(c, "await")
  BY DEF Working, SharedInv, At
<1>2. Knows(r, doc) /\ Owns(r, doc, Touched) /\ (Holds(r) => Holds(ctl[c]))
  BY <1>1 DEF Knows, Owns, Holds, Committing
<1>3. Pending(r) => Claim(c, r.job, r.ref.gen)
  BY PendingClaims DEF Pending, Committing
<1> QED BY <1>1, <1>2, <1>3, QuietPromise

\* the commit is behind the chain
LEMMA BehindPromise ==
    ASSUME Working, NEW c \in Client, ctl[c].pc = "canonical",
           Drop(c), UNCHANGED <<doc, world>>,
           Goto(c, [ctl[c] EXCEPT !.pc = "finalize"])
    PROVE  Promise
<1> DEFINE r == [ctl[c] EXCEPT !.pc = "finalize"]
<1>1. /\ ctl[c] \in Control /\ Knows(ctl[c], doc) /\ ~At(c, "await") /\ Goto(c, r)
  BY ClientFacts DEF Working, SharedInv, At
<1>2. /\ r.pc = "finalize" /\ r.job = ctl[c].job /\ r.mode = ctl[c].mode
      /\ r.gen = ctl[c].gen
  BY <1>1 DEF Control
<1> HIDE DEF r
<1>3. Knows(r, doc) /\ ~Pending(r)
  BY <1>1, <1>2, CarriedKnows DEF Committing
<1>4. Owns(r, doc, Touched) /\ (Holds(r) => Holds(ctl[c]))
  BY <1>2 DEF Owns, Holds
<1> QED BY <1>1, <1>3, <1>4, QuietPromise

LEMMA CanonicalPromise == ASSUME Working, NEW c \in Client, Canonical(c) PROVE Promise
<1> DEFINE g == snap[c].gen
           w == [ctl[c] EXCEPT !.pc = "commit", !.gen = g]
           r == [ctl[c] EXCEPT !.pc = "ready"]
<1>1. /\ ctl[c].pc = "canonical" /\ ctl[c] \in Control /\ ~At(c, "await")
      /\ Drop(c) /\ UNCHANGED <<doc, world>>
  BY ClientFacts DEF Canonical, NoWrite, Holding, At, Working
<1>2. CASE Stop(c)
  BY <1>1, <1>2, StopPromise
<1>3. CASE Goto(c, [ctl[c] EXCEPT !.pc = "finalize"])
  BY <1>1, <1>3, BehindPromise
<1>4. CASE Goto(c, r)
  <2>1. /\ r.pc = "ready" /\ r.job = ctl[c].job /\ r.mode = ctl[c].mode
        /\ r.res = ctl[c].res /\ r.ref = ctl[c].ref /\ r.gen = ctl[c].gen
    BY <1>1 DEF Control
  <2> HIDE DEF r
  <2> QED BY <1>1, <1>4, <2>1, OnwardPromise
<1>5. CASE Goto(c, w) /\ ctl[c].mode = "recover" /\ ctl[c].res = "verified-effect"
  <2>1. /\ w.pc = "commit" /\ w.job = ctl[c].job /\ w.mode = ctl[c].mode
        /\ w.res = ctl[c].res /\ w.ref = ctl[c].ref
    BY <1>1 DEF Control
  <2> HIDE DEF w
  <2> QED BY <1>1, <1>5, <2>1, OnwardPromise
<1> QED BY <1>2, <1>3, <1>4, <1>5 DEF Canonical

LEMMA ReadyPromise == ASSUME Working, NEW c \in Client, Ready(c) PROVE Promise
<1> DEFINE r == [ctl[c] EXCEPT !.pc = "commit"]
<1>1. /\ ctl[c].pc = "ready" /\ ctl[c] \in Control /\ ~At(c, "await")
      /\ Drop(c) /\ UNCHANGED <<doc, world>> /\ Snapshot(ctl[c], snap[c], doc)
  BY ClientFacts DEF Ready, NoWrite, Holding, At, Working, SharedInv
<1>2. CASE Stop(c)
  BY <1>1, <1>2, StopPromise
<1>3. CASE Goto(c, r) /\ CommitReady(snap[c], ctl[c].job)
  <2>1. ctl[c].res = "verified-effect"
    BY <1>1, <1>3 DEF Snapshot, Committing, CommitReady, AllAt, SomeAt
  <2>2. /\ r.pc = "commit" /\ r.job = ctl[c].job /\ r.mode = ctl[c].mode
        /\ r.res = ctl[c].res /\ r.ref = ctl[c].ref /\ r.gen = ctl[c].gen
    BY <1>1 DEF Control
  <2> HIDE DEF r
  <2> QED BY <1>1, <1>3, <2>1, <2>2, OnwardPromise
<1> QED BY <1>2, <1>3 DEF Ready

LEMMA CommitPromise == ASSUME Working, NEW c \in Client, Commit(c) PROVE Promise
<1> DEFINE o == ctl[c].job
           ref == ctl[c].ref
           j == Journaled(doc, o, ref)
           r == [ctl[c] EXCEPT !.pc = "finalize"]
<1>1. /\ ctl[c].pc = "commit" /\ ctl[c] \in Control /\ o \in Op /\ ref \in Reference
      /\ doc \in Document /\ UNCHANGED world /\ ~At(c, "await")
      /\ ctl[c].mode \in {"recover", "matching", "dispatch"}
  BY ClientFacts DEF Commit, Holding, At, Working, Control
<1>2. /\ o \in doc.intents /\ AllAt(doc, o, Verified) /\ ctl[c].res = "verified-effect"
      /\ ref.by = IF ctl[c].mode = "dispatch" THEN "receipt" ELSE "recovery"
      /\ ctl[c].mode = "dispatch" /\ Committed(doc, o) => ctl[c].gen < doc.gen
  BY <1>1 DEF Working, SharedInv, Knows, Committing
<1>3. Recorded(doc, Touched) /\ Journal(doc) /\ Claims
  BY DEF Working, SharedInv
<1>4. OwnEffects(o) \subseteq applied /\ ref # Unreferenced
  BY <1>1, ClientFacts DEF Working, Remembers
<1>5. CASE (NoWrite(c) \/ SaveRefused(c)) /\ Stop(c)
  BY <1>1, <1>5, StopPromise DEF NoWrite, SaveRefused
<1>6. ASSUME NEW d \in {j, Advanced(j)}, Save(c, d), Goto(c, r), doc.gen = ctl[c].gen,
             d = j => Committed(doc, o)
      PROVE  Promise
  <2>1. /\ j \in Document /\ j.stage = doc.stage /\ j.intents = doc.intents
        /\ j.born = doc.born /\ j.gen = doc.gen /\ j.journal[o] = ref
        /\ \A x \in Op \ {o} : j.journal[x] = doc.journal[x]
    BY <1>1, JournaledDocument DEF Journaled
  <2>2. /\ Advanced(j) \in Document /\ Advanced(j).stage = j.stage
        /\ Advanced(j).intents = j.intents /\ Advanced(j).born = j.born
        /\ Advanced(j).gen = j.gen + 1 /\ Advanced(j).journal = j.journal
    BY <2>1, AdvancedDocument DEF Advanced
  <2>3. doc.gen \in Nat
    BY <1>1 DEF Document
  <2>4. /\ d \in Document /\ d.stage = doc.stage /\ d.intents = doc.intents
        /\ d.born = doc.born /\ d.journal[o] = ref
        /\ \A x \in Op \ {o} : d.journal[x] = doc.journal[x]
        /\ doc.gen <= d.gen /\ (Committed(doc, o) \/ doc.gen < d.gen)
    BY <1>6, <2>1, <2>2, <2>3
  <2>5. /\ r.pc = "finalize" /\ r.job = o /\ r.mode = ctl[c].mode /\ r.gen = ctl[c].gen
    BY <1>1 DEF Control
  <2> HIDE DEF j, r
  <2>6. Committed(doc, o) =>
           \/ doc.journal[o] = ref
           \/ doc.journal[o].by = "receipt" /\ ref.by = "recovery"
    <3> SUFFICES ASSUME Committed(doc, o)
                 PROVE  \/ doc.journal[o] = ref
                        \/ doc.journal[o].by = "receipt" /\ ref.by = "recovery"
      OBVIOUS
    <3>1. ref.by = "recovery"
      BY <1>1, <1>2, <1>6, <2>3
    <3>2. doc.journal[o].by = "recovery" => doc.journal[o].gen = ref.gen
      <4>1. Pending(ctl[c])
        BY <1>1, <1>2, <3>1 DEF Pending, Committing
      <4> QED BY <1>1, <1>3, <4>1, PendingClaims DEF Claims
    <3>3. doc.journal[o] \in Reference /\ doc.journal[o].by \in {"receipt", "recovery"}
      BY <1>1, <1>3 DEF Journal, Document
    <3> QED BY <1>1, <3>1, <3>2, <3>3 DEF Reference
  <2>7. Evolves(doc, d, ctl[c])
    BY <1>1, <2>4, <2>6 DEF Evolves
  <2>8. Recorded(d, Touched)
    BY <1>3, <2>4 DEF Recorded
  <2>9. ContractStep
    <3>1. \A x \in Op : Complete(d, x) <=> Complete(doc, x)
      BY <2>4 DEF Complete, AllAt
    <3>2. Committed(d, o) /\ \A x \in Op \ {o} : Committed(d, x) <=> Committed(doc, x)
      BY <1>4, <2>4 DEF Committed
    <3>3. CASE Committed(doc, o)
      <4>1. StatusIn(d) = StatusIn(doc)
        BY <2>4, <3>1, <3>2, <3>3 DEF StatusIn, Sure
      <4> QED BY <1>1, <1>6, <2>4, <4>1, SavedParts, ContractStutters DEF world
    <3>4. CASE ~Committed(doc, o)
      <4>1. ~Complete(doc, o)
        BY <1>1, <3>4, HasEffect
        DEF Working, IInv, Sound, Complete, Committed, AllAt, OwnEffects
      <4>2. o \in Sure => StatusIn(doc)[o] = "open"
        BY <1>2, <3>4, <4>1 DEF StatusIn
      <4>3. StatusIn(d) = [StatusIn(doc) EXCEPT ![o] = "committed"]
        BY <2>4, <3>1, <3>2, <4>1 DEF StatusIn, Sure
      <4> QED BY <1>1, <1>4, <1>6, <2>4, <4>2, <4>3, SavedParts, ContractMoves DEF world
    <3> QED BY <3>3, <3>4
  <2>10. Knows(ctl[c], d)
    BY <1>6, <2>4, <2>7, SavedParts, KnowsStays
  <2>11. Knows(r, d) /\ r.pc \notin Committing
    BY <1>1, <2>5, <2>10, CarriedKnows DEF Committing
  <2>12. Owns(r, d, Touched) /\ (Holds(r) => Holds(ctl[c]))
    BY <2>5 DEF Owns, Holds
  <2> QED BY <1>1, <1>6, <2>4, <2>5, <2>7, <2>8, <2>9, <2>11, <2>12, WritePromise
<1>7. ASSUME NEW d, Save(c, d) PROVE snap[c] = doc
  BY <1>7, ClientFacts DEF Save, Working
<1>8. CASE /\ snap[c].gen = ctl[c].gen
           /\ \/ Save(c, Advanced(Journaled(snap[c], o, ref)))
              \/ Committed(snap[c], o) /\ Save(c, Journaled(snap[c], o, ref))
           /\ Goto(c, r)
  <2>1. snap[c] = doc
    BY <1>7, <1>8
  <2> HIDE DEF r
  <2>2. CASE Save(c, Advanced(Journaled(snap[c], o, ref)))
    <3>1. CASE j = Advanced(j) /\ ~Committed(doc, o)
      <4>1. j.gen \in Nat /\ Advanced(j).gen = j.gen + 1
        BY <1>1, JournaledDocument DEF Advanced, Document
      <4> QED BY <3>1, <4>1
    <3> QED BY <1>6, <1>8, <2>1, <2>2, <3>1
  <2>3. CASE Committed(snap[c], o) /\ Save(c, Journaled(snap[c], o, ref))
    BY <1>6, <1>8, <2>1, <2>3
  <2> QED BY <1>8, <2>2, <2>3
<1> QED BY <1>5, <1>8 DEF Commit

LEMMA FinalizePromise == ASSUME Working, NEW c \in Client, Finalize(c) PROVE Promise
<1> DEFINE o == ctl[c].job
           rest == {x \in OwnEffects(o) : snap[c].stage[x] # "state-committed"}
           e == First(rest)
           d == WithStage(doc, e, "state-committed")
<1>1. /\ ctl[c].pc = "finalize" /\ ctl[c] \in Control /\ o \in Op
      /\ doc \in Document /\ UNCHANGED world /\ ~At(c, "await")
      /\ Recorded(doc, Touched)
  BY ClientFacts DEF Finalize, Holding, At, Working, Control, SharedInv
<1>2. CASE (NoWrite(c) \/ SaveRefused(c)) /\ Stop(c)
  BY <1>1, <1>2, StopPromise DEF NoWrite, SaveRefused
<1>3. CASE NoWrite(c) /\ Goto(c, Finished(c))
  BY <1>1, <1>3, LightControl, LeftPromise DEF NoWrite, Working
<1>4. CASE /\ o \in snap[c].intents /\ rest # {} /\ snap[c].stage[e] = "effect-verified"
           /\ Save(c, WithStage(snap[c], e, "state-committed")) /\ UNCHANGED ctl
  <2>1. snap[c] = doc
    BY <1>4, ClientFacts DEF Save, Working
  <2>2. e \in Effect /\ e \in OwnEffects(o) /\ e[1] = o
    <3>1. rest \subseteq Effect /\ e \in rest
      BY <1>4, FirstIn DEF OwnEffects
    <3> QED BY <3>1 DEF OwnEffects
  <2>3. doc.journal[o] # Unreferenced
    BY <1>1, ClientFacts DEF Working, Remembers
  <2>4. "state-committed" \in Stage
    BY DEF Stage
  <2>5. Save(c, d) /\ doc.stage[e] = "effect-verified" /\ o \in doc.intents
    BY <1>4, <2>1
  <2>6. Goto(c, ctl[c])
    BY <1>4 DEF Goto, Working, IInv, TypeOK
  <2> HIDE DEF e
  <2>7. /\ d \in Document /\ d.intents = doc.intents /\ d.journal = doc.journal
        /\ \A x \in Effect \ {e} : d.stage[x] = doc.stage[x]
        /\ Evolves(doc, d, ctl[c]) /\ Recorded(d, Touched)
    BY <1>1, <2>2, <2>4, WithStageDocument, StageEvolves
  <2> HIDE DEF d
  <2>8. ~Complete(doc, o) /\ Committed(doc, o) /\ Committed(d, o)
    BY <2>2, <2>3, <2>5, <2>7 DEF Complete, AllAt, Committed
  <2>9. \A x \in Op \ {o} : /\ Complete(d, x) <=> Complete(doc, x)
                            /\ Committed(d, x) <=> Committed(doc, x)
    BY <2>2, <2>7 DEF Complete, AllAt, OwnEffects, Committed
  <2>10. o \in Sure => StatusIn(doc)[o] = "committed"
    BY <2>8 DEF StatusIn
  <2>11. StatusIn(d) = IF Complete(d, o) THEN [StatusIn(doc) EXCEPT ![o] = "closed"]
                                         ELSE StatusIn(doc)
    BY <2>7, <2>8, <2>9 DEF StatusIn, Sure
  <2>12. Keeps(doc, d) /\ StatusIn(doc') = StatusIn(d)
    BY <2>5, <2>7, SavedParts
  <2>13. ContractStep
    BY <1>1, <2>10, <2>11, <2>12, ContractMoves, ContractStutters DEF world
  <2>14. Knows(ctl[c], d)
    BY <2>7, <2>12, KnowsStays
  <2>15. Owns(ctl[c], d, Touched) /\ ctl[c].pc \notin Committing
    BY <1>1 DEF Owns, Committing
  <2> QED BY <1>1, <2>5, <2>6, <2>7, <2>13, <2>14, <2>15, WritePromise
<1> QED BY <1>2, <1>3, <1>4 DEF Finalize

LEMMA EndPlanningPromise ==
    ASSUME Working, NEW c \in Client, EndPlanning(c) PROVE Promise
<1>1. UNCHANGED <<doc, view, snap, world>> /\ ~At(c, "await")
  BY DEF EndPlanning, At
<1>2. CASE AssembleRound(c, TRUE)
  BY <1>1, <1>2, AssemblePromise
<1>3. CASE Stop(c)
  BY <1>1, <1>3, StopPromise
<1>4. CASE LeaseFree(c) /\ Goto(c, Run(ctl[c].plan, FALSE))
  BY <1>1, <1>4, LightControl, LeftPromise DEF Working
<1> QED BY <1>2, <1>3, <1>4 DEF EndPlanning
----------------------------------------------------------------------------
(* Executing *)

LEMMA ExecuteReviewedPromise ==
    ASSUME Working, NEW c \in Client, ExecuteReviewed(c) PROVE Promise
<1>1. /\ UNCHANGED <<doc, view, snap, world>> /\ ~At(c, "await") /\ LeaseFree(c)
      /\ Goto(c, Run(planned, FALSE))
  BY DEF ExecuteReviewed, At
<1> QED BY <1>1, LightControl, LeftPromise DEF Working

LEMMA BeginOperationPromise ==
    ASSUME Working, NEW c \in Client, NEW o \in Op, BeginOperation(c, o) PROVE Promise
<1> DEFINE g == snap[c].gen
           r == [ctl[c] EXCEPT !.pc = "check", !.todo = @ \ {o}, !.job = o, !.gen = g]
<1>1. /\ ctl[c].pc = "run" /\ Drop(c) /\ UNCHANGED <<doc, world>> /\ ~At(c, "await")
      /\ Goto(c, r) /\ ctl[c] \in Control /\ Knows(ctl[c], doc)
      /\ Snapshot(ctl[c], snap[c], doc)
  BY ClientFacts DEF BeginOperation, NoWrite, Holding, At, Working, SharedInv
<1>2. ctl[c].mode = "dispatch" /\ g <= doc.gen
  BY <1>1 DEF Knows, Snapshot
<1> HIDE DEF g
<1>3. r.pc = "check" /\ r.mode = "dispatch" /\ r.gen = g
  BY <1>1, <1>2 DEF Control
<1> HIDE DEF r
<1>4. Knows(r, doc) /\ Owns(r, doc, Touched) /\ ~Pending(r)
  BY <1>2, <1>3 DEF Knows, Owns, Pending, Committing
<1>5. Holds(ctl[c])
  BY <1>2 DEF Holds
<1> QED BY <1>1, <1>4, <1>5, QuietPromise

\* a run between its operations relies on the generation only
LEMMA BetweenPromise ==
    ASSUME Working, NEW c \in Client, ctl[c].pc = "run",
           NEW r, r.pc \in {"run", "cursor"}, r.mode = ctl[c].mode, r.gen = ctl[c].gen,
           Goto(c, r), UNCHANGED <<doc, view, snap, world>>
    PROVE  Promise
<1>1. Knows(ctl[c], doc) /\ ~At(c, "await")
  BY DEF Working, SharedInv, At
<1>2. /\ Knows(r, doc) /\ Owns(r, doc, Touched) /\ ~Pending(r)
      /\ r.pc \notin Committing \cup {"check"} /\ (Holds(r) => Holds(ctl[c]))
  BY <1>1 DEF Knows, Owns, Pending, Committing, Holds
<1> QED BY <1>1, <1>2, QuietPromise

LEMMA SkipDependentPromise ==
    ASSUME Working, NEW c \in Client, NEW o \in Op, SkipDependent(c, o) PROVE Promise
<1> DEFINE r == [ctl[c] EXCEPT !.todo = @ \ {o}]
<1>1. /\ UNCHANGED <<doc, view, snap, world>> /\ ctl[c].pc = "run"
      /\ Goto(c, r) /\ ctl[c] \in Control
  BY ClientFacts DEF SkipDependent, At, Working
<1>2. r.pc = "run" /\ r.mode = ctl[c].mode /\ r.gen = ctl[c].gen
  BY <1>1 DEF Control
<1> HIDE DEF r
<1> QED BY <1>1, <1>2, BetweenPromise

LEMMA CheckIntentPromise ==
    ASSUME Working, NEW c \in Client, CheckIntent(c) PROVE Promise
<1> DEFINE o == ctl[c].job
           d == snap[c]
           left == {e \in OwnEffects(o) : d.stage[e] \in Unresolved}
           label == IF Unattempted(d, o) THEN "retire"
                    ELSE IF left = {} THEN "verify" ELSE "observe"
           r == [ctl[c] EXCEPT !.mode = "matching", !.left = left, !.pc = label]
           g == d.gen
           w == [ctl[c] EXCEPT !.pc = "persist", !.born = g]
<1>1. /\ ctl[c].pc = "check" /\ ctl[c] \in Control /\ o \in Op
      /\ Drop(c) /\ UNCHANGED <<doc, world>> /\ ~At(c, "await")
      /\ Knows(ctl[c], doc) /\ Snapshot(ctl[c], d, doc)
      /\ d.gen \in Nat /\ doc.gen \in Nat /\ ctl[c].gen \in Nat
  BY ClientFacts DEF CheckIntent, NoWrite, Holding, At, Working, SharedInv, Control, Document
<1>2. ctl[c].mode = "dispatch" /\ Holds(ctl[c])
  BY <1>1 DEF Knows, Holds
<1>3. CASE Stop(c)
  BY <1>1, <1>3, StopPromise
<1>4. CASE Goto(c, Skipped(c))
  BY <1>1, <1>2, <1>4, LightControl, LeftPromise DEF Working
<1>5. CASE Goto(c, r)
  <2>1. r.mode = "matching" /\ r.pc = label
    BY <1>1 DEF Control
  <2> HIDE DEF r
  <2>2. Light(r)
    BY <2>1 DEF Light
  <2> QED BY <1>1, <1>2, <1>5, <2>2, LeftPromise
<1>6. CASE Goto(c, w) /\ o \notin d.intents
  <2>1. Committed(doc, o) => d.gen < doc.gen
    BY <1>1, <1>6 DEF Snapshot
  <2>2. ctl[c].gen <= d.gen
    BY <1>1 DEF Snapshot
  <2>3. Committed(doc, o) => ctl[c].gen < doc.gen
    BY <1>1, <2>1, <2>2
  <2>4. w.pc = "persist" /\ w.job = o /\ w.gen = ctl[c].gen /\ w.mode = "dispatch"
    BY <1>1, <1>2 DEF Control
  <2> HIDE DEF w
  <2>5. Knows(w, doc) /\ Owns(w, doc, Touched) /\ ~Pending(w)
    BY <1>1, <1>2, <2>3, <2>4 DEF Knows, Owns, Pending, Committing
  <2> QED BY <1>1, <1>2, <1>6, <2>5, QuietPromise
<1> QED BY <1>3, <1>4, <1>5, <1>6 DEF CheckIntent

LEMMA PersistIntentPromise ==
    ASSUME Working, NEW c \in Client, PersistIntent(c) PROVE Promise
<1> DEFINE o == ctl[c].job
           d == WithIntent(doc, o, ctl[c].born)
           own == OwnEffects(o)
           r == [ctl[c] EXCEPT !.pc = "authorize", !.left = own]
<1>1. /\ ctl[c].pc = "persist" /\ ctl[c] \in Control /\ o \in Op /\ ctl[c].born \in Nat
      /\ doc \in Document /\ UNCHANGED world /\ ~At(c, "await")
      /\ Knows(ctl[c], doc) /\ Recorded(doc, Touched) /\ Journal(doc)
  BY ClientFacts DEF PersistIntent, Holding, At, Working, Control, SharedInv
<1>2. ctl[c].mode = "dispatch" /\ Holds(ctl[c])
  BY <1>1 DEF Knows, Holds
<1>3. CASE (NoWrite(c) \/ SaveRefused(c)) /\ Stop(c)
  BY <1>1, <1>3, StopPromise DEF NoWrite, SaveRefused
<1>4. CASE /\ o \notin snap[c].intents /\ Save(c, WithIntent(snap[c], o, ctl[c].born))
           /\ Goto(c, r)
  <2>1. snap[c] = doc
    BY <1>4, ClientFacts DEF Save, Working
  <2>2. /\ d \in Document /\ d.intents = doc.intents \cup {o}
        /\ d.journal = doc.journal /\ d.stage = doc.stage
        /\ Evolves(doc, d, ctl[c])
    BY <1>1, <1>4, <2>1, WithIntentDocument, IntentEvolves
  <2>3. Save(c, d) /\ o \notin doc.intents
    BY <1>4, <2>1
  <2>4. /\ r.pc = "authorize" /\ r.job = o /\ r.mode = "dispatch"
        /\ r.gen = ctl[c].gen
    BY <1>1, <1>2 DEF Control
  <2> HIDE DEF d, r
  <2>5. Keeps(doc, d) /\ StatusIn(doc') = StatusIn(d)
    BY <2>2, <2>3, SavedParts
  <2>6. Knows(ctl[c], d)
    BY <2>2, <2>5, KnowsStays
  <2>7. r.pc \notin Committing /\ Knows(r, d) /\ Owns(r, d, Touched)
    BY <1>1, <1>2, <2>4, <2>6, CarriedKnows DEF Committing, Owns
  <2>8. Recorded(d, Touched)
    BY <1>1, <2>2 DEF Recorded
  <2>9. doc.stage[<<o, 1>>] = "intent-persisted"
    BY <1>1, <2>3, HasEffect DEF Working, IInv, Sound, OwnEffects
  <2>10. ~Complete(d, o) /\ ~Complete(doc, o) /\ ~Committed(d, o) /\ ~Committed(doc, o)
    BY <1>1, <2>2, <2>3, <2>9, HasEffect DEF Complete, AllAt, Committed, Journal
  <2>11. \A x \in Op \ {o} : /\ Complete(d, x) <=> Complete(doc, x)
                             /\ Committed(d, x) <=> Committed(doc, x)
    BY <2>2 DEF Complete, AllAt, Committed
  <2>12. /\ o \in Sure => StatusIn(doc)[o] = "unopened"
         /\ StatusIn(d) = [StatusIn(doc) EXCEPT ![o] = "open"]
    BY <1>1, <2>2, <2>3, <2>10, <2>11 DEF StatusIn, Sure
  <2>13. ContractStep
    BY <1>1, <2>5, <2>12, ContractMoves DEF world
  <2> QED BY <1>1, <1>2, <1>4, <2>2, <2>3, <2>4, <2>7, <2>8, <2>13, WritePromise
<1> QED BY <1>3, <1>4 DEF PersistIntent

LEMMA AuthorizePromise ==
    ASSUME Working, NEW c \in Client, Authorize(c) PROVE Promise
<1> DEFINE o == ctl[c].job
           e == First(ctl[c].left)
           d == WithStage(doc, e, "dispatch-authorized")
           r == [ctl[c] EXCEPT !.pc = "guard"]
<1>1. /\ ctl[c].pc = "authorize" /\ doc \in Document /\ UNCHANGED world
      /\ ~At(c, "await") /\ Knows(ctl[c], doc) /\ Recorded(doc, Touched)
  BY ClientFacts DEF Authorize, Holding, At, Working, SharedInv
<1>2. /\ ctl[c] \in Control /\ o \in Op /\ e \in Effect /\ e[1] = o
      /\ ctl[c].mode = "dispatch" /\ Holds(ctl[c])
  BY <1>1, InHand DEF Working, Knows, Holds
<1>3. CASE (NoWrite(c) \/ SaveRefused(c)) /\ Stop(c)
  BY <1>1, <1>3, StopPromise DEF NoWrite, SaveRefused
<1>4. CASE /\ snap[c].stage[e] = "intent-persisted"
           /\ Save(c, WithStage(snap[c], e, "dispatch-authorized")) /\ Goto(c, r)
  <2>1. snap[c] = doc
    BY <1>4, ClientFacts DEF Save, Working
  <2>2. /\ "dispatch-authorized" \in Stage
        /\ o \in Sure => e \notin Touched
    BY <1>1, <1>2, <1>4, <2>1 DEF Stage, Recorded, SureEffect
  <2>3. /\ d \in Document /\ d.stage[e] = "dispatch-authorized"
        /\ Evolves(doc, d, ctl[c]) /\ Recorded(d, Touched)
        /\ StatusIn(d) = StatusIn(doc)
    BY <1>1, <1>2, <1>4, <2>1, <2>2, WithStageDocument, StageEvolves, StagedStatus
  <2>4. Save(c, d)
    BY <1>4, <2>1
  <2>5. /\ r.pc = "guard" /\ r.job = o /\ r.left = ctl[c].left
        /\ r.mode = "dispatch" /\ r.gen = ctl[c].gen
    BY <1>2 DEF Control
  <2> HIDE DEF d, r
  <2>6. Keeps(doc, d) /\ StatusIn(doc') = StatusIn(d)
    BY <2>3, <2>4, SavedParts
  <2>7. Knows(ctl[c], d)
    BY <2>3, <2>6, KnowsStays
  <2>8. r.pc \notin Committing /\ Knows(r, d)
    BY <1>1, <1>2, <2>5, <2>7, CarriedKnows DEF Committing
  <2>9. Owns(r, d, Touched)
    BY <2>2, <2>3, <2>5 DEF Owns
  <2>10. ContractStep
    BY <1>1, <2>3, <2>6, ContractStutters DEF world
  <2> QED BY <1>1, <1>2, <1>4, <2>3, <2>4, <2>5, <2>8, <2>9, <2>10, WritePromise
<1> QED BY <1>3, <1>4 DEF Authorize

LEMMA GuardPromise == ASSUME Working, NEW c \in Client, Guard(c) PROVE Promise
<1> DEFINE e == First(ctl[c].left)
           r == [ctl[c] EXCEPT !.pc = "await"]
<1>1. /\ ctl[c].pc = "guard" /\ UNCHANGED <<doc, view, snap, applied>>
      /\ Knows(ctl[c], doc) /\ Owns(ctl[c], doc, Touched) /\ doc \in Document
  BY ClientFacts DEF Guard, At, Working, SharedInv
<1>2. /\ ctl[c] \in Control /\ e \in Effect /\ e[1] = ctl[c].job /\ ctl[c].job \in Op
      /\ ctl[c].mode = "dispatch"
  BY <1>1, InHand DEF Working, Knows
<1>3. CASE Goto(c, [ctl[c] EXCEPT !.pc = "record", !.res = "refused"]) /\ UNCHANGED inflight
  BY <1>1, <1>2, <1>3, SeenPromise DEF Owns, world, At
<1>4. CASE inflight' = inflight \cup {e} /\ Goto(c, r)
  <2>1. e[1] \in Sure => e \notin Touched /\ doc.stage[e] # "intent-persisted"
    BY <1>1, <1>2 DEF Owns
  <2>2. e[1] \in Sure => /\ e[1] \in doc.intents /\ doc.stage[e] \in Unresolved
                         /\ e \notin applied
    BY <1>1, <1>2, <2>1
    DEF Working, IInv, Sound, Touched, Document, Stage, Unresolved, Verified
  <2>3. Touched' = Touched \cup {e}
    BY <1>1, <1>4 DEF Touched
  <2>4. ctl'[c] = r /\ \A x \in Client \ {c} : ctl'[x] = ctl[x]
    BY <1>4, OthersStay DEF Working
  <2>5. /\ r.pc = "await" /\ r.left = ctl[c].left /\ r.job = ctl[c].job
        /\ r.mode = "dispatch" /\ r.gen = ctl[c].gen
    BY <1>2 DEF Control
  <2> HIDE DEF r
  <2>6. Evolves(doc, doc', ctl[c])
    BY <1>1, EvolvesStill
  <2>7. Knows(r, doc) /\ ~Pending(r) /\ r.pc \notin Committing \cup {"check"}
    BY <1>1, <1>2, <2>5, CarriedKnows DEF Committing
  <2>8. Owns(r, doc, Touched') /\ (Holds(r) => Holds(ctl[c]))
    BY <1>2, <2>5 DEF Owns, Holds
  <2>9. Exclusive'
    BY <1>4, <2>8, ExclusiveStays
  <2>10. Recorded(doc', Touched') /\ Journal(doc')
    BY <1>1, <2>1, <2>3 DEF Working, SharedInv, Recorded, SureEffect
  <2>11. \A x \in Client : Knows(ctl'[x], doc') /\ Owns(ctl'[x], doc', Touched')
    <3>1. \A x \in Client \ {c} : Owns(ctl[x], doc', Touched')
      BY <1>2, <2>6, OwnsStays
    <3> QED BY <1>1, <2>4, <2>7, <2>8, <3>1 DEF Working, SharedInv
  <2>12. Claims'
    <3>1. ASSUME NEW x \in Client, NEW o \in Op, NEW g \in Nat, Claim(x, o, g)'
          PROVE  Claim(x, o, g)
      BY <1>1, <2>4, <2>7, <3>1 DEF Claim
    <3> QED BY <2>6, <3>1, ClaimsStay
  <2>13. \A x \in Client : view'[x] # "none" => Snapshot(ctl'[x], snap'[x], doc')
    BY <1>1, <2>4, <2>6, <2>7, SnapshotStays
  <2>14. Requests'
    <3>1. At(c, "await")' /\ First(ctl'[c].left) = e
      BY <2>4, <2>5 DEF At
    <3>2. applied' \cap inflight' \cap SureEffect = {}
      BY <1>1, <1>4, <2>1 DEF Working, SharedInv, Requests, Touched, SureEffect
    <3>3. ASSUME NEW x \in inflight \ Lingering
          PROVE  \E y \in Client : At(y, "await")' /\ First(ctl'[y].left) = x
      <4>1. PICK y \in Client : At(y, "await") /\ First(ctl[y].left) = x
        BY DEF Working, SharedInv, Requests
      <4>2. y # c
        BY <1>1, <4>1 DEF At
      <4> QED BY <2>4, <4>1, <4>2 DEF At
    <3> QED BY <1>4, <3>1, <3>2, <3>3 DEF Requests
  <2>15. SharedInv'
    BY <2>9, <2>10, <2>11, <2>12, <2>13, <2>14 DEF SharedInv
  <2> QED BY <1>1, <1>4, <2>2, <2>15, ContractStutters DEF Promise
<1> QED BY <1>3, <1>4 DEF Guard

LEMMA RespondPromise == ASSUME Working, NEW c \in Client, Respond(c) PROVE Promise
<1> DEFINE e == First(ctl[c].left)
<1>1. /\ ctl[c].pc = "await" /\ UNCHANGED <<doc, view, snap, world>>
      /\ e \notin inflight \ Lingering /\ Knows(ctl[c], doc)
      /\ e \in OwnEffects(ctl[c].job)
  BY InHand DEF Respond, At, Working, SharedInv
<1>2. CASE Stop(c)
  BY <1>1, <1>2, StopPromise
<1>3. ASSUME NEW outcome \in {"verified-effect", "verified-not-applied", "outcome-unknown"},
             Goto(c, [ctl[c] EXCEPT !.pc = "record", !.res = outcome]),
             outcome = "verified-not-applied" =>
                 e \notin applied /\ (e \notin inflight \/ e \in Glanced)
      PROVE  Promise
  <2>1. outcome \in Absent /\ ctl[c].job \in Sure =>
            ctl[c].mode = "dispatch" /\ e \notin Touched
    BY <1>1, <1>3 DEF Absent, Sure, Touched, Knows
  <2> QED BY <1>1, <1>3, <2>1, SeenPromise
<1> QED BY <1>2, <1>3 DEF Respond, Converged

LEMMA CancelRunPromise == ASSUME Working, NEW c \in Client, CancelRun(c) PROVE Promise
BY StopPromise DEF CancelRun, At

LEMMA EndRunPromise == ASSUME Working, NEW c \in Client, EndRun(c) PROVE Promise
<1> DEFINE r == [ctl[c] EXCEPT !.pc = "cursor"]
<1>1. /\ UNCHANGED <<doc, view, snap, world>> /\ ctl[c].pc = "run" /\ ~At(c, "await")
      /\ ctl[c] \in Control
  BY ClientFacts DEF EndRun, At, Working
<1>2. r.pc = "cursor" /\ r.mode = ctl[c].mode /\ r.gen = ctl[c].gen
  BY <1>1 DEF Control
<1>3. Stop(c) \/ Goto(c, r)
  BY DEF EndRun
<1> HIDE DEF r
<1> QED BY <1>1, <1>2, <1>3, StopPromise, BetweenPromise

LEMMA CommitCursorPromise ==
    ASSUME Working, NEW c \in Client, CommitCursor(c) PROVE Promise
<1>1. Stop(c) /\ UNCHANGED world /\ ~At(c, "await")
  BY DEF CommitCursor, Holding, At
<1>2. CASE Save(c, Advanced(snap[c]))
  BY <1>1, <1>2, IdleLight, AdvancePromise DEF Stop
<1>3. CASE SaveRefused(c)
  BY <1>1, <1>3, StopPromise DEF SaveRefused, NoWrite
<1> QED BY <1>2, <1>3 DEF CommitCursor
----------------------------------------------------------------------------
(* The world outside *)

\* a request of a sure operation that is under way belongs to an open one
LEMMA UnderwayIsOpen ==
    ASSUME IInv, SharedInv, NEW e \in inflight, e[1] \in Sure
    PROVE  e \in Effect /\ e \notin applied /\ StatusIn(doc)[e[1]] = "open"
<1>1. e \in SureEffect /\ e \notin applied /\ e[1] \in Op /\ e \in OwnEffects(e[1])
  BY ClientFacts, EffectShape DEF IInv, TypeOK, SharedInv, Requests, SureEffect
<1>2. doc.stage[e] # "intent-persisted" /\ doc.stage[e] \notin Verified /\ e \in Effect
  BY <1>1 DEF SharedInv, Recorded, Touched, IInv, Sound, SureEffect
<1>3. e[1] \in doc.intents
  BY <1>1, <1>2 DEF IInv, Sound
<1>4. ~Complete(doc, e[1]) /\ ~Committed(doc, e[1])
  BY <1>1, <1>2 DEF Complete, AllAt, Verified, SharedInv, Journal
<1> QED BY <1>1, <1>2, <1>3, <1>4 DEF StatusIn

LEMMA ContractLands ==
    ASSUME IInv, SharedInv, NEW e \in inflight, applied' = applied \cup {e}, UNCHANGED doc
    PROVE  ContractStep
<1>1. CASE e \in applied
  BY <1>1, ContractStutters
<1>2. CASE e \notin applied
  <2>1. e \in Effect
    BY DEF IInv, TypeOK
  <2> QED BY <1>2, <2>1, UnderwayIsOpen, ContractApplies
<1> QED BY <1>1, <1>2

\* what is relied on does not depend on what is no longer under way
LEMMA OwnsShrinks ==
    ASSUME NEW k, NEW d, NEW touched, NEW fewer, fewer \subseteq touched,
           Owns(k, d, touched)
    PROVE  Owns(k, d, fewer)
BY DEF Owns

LEMMA WorldFrame ==
    ASSUME Working, UNCHANGED <<doc, view, snap, ctl>>, Touched' \subseteq Touched,
           Requests'
    PROVE  SharedInv'
<1>1. Recorded(doc', Touched')
  BY DEF Working, SharedInv, Recorded
<1>2. \A c \in Client : Owns(ctl'[c], doc', Touched')
  BY OwnsShrinks DEF Working, SharedInv
<1>3. Claims'
  BY DEF Working, SharedInv, Claims, Claim
<1> QED BY <1>1, <1>2, <1>3 DEF Working, SharedInv, Exclusive

LEMMA LandPromise == ASSUME Working, NEW e \in Effect, Land(e) PROVE Promise
<1>1. /\ UNCHANGED <<doc, view, snap, ctl>> /\ Touched' = Touched
      /\ applied' = applied \cup {e} /\ inflight' = inflight \ {e} /\ e \in inflight
  BY DEF Land, Touched
<1>2. Requests'
  BY <1>1 DEF Working, SharedInv, Requests, At
<1>3. SharedInv'
  BY <1>1, <1>2, WorldFrame
<1>4. ContractStep
  BY <1>1, ContractLands DEF Working
<1> QED BY <1>1, <1>3, <1>4 DEF Promise

LEMMA LosePromise == ASSUME Working, NEW e \in Effect, Lose(e) PROVE Promise
<1>1. /\ UNCHANGED <<doc, view, snap, ctl, applied>> /\ Touched' \subseteq Touched
      /\ inflight' = inflight \ {e}
  BY DEF Lose, Touched
<1>2. Requests'
  BY <1>1 DEF Working, SharedInv, Requests, At
<1>3. SharedInv'
  BY <1>1, <1>2, WorldFrame
<1> QED BY <1>1, <1>3, ContractStutters DEF Promise

\* a crash may let the one awaited request land, of which nobody will hear
LEMMA CrashPromise == ASSUME Working, Crash PROVE Promise
<1>1. PICK landed \in SUBSET (inflight \ Lingering) : applied' = applied \cup landed
  BY DEF Crash
<1>2. /\ UNCHANGED doc /\ inflight' = inflight \cap Lingering /\ doc \in Document
      /\ \A c \in Client : view'[c] = "none" /\ ctl'[c] = Idle
  BY DEF Crash, Working, IInv, TypeOK
<1>3. Touched' \subseteq Touched
  BY <1>1, <1>2 DEF Touched
<1>4. Recorded(doc', Touched') /\ Journal(doc')
  BY <1>2, <1>3 DEF Working, SharedInv, Recorded
<1>5. Requests'
  BY <1>1, <1>2 DEF Working, SharedInv, Requests
<1>6. \A c \in Client : Knows(ctl'[c], doc') /\ Owns(ctl'[c], doc', Touched')
  BY <1>2, IdleLight, LightKnows
<1>7. Exclusive' /\ Claims'
  BY <1>2, IdleLight, LightKnows DEF Exclusive, Claims, Claim
<1>8. SharedInv'
  BY <1>2, <1>4, <1>5, <1>6, <1>7 DEF SharedInv
<1>9. ContractStep
  <2>1. CASE landed = {}
    BY <1>1, <1>2, <2>1, ContractStutters
  <2>2. CASE landed # {}
    <3>1. PICK e \in landed : TRUE
      BY <2>2
    <3>2. PICK c \in Client : At(c, "await") /\ First(ctl[c].left) = e
      BY <3>1 DEF Working, SharedInv, Requests
    <3>3. ASSUME NEW x \in landed PROVE x = e
      <4>1. PICK y \in Client : At(y, "await") /\ First(ctl[y].left) = x
        BY DEF Working, SharedInv, Requests
      <4>2. Holds(ctl[y]) /\ Holds(ctl[c])
        BY <3>2, <4>1 DEF Working, SharedInv, Knows, At, Holds
      <4>3. y = c
        BY <4>2 DEF Working, SharedInv, Exclusive
      <4> QED BY <3>2, <4>1, <4>3
    <3>4. applied' = applied \cup {e} /\ e \in inflight
      BY <1>1, <3>1, <3>3
    <3> QED BY <1>2, <3>4, ContractLands DEF Working
  <2> QED BY <2>1, <2>2
<1> QED BY <1>2, <1>8, <1>9 DEF Promise
----------------------------------------------------------------------------
(* What holds however the chains overlap *)

LEMMA InitShared == Init => SharedInv
<1> SUFFICES ASSUME Init PROVE SharedInv
  OBVIOUS
<1>1. Touched = {} /\ doc = InitialDocument /\ doc \in Document
  BY InitialIsDocument DEF Init, Touched
<1>2. Recorded(doc, Touched) /\ Journal(doc)
  BY <1>1 DEF Recorded, Journal, Committed, InitialDocument
<1>3. Requests
  BY DEF Init, Requests
<1>4. \A c \in Client : Knows(ctl[c], doc) /\ Owns(ctl[c], doc, Touched)
  BY <1>1, IdleLight, LightKnows DEF Init
<1>5. Exclusive /\ Claims
  BY <1>1, IdleLight, LightKnows DEF Init, Exclusive, Claims, Claim
<1>6. \A c \in Client : view[c] = "none"
  BY DEF Init
<1> QED BY <1>2, <1>3, <1>4, <1>5, <1>6 DEF SharedInv

LEMMA StutterPromise == ASSUME Working, UNCHANGED vars PROVE Promise
<1>1. UNCHANGED <<doc, view, snap, ctl, applied, inflight>> /\ Touched' = Touched
  BY DEF vars, Touched
<1>2. Requests'
  BY <1>1 DEF Working, SharedInv, Requests, At
<1>3. SharedInv'
  BY <1>1, <1>2, WorldFrame
<1> QED BY <1>1, <1>3, ContractStutters DEF Promise

LEMMA StepPromise == ASSUME Working, [Next]_vars PROVE Promise
<1>1. ASSUME NEW c \in Client, PlanningStep(c) PROVE Promise
  BY <1>1, LoadPromise, BeginPlanningPromise, LearnPromise, MirrorPromise,
     PreflightPromise, SelectIntentPromise, RetireUnattemptedPromise, ObservePromise,
     RecordPromise, VerifyPromise, CanonicalPromise, CommitPromise, FinalizePromise,
     EndPlanningPromise
  DEF PlanningStep
<1>2. ASSUME NEW c \in Client, ExecutionStep(c) PROVE Promise
  BY <1>2, BeginOperationPromise, SkipDependentPromise, CheckIntentPromise,
     PersistIntentPromise, AuthorizePromise, GuardPromise, RespondPromise,
     ReadyPromise, EndRunPromise, CommitCursorPromise
  DEF ExecutionStep
<1>3. ASSUME NEW c \in Client, ClientStep(c) \/ ExecuteReviewed(c) \/ CancelRun(c)
      PROVE  Promise
  BY <1>1, <1>2, <1>3, ExecuteReviewedPromise, CancelRunPromise DEF ClientStep
<1>4. CASE \E e \in Effect : Land(e) \/ Lose(e)
  BY <1>4, LandPromise, LosePromise
<1>5. CASE Crash
  BY <1>5, CrashPromise
<1>6. CASE UNCHANGED vars
  BY <1>6, StutterPromise
<1> QED BY <1>3, <1>4, <1>5, <1>6 DEF Next

\* However many chains plan, recover and execute beside each other, the accounts of
\* the sure operations are complete: every effect ever sent is on record, all who
\* are about to commit an operation mean the same commit, and only the holder of
\* the lease can undo what it relies on.
THEOREM AccountsAreComplete == Spec => []SharedInv
<1>1. Init => SharedInv
  BY InitShared
<1>2. IInv /\ SharedInv /\ [Next]_vars => SharedInv'
  <2> SUFFICES ASSUME IInv, SharedInv, [Next]_vars PROVE SharedInv'
    OBVIOUS
  <2>1. Working
    BY StepGood DEF Working
  <2> QED BY <2>1, StepPromise DEF Promise
<1> QED BY <1>1, <1>2, InvariantHolds, PTL DEF Spec

\* No file is changed by a sure operation without its intent in the document, so
\* that retiring such an intent proves that it did nothing; creates, moves and
\* trashes are what the effect_orphan run is about.
THEOREM EffectsAreAccounted ==
    Spec => [](\A e \in applied : e[1] \in Sure => e[1] \in doc.intents)
<1>1. IInv /\ SharedInv => \A e \in applied : e[1] \in Sure => e[1] \in doc.intents
  BY DEF IInv, Sound, SharedInv, Recorded, Touched, SureEffect, TypeOK
<1> QED BY <1>1, InvariantHolds, AccountsAreComplete, PTL

\* A request of a sure operation leaves only under a durable authorization of this
\* very effect, which has not happened (dispatchEffect saves dispatch-authorized
\* before it hands out the descriptor), whatever other chains recover meanwhile.
THEOREM DispatchIsBehindRecord == Spec => DispatchIsRecorded
<1>1. IInv /\ SharedInv /\ [Next]_vars =>
        [\A e \in inflight' \ inflight : e[1] \in Sure =>
            /\ e[1] \in doc.intents /\ doc.stage[e] \in Unresolved
            /\ e \notin applied]_vars
  BY StepGood, StepPromise DEF Working, Promise
<1> QED BY <1>1, InvariantHolds, AccountsAreComplete, PTL DEF Spec, DispatchIsRecorded

\* A commit is repeated in one order only: a recovery may repeat that of a run, but
\* no run commits what is journaled, and two recoveries name the same intent.
THEOREM RepeatsAreOrdered == Spec => RepeatedOnlyByRecovery
<1>1. IInv /\ SharedInv /\ [Next]_vars =>
        [\A o \in Op : Committed(doc, o) /\ doc'.journal[o] # doc.journal[o] =>
            doc.journal[o].by = "receipt" /\ doc'.journal[o].by = "recovery"]_vars
  BY StepGood, StepPromise DEF Working, Promise
<1> QED BY <1>1, InvariantHolds, AccountsAreComplete, PTL DEF Spec, RepeatedOnlyByRecovery

LEMMA ContractInitially == Init => SureContract!Init
<1> SUFFICES ASSUME Init PROVE SureContract!Init
  OBVIOUS
<1>1. \A o \in Op : ~Complete(doc, o) /\ ~Committed(doc, o) /\ o \notin doc.intents
  BY DEF Init, InitialDocument, Complete, Committed
<1> QED BY <1>1 DEF Init, SureContract!Init, StatusOf, Sure

\* The lifecycle implements the contract of the sure operations, with any number of
\* chains, plans and merges, and whatever fails: opened before it touches a file,
\* committed when all of it has happened, dropped only if nothing has.
THEOREM LifecycleKeepsContract == Spec => SureImplementContract
<1>1. Init => SureContract!Init
  BY ContractInitially
<1>2. IInv /\ SharedInv /\ [Next]_vars => [SureContract!Next]_(SureContract!vars)
  BY StepGood, StepPromise DEF Working, Promise, ContractStep
<1> QED BY <1>1, <1>2, InvariantHolds, AccountsAreComplete, PTL
        DEF Spec, SureImplementContract, SureContract!Spec
=============================================================================
