------------------------- MODULE AutomaticSyncProofs -------------------------
(***************************************************************************)
(* AutomaticSync for every number of realms, settings and events: while    *)
(* the app is not active no timer runs and nothing is pending, and while   *)
(* it is active what is pending has a drain or a timer, and nothing is     *)
(* left behind for a resume; a change is somewhere until a pass sees it.   *)
(***************************************************************************)
EXTENDS AutomaticSync, RunCoordinatorProofs

\* a scheduler s, while the lifecycle of its realm is l
Orderly(s, l) ==
    /\ ~(s.started /\ l = "active") => s.timers = {} /\ s.pending = "none"
    /\ s.started /\ l = "active" =>
          /\ s.deferred = "none"
          /\ s.pending # "none" => s.drain # "none" \/ "drain" \in s.timers

SyncInv ==
    /\ RunInv
    /\ enabled \in [Realm -> SUBSET Triggers]
    /\ sched \in [Realm -> Scheduler]
    /\ dirty \in [Realm -> Change]
    /\ fresh \in [Realm -> BOOLEAN]
    /\ \A r \in Realm : Orderly(sched[r], life[r])

----------------------------------------------------------------------------
(* One scheduler moves *)

\* the rest of the system keeps its types, and one scheduler is orderly again
LEMMA Reschedule ==
    ASSUME SyncInv, RunInv', NEW r \in Realm, NEW s \in Scheduler, Schedule(r, s),
           Orderly(s, life'[r]),
           \A q \in Realm \ {r} : life'[q] = life[q],
           enabled' \in [Realm -> SUBSET Triggers],
           dirty' \in [Realm -> Change], fresh' \in [Realm -> BOOLEAN]
    PROVE  SyncInv'
<1>1. /\ sched' \in [Realm -> Scheduler] /\ sched'[r] = s
      /\ \A q \in Realm \ {r} : sched'[q] = sched[q]
  BY DEF Schedule, SyncInv
<1>2. \A q \in Realm : Orderly(sched'[q], life'[q])
  BY <1>1 DEF SyncInv
<1> QED BY <1>1, <1>2 DEF SyncInv, Orderly

\* nothing but the flags that say a pass is wanted, and the count of events
LEMMA Marked ==
    ASSUME SyncInv, UNCHANGED <<life, epoch, coord, disposing, chain, lock>>,
           across' \in [Realm -> BOOLEAN], queued' \in [Realm -> BOOLEAN],
           events' \in 0..MaxEvents
    PROVE  RunInv'
BY GateKeeps DEF SyncInv, RunInv, RunTypeOK

LEMMA SyncFacts ==
    ASSUME SyncInv, NEW r \in Realm
    PROVE  /\ sched[r] \in Scheduler /\ Orderly(sched[r], life[r])
           /\ life[r] \in Lifecycle
           /\ enabled[r] \subseteq Triggers
           /\ IfEnabled(r, "local-change") \in Triggers \cup {"none"}
           /\ IfEnabled(r, "startup-resume") \in Triggers \cup {"none"}
           /\ IfEnabled(r, "periodic") \in Triggers \cup {"none"}
           /\ across \in [Realm -> BOOLEAN] /\ queued \in [Realm -> BOOLEAN]
           /\ events \in 0..MaxEvents
BY DEF SyncInv, RunInv, RunTypeOK, IfEnabled, Triggers

LEMMA HigherIsOne == \A t, u : Higher(t, u) \in {t, u}
BY DEF Higher

LEMMA HigherOfNone == Higher("none", "none") = "none"
BY DEF Higher

LEMMA DrainedIsOrderly ==
    ASSUME NEW s \in Scheduler, s.deferred = "none", s.started
    PROVE  /\ Drained(s) \in Scheduler
           /\ Orderly(Drained(s), "active")
           /\ Drained(s).deferred = "none" /\ Drained(s).started
<1> DEFINE l == [s EXCEPT !.drain = "looping", !.runs = 0]
<1>1. /\ l \in Scheduler
      /\ l.drain = "looping" /\ l.deferred = "none" /\ l.started
  <2>1. [s EXCEPT !.drain = "looping"] \in Scheduler
    BY DEF Scheduler
  <2>2. /\ 0 \in 0..2
        /\ l = [[s EXCEPT !.drain = "looping"] EXCEPT !.runs = 0]
    OBVIOUS
  <2>3. l \in Scheduler
    BY <2>1, <2>2 DEF Scheduler
  <2>4. l.drain = "looping" /\ l.deferred = s.deferred /\ l.started = s.started
    BY DEF Scheduler
  <2> QED BY <2>3, <2>4
<1> HIDE DEF l
<1>2. CASE Drained(s) = l
  BY <1>1, <1>2 DEF Orderly
<1>3. CASE Drained(s) = s /\ (s.pending # "none" => s.drain # "none" \/ "drain" \in s.timers)
  BY <1>3 DEF Orderly
<1> QED BY <1>2, <1>3 DEF Drained, l

LEMMA QueuedIsOrderly ==
    ASSUME NEW s \in Scheduler, Orderly(s, "active"), s.started,
           NEW t \in Triggers \cup {"none"}
    PROVE  /\ Queued(s, t) \in Scheduler
           /\ Orderly(Queued(s, t), "active")
           /\ Queued(s, t).started
<1> DEFINE p == [s EXCEPT !.pending = Higher(@, t)]
<1>1. Higher(s.pending, t) \in Triggers \cup {"none"}
  BY HigherIsOne DEF Scheduler
<1>2. p \in Scheduler /\ p.deferred = "none" /\ p.started
  BY <1>1 DEF Scheduler, Orderly
<1> HIDE DEF p
<1>3. /\ Drained(p) \in Scheduler
      /\ Orderly(Drained(p), "active") /\ Drained(p).started
  BY <1>2, DrainedIsOrderly
<1> QED BY <1>3 DEF Queued, p

\* queueAutomatic of a scheduler that is still orderly
LEMMA QueueKeeps ==
    ASSUME SyncInv, NEW r \in Realm, NEW s \in Scheduler,
           NEW t \in Triggers \cup {"none"}, Queue(r, s, t),
           s.started, Orderly(s, life[r]),
           UNCHANGED <<life, epoch, run, enabled, dirty, fresh>>,
           events' \in 0..MaxEvents
    PROVE  SyncInv'
<1>1. CASE life[r] = "active" \/ t = "none"
  <2>1. Schedule(r, Queued(s, t)) /\ UNCHANGED across
    BY <1>1 DEF Queue
  <2>2. Queued(s, t) \in Scheduler /\ Orderly(Queued(s, t), life[r])
    BY <1>1, QueuedIsOrderly DEF Queued
  <2>3. RunInv'
    BY <2>1, Marked, SyncFacts DEF run
  <2> QED BY <2>1, <2>2, <2>3, Reschedule DEF SyncInv
<1>2. CASE ~(life[r] = "active" \/ t = "none")
  <2> DEFINE d == [s EXCEPT !.deferred = Higher(@, t)]
  <2>1. Schedule(r, d) /\ across' = [across EXCEPT ![r] = TRUE]
    BY <1>2 DEF Queue
  <2>2. d \in Scheduler /\ Orderly(d, life[r])
    <3>1. Higher(s.deferred, t) \in Triggers \cup {"none"}
      BY HigherIsOne DEF Scheduler
    <3> QED BY <1>2, <3>1 DEF Scheduler, Orderly
  <2> HIDE DEF d
  <2>3. RunInv'
    BY <2>1, Marked, SyncFacts DEF run
  <2> QED BY <2>1, <2>2, <2>3, Reschedule DEF SyncInv
<1> QED BY <1>1, <1>2

----------------------------------------------------------------------------
(* The drain *)

LEMMA DrainKeeps ==
    ASSUME SyncInv, NEW r \in Realm,
           \/ DrainTakes(r) \/ DrainReturns(r) \/ DrainEnds(r)
           \/ DrainSettles(r) \/ DelayedDrain(r)
    PROVE  SyncInv'
<1>1. CASE DrainTakes(r)
  <2> DEFINE s == [sched[r] EXCEPT !.drain = "awaiting", !.runs = @ + 1,
                                   !.pending = "none"]
  <2>1. Schedule(r, s) /\ s \in Scheduler /\ Orderly(s, life[r])
    <3>1. /\ sched[r] \in Scheduler /\ Orderly(sched[r], life[r])
          /\ sched[r].runs < 2 /\ Schedule(r, s)
      BY <1>1, SyncFacts DEF DrainTakes, More
    <3>2. sched[r].runs + 1 \in 0..2
      BY <3>1 DEF Scheduler
    <3>3. s \in Scheduler
      BY <3>1, <3>2 DEF Scheduler
    <3>4. Orderly(s, life[r])
      BY <3>1 DEF Scheduler, Orderly
    <3> QED BY <3>1, <3>3, <3>4
  <2> HIDE DEF s
  <2>2. queued' \in [Realm -> BOOLEAN]
    BY <1>1, SyncFacts DEF DrainTakes, SyncInv, RunInv, RunTypeOK
  <2>3. RunInv'
    BY <1>1, <2>2, Marked, SyncFacts DEF DrainTakes, gate
  <2> QED BY <1>1, <2>1, <2>3, Reschedule DEF DrainTakes, gate, SyncInv
<1>2. CASE DrainReturns(r) \/ DrainEnds(r) \/ DrainSettles(r) \/ DelayedDrain(r)
  <2>1. UNCHANGED <<runVars, enabled, dirty, fresh>>
    BY <1>2 DEF DrainReturns, DrainEnds, DrainSettles, DelayedDrain
  <2>2. RunInv'
    BY <2>1, Marked, SyncFacts DEF runVars
  <2>3. \E s \in Scheduler : Schedule(r, s) /\ Orderly(s, life[r])
    <3>1. CASE DrainReturns(r)
      <4>1. [sched[r] EXCEPT !.drain = "looping"] \in Scheduler
        BY SyncFacts DEF Scheduler
      <4>2. Orderly([sched[r] EXCEPT !.drain = "looping"], life[r])
        BY SyncFacts DEF Scheduler, Orderly
      <4> QED BY <3>1, <4>1, <4>2 DEF DrainReturns
    <3>2. CASE DrainEnds(r)
      <4>1. [sched[r] EXCEPT !.drain = "ended"] \in Scheduler
        BY SyncFacts DEF Scheduler
      <4>2. Orderly([sched[r] EXCEPT !.drain = "ended"], life[r])
        BY SyncFacts DEF Scheduler, Orderly
      <4> QED BY <3>2, <4>1, <4>2 DEF DrainEnds
    <3>3. CASE DrainSettles(r)
      <4>1. Settled(r) \in Scheduler
        BY SyncFacts DEF Settled, Scheduler, Timers
      <4>2. Orderly(Settled(r), life[r])
        BY SyncFacts DEF Settled, Scheduler, Orderly, Active
      <4> QED BY <3>3, <4>1, <4>2 DEF DrainSettles
    <3>4. CASE DelayedDrain(r)
      <4>1. /\ Expired(r, "drain") \in Scheduler
            /\ Expired(r, "drain").deferred = "none"
            /\ Expired(r, "drain").started
            /\ life[r] = "active"
        BY <3>4, SyncFacts DEF DelayedDrain, Expired, Scheduler, Orderly
      <4> QED BY <3>4, <4>1, DrainedIsOrderly DEF DelayedDrain
    <3> QED BY <1>2, <3>1, <3>2, <3>3, <3>4
  <2> QED BY <2>1, <2>2, <2>3, Reschedule DEF runVars, SyncInv
<1> QED BY <1>1, <1>2

----------------------------------------------------------------------------
(* What asks for a pass *)

LEMMA ChangeTimerKeeps == ASSUME SyncInv, NEW r \in Realm, ChangeTimer(r) PROVE SyncInv'
<1>1. /\ Expired(r, "change") \in Scheduler
      /\ Expired(r, "change").started
      /\ Orderly(Expired(r, "change"), life[r])
  BY SyncFacts DEF ChangeTimer, Expired, Scheduler, Orderly
<1>2. "local-change" \in Triggers \cup {"none"}
  BY DEF Triggers
<1> QED BY <1>1, <1>2, QueueKeeps, SyncFacts DEF ChangeTimer

LEMMA VaultReadyKeeps == ASSUME SyncInv, NEW r \in Realm, VaultReady(r) PROVE SyncInv'
<1> DEFINE s == [sched[r] EXCEPT !.ready = TRUE]
<1>1. s \in Scheduler /\ s.started /\ Orderly(s, life[r])
  BY SyncFacts DEF VaultReady, Scheduler, Orderly
<1>2. Queue(r, s, IfEnabled(r, "startup-resume"))
  BY DEF VaultReady
<1> HIDE DEF s
<1> QED BY <1>1, <1>2, QueueKeeps, SyncFacts DEF VaultReady

LEMMA LocalChangeKeeps == ASSUME SyncInv, NEW r \in Realm, LocalChange(r) PROVE SyncInv'
<1>1. /\ events' \in 0..MaxEvents
      /\ fresh' \in [Realm -> BOOLEAN] /\ dirty' \in [Realm -> Change]
      /\ UNCHANGED <<life, epoch, run, enabled>>
  BY EventsBounded DEF LocalChange, SyncInv, Change
<1>2. across' \in [Realm -> BOOLEAN]
  BY SyncFacts DEF LocalChange
<1>3. RunInv'
  BY <1>1, <1>2, Marked, SyncFacts DEF run
<1>4. \E s \in Scheduler : Schedule(r, s) /\ Orderly(s, life[r])
  <2>1. CASE UNCHANGED sched
    <3>1. sched' = [sched EXCEPT ![r] = sched[r]]
      BY <2>1 DEF SyncInv
    <3> QED BY <3>1, SyncFacts DEF Schedule
  <2>2. CASE life[r] # "active" /\ Schedule(r, Deferred(r))
    <3>1. Higher(sched[r].deferred, "local-change") \in Triggers \cup {"none"}
      BY HigherIsOne, SyncFacts DEF Scheduler, Triggers
    <3>2. Deferred(r) \in Scheduler /\ Orderly(Deferred(r), life[r])
      BY <2>2, <3>1, SyncFacts DEF Deferred, Scheduler, Orderly
    <3> QED BY <2>2, <3>2
  <2>3. CASE /\ sched[r].started /\ life[r] = "active"
             /\ Schedule(r, [sched[r] EXCEPT !.timers = @ \cup {"change"}])
    <3>1. [sched[r] EXCEPT !.timers = @ \cup {"change"}] \in Scheduler
      BY SyncFacts DEF Scheduler, Timers
    <3>2. Orderly([sched[r] EXCEPT !.timers = @ \cup {"change"}], life[r])
      BY <2>3, SyncFacts DEF Scheduler, Orderly
    <3> QED BY <2>3, <3>1, <3>2
  <2> QED BY <2>1, <2>2, <2>3 DEF LocalChange
<1>5. life' = life /\ enabled' \in [Realm -> SUBSET Triggers]
  BY <1>1 DEF SyncInv
<1> QED BY <1>1, <1>3, <1>4, <1>5, Reschedule

LEMMA PeriodicTimerKeeps ==
    ASSUME SyncInv, NEW r \in Realm, PeriodicTimer(r) PROVE SyncInv'
<1> DEFINE reading == [sched[r] EXCEPT !.integrity = "reading"]
           again == [sched[r] EXCEPT !.again = TRUE]
<1>1. reading \in Scheduler /\ Orderly(reading, life[r])
  BY SyncFacts DEF Scheduler, Orderly
<1>2. again \in Scheduler /\ Orderly(again, life[r])
  BY SyncFacts DEF Scheduler, Orderly
<1>3. Schedule(r, reading) \/ Schedule(r, again)
  BY DEF PeriodicTimer
<1> HIDE DEF reading, again
<1>4. RunInv'
  BY EventsBounded, Marked, SyncFacts DEF PeriodicTimer, gate, run, SyncInv
<1> QED BY <1>1, <1>2, <1>3, <1>4, Reschedule DEF PeriodicTimer, gate, SyncInv

LEMMA IntegrityDoneKeeps ==
    ASSUME SyncInv, NEW r \in Realm, IntegrityDone(r) PROVE SyncInv'
<1> DEFINE i == IF sched[r].again /\ Active(r) THEN "reading" ELSE "idle"
           s == [sched[r] EXCEPT !.again = FALSE, !.integrity = i]
<1>1. s \in Scheduler /\ Orderly(s, life[r]) /\ s.started = sched[r].started
  <2>1. i \in {"idle", "reading", "cut"}
    OBVIOUS
  <2> HIDE DEF i
  <2> QED BY <2>1, SyncFacts DEF Scheduler, Orderly
<1>2. UNCHANGED <<life, epoch, run, events, enabled, dirty, fresh>>
  BY DEF IntegrityDone
<1>3. CASE Schedule(r, s) /\ UNCHANGED across
  <2>1. RunInv'
    BY <1>2, <1>3, Marked, SyncFacts DEF run
  <2> HIDE DEF s
  <2> QED BY <1>1, <1>2, <1>3, <2>1, Reschedule DEF SyncInv
<1>4. CASE Active(r) /\ \E t \in Triggers : Queue(r, s, t)
  <2> HIDE DEF s
  <2> QED BY <1>1, <1>2, <1>4, QueueKeeps, SyncFacts DEF Active
<1> QED BY <1>3, <1>4 DEF IntegrityDone, Triggers

LEMMA RefreshKeeps == ASSUME SyncInv, NEW r \in Realm, Refresh(r) PROVE SyncInv'
<1> DEFINE flipped == IF "periodic" \in enabled[r] THEN enabled[r] \ {"periodic"}
                      ELSE enabled[r] \cup {"periodic"}
           timers == IF Active(r) /\ "periodic" \in flipped
                     THEN sched[r].timers \cup {"periodic"}
                     ELSE sched[r].timers \ {"periodic"}
           s == [sched[r] EXCEPT !.timers = timers]
<1>1. Schedule(r, s)
  BY DEF Refresh
<1>2. enabled' \in [Realm -> SUBSET Triggers]
  BY SyncFacts DEF Refresh, Triggers, SyncInv
<1>3. s \in Scheduler /\ Orderly(s, life[r])
  <2>1. /\ timers \subseteq Timers
        /\ ~Active(r) => timers = {}
        /\ "drain" \in sched[r].timers => "drain" \in timers
    BY SyncFacts DEF Scheduler, Timers, Orderly, Active
  <2> HIDE DEF timers
  <2> QED BY <2>1, SyncFacts DEF Scheduler, Orderly, Active
<1>4. RunInv'
  BY EventsBounded, Marked, SyncFacts DEF Refresh, gate, run, SyncInv
<1> HIDE DEF s
<1> QED BY <1>1, <1>2, <1>3, <1>4, Reschedule DEF Refresh, gate, SyncInv

----------------------------------------------------------------------------
(* The lifecycle *)

LEMMA LostIsTyped ==
    ASSUME SyncInv, NEW r \in Realm, Lost(r) \/ CutShort(r)
    PROVE  dirty' \in [Realm -> Change] /\ fresh' \in [Realm -> BOOLEAN]
BY DEF Lost, CutShort, SyncInv, Change

LEMMA NotedIsTyped ==
    ASSUME SyncInv, NEW r \in Realm, Noted(r)
    PROVE  across' \in [Realm -> BOOLEAN]
<1>1. (across[r] \/ Carried(r) # "none") \in BOOLEAN
  BY SyncFacts
<1> QED BY <1>1, SyncFacts DEF Noted

LEMMA CarriedIsTrigger ==
    ASSUME SyncInv, NEW r \in Realm
    PROVE  Carried(r) \in Triggers \cup {"none"}
BY HigherIsOne, SyncFacts DEF Carried, Scheduler

\* it has no timer and nothing pending
LEMMA StoppedIsOrderly ==
    ASSUME SyncInv, NEW r \in Realm
    PROVE  /\ Stopped(r) \in Scheduler
           /\ Stopped(r).timers = {} /\ Stopped(r).pending = "none"
<1> DEFINE d == Higher(sched[r].deferred, Carried(r))
           i == IF sched[r].integrity = "idle" THEN "idle" ELSE "cut"
<1>1. /\ d \in Triggers \cup {"none"}
      /\ i \in {"idle", "reading", "cut"}
  BY CarriedIsTrigger, HigherIsOne, SyncFacts DEF Scheduler
<1>2. Stopped(r) = [sched[r] EXCEPT !.deferred = d, !.pending = "none",
                                    !.timers = {}, !.integrity = i]
  BY SyncFacts DEF Stopped, Scheduler
<1> HIDE DEF d, i
<1> QED BY <1>1, <1>2, SyncFacts DEF Scheduler

LEMMA StartedIsOrderly ==
    ASSUME NEW r \in Realm
    PROVE  Started(r) \in Scheduler /\ Orderly(Started(r), "active")
<1> DEFINE s == [Quiet EXCEPT !.started = TRUE]
           timers == IF "periodic" \in enabled[r] THEN {"periodic"} ELSE {}
<1>1. /\ s \in Scheduler /\ s.started /\ s.timers = {}
      /\ s.pending = "none" /\ s.deferred = "none"
  <2>1. /\ Quiet \in Scheduler
        /\ Quiet.timers = {} /\ Quiet.pending = "none" /\ Quiet.deferred = "none"
    <3>1. 0 \in 0..2
      OBVIOUS
    <3> QED BY <3>1 DEF Quiet, Scheduler
  <2> QED BY <2>1 DEF Scheduler
<1> HIDE DEF s
<1>2. /\ timers \subseteq Timers
      /\ Started(r) = [s EXCEPT !.timers = timers]
  BY <1>1 DEF Started, WithPeriodic, s, Timers
<1> HIDE DEF timers
<1> QED BY <1>1, <1>2 DEF Scheduler, Orderly

\* the realm's lifecycle is what it was entered as, and the others' is the same
LEMMA Entered ==
    ASSUME SyncInv, NEW r \in Realm, NEW next \in Lifecycle, Enter(r, next)
    PROVE  life'[r] = next /\ \A q \in Realm \ {r} : life'[q] = life[q]
BY DEF Enter, SyncInv, RunInv, RunTypeOK

LEMMA SuspendSyncKeeps == ASSUME SyncInv, NEW r \in Realm, SuspendSync(r) PROVE SyncInv'
<1>1. RunInv'
  BY NotedIsTyped, SuspendKeeps DEF SuspendSync, SyncInv
<1>2. life'[r] = "suspending" /\ \A q \in Realm \ {r} : life'[q] = life[q]
  BY Entered DEF SuspendSync, Suspend, Lifecycle
<1>3. Stopped(r) \in Scheduler /\ Orderly(Stopped(r), life'[r])
  BY <1>2, StoppedIsOrderly DEF Orderly
<1> QED BY <1>1, <1>2, <1>3, LostIsTyped, Reschedule DEF SuspendSync, SyncInv

LEMMA SettleSyncKeeps == ASSUME SyncInv, NEW r \in Realm, SettleSync(r) PROVE SyncInv'
<1>1. RunInv'
  BY SettleKeeps DEF SettleSync, SyncInv
<1>2. /\ life[r] = "suspending" /\ life'[r] = "suspended"
      /\ \A q \in Realm \ {r} : life'[q] = life[q]
  BY Entered DEF SettleSync, Settle, Lifecycle
<1>3. /\ Schedule(r, sched[r])
      /\ sched[r] \in Scheduler /\ Orderly(sched[r], life'[r])
  BY <1>2, SyncFacts DEF SettleSync, Schedule, SyncInv, Orderly
<1> QED BY <1>1, <1>2, <1>3, Reschedule DEF SettleSync, SyncInv

LEMMA ReplayedIsTrigger ==
    ASSUME SyncInv, NEW r \in Realm
    PROVE  Replayed(r) \in Triggers \cup {"none"}
BY HigherIsOne, SyncFacts DEF Replayed, Scheduler, Triggers

LEMMA ResumeSyncKeeps == ASSUME SyncInv, NEW r \in Realm, ResumeSync(r) PROVE SyncInv'
<1> DEFINE d == [sched[r] EXCEPT !.deferred = "none"]
           s == WithPeriodic(r, d)
           q == Queued(Queued(s, Replayed(r)), IfEnabled(r, "startup-resume"))
<1>1. life'[r] = "active" /\ \A p \in Realm \ {r} : life'[p] = life[p]
  BY Entered DEF ResumeSync, Wake, Lifecycle
<1>2. RunInv'
  <2>1. CASE Wake(r) /\ UNCHANGED queued
    BY <2>1, WakeKeeps, SyncFacts DEF SyncInv
  <2>2. CASE /\ Happen /\ across' = [across EXCEPT ![r] = FALSE]
             /\ UNCHANGED <<life, epoch, run>>
    BY <2>2, EventsBounded, Marked, SyncFacts DEF run, SyncInv
  <2> QED BY <2>1, <2>2 DEF ResumeSync
<1>3. s \in Scheduler /\ s.started /\ Orderly(s, "active")
  <2>1. d \in Scheduler /\ d.started /\ Orderly(d, "active") /\ d.deferred = "none"
    BY SyncFacts DEF ResumeSync, Scheduler, Orderly
  <2> DEFINE timers == IF "periodic" \in enabled[r] THEN d.timers \cup {"periodic"}
                       ELSE d.timers
  <2>2. /\ timers \subseteq Timers /\ ("drain" \in d.timers => "drain" \in timers)
        /\ s = [d EXCEPT !.timers = timers]
    BY <2>1 DEF WithPeriodic, Scheduler, Timers
  <2> HIDE DEF d, timers
  <2> QED BY <2>1, <2>2 DEF Scheduler, Orderly
<1> HIDE DEF s
<1>4. q \in Scheduler /\ Orderly(q, "active")
  BY <1>3, QueuedIsOrderly, ReplayedIsTrigger, SyncFacts
<1>5. Schedule(r, q) /\ UNCHANGED <<enabled, dirty, fresh>>
  BY DEF ResumeSync, s
<1> HIDE DEF q
<1> QED BY <1>1, <1>2, <1>4, <1>5, Reschedule DEF SyncInv

LEMMA DisposeSyncKeeps == ASSUME SyncInv, NEW r \in Realm, DisposeSync(r) PROVE SyncInv'
<1> DEFINE s == [Stopped(r) EXCEPT !.started = FALSE, !.pending = "none",
                                   !.deferred = "none"]
<1>1. RunInv'
  BY NotedIsTyped, DisposeKeeps DEF DisposeSync, SyncInv
<1>2. \A q \in Realm \ {r} : life'[q] = life[q]
  BY Entered DEF DisposeSync, Dispose, Lifecycle
<1>3. s \in Scheduler /\ s.timers = {} /\ s.pending = "none" /\ ~s.started
  BY StoppedIsOrderly DEF Scheduler
<1>4. Schedule(r, s)
  BY DEF DisposeSync
<1> HIDE DEF s
<1>5. Orderly(s, life'[r])
  BY <1>3 DEF Orderly
<1> QED BY <1>1, <1>2, <1>3, <1>4, <1>5, LostIsTyped, Reschedule DEF DisposeSync, SyncInv

LEMMA ReplaceSyncKeeps == ASSUME SyncInv, NEW r \in Realm, ReplaceSync(r) PROVE SyncInv'
<1>1. RunInv'
  BY ReplaceKeeps DEF ReplaceSync, SyncInv
<1>2. life'[r] = "active" /\ \A q \in Realm \ {r} : life'[q] = life[q]
  BY Entered DEF ReplaceSync, Replace, Lifecycle
<1> QED BY <1>1, <1>2, StartedIsOrderly, Reschedule DEF ReplaceSync, SyncInv

LEMMA CrashSyncKeeps == ASSUME SyncInv, NEW r \in Realm, CrashSync(r) PROVE SyncInv'
<1>1. RunInv'
  BY CrashKeeps DEF CrashSync, SyncInv
<1>2. life'[r] = "active" /\ \A q \in Realm \ {r} : life'[q] = life[q]
  BY DEF CrashSync, Crash, SyncInv, RunInv, RunTypeOK
<1> QED BY <1>1, <1>2, StartedIsOrderly, LostIsTyped, Reschedule DEF CrashSync, SyncInv

----------------------------------------------------------------------------
(* The passes and the user *)

LEMMA RunKeeps ==
    ASSUME SyncInv, RunInv', UNCHANGED <<life, enabled, sched>>,
           dirty' \in [Realm -> Change], fresh' \in [Realm -> BOOLEAN]
    PROVE  SyncInv'
BY DEF SyncInv, Orderly

LEMMA StepKeeps == ASSUME SyncInv, NEW c \in Chain, Step(c) PROVE SyncInv'
<1>1. RunInv'
  BY StartPlanningKeeps, PlanNothingKeeps, BeginRunKeeps, GrantKeeps, DenyKeeps,
     StartKeeps, FreeKeeps, LeaveKeeps, StartOperationKeeps, EndOperationKeeps,
     FinishKeeps, FinishedKeeps
  DEF Step, ChainStep, SyncInv
<1>2. UNCHANGED life
  BY DEF Step, ChainStep, StartPlanning, PlanNothing, BeginRun, Grant, Deny, Start, Free,
         Leave, StartOperation, EndOperation, Finish, Finished, gate
<1>3. fresh' \in [Realm -> BOOLEAN]
  <2>1. (IF Begins(c) THEN life[Here(c)] = "active" ELSE fresh[Here(c)]) \in BOOLEAN
    BY HereIsRealm DEF SyncInv
  <2> QED BY <2>1, HereIsRealm DEF Step, SyncInv
<1>4. dirty' \in [Realm -> Change]
  <2> DEFINE d == IF Served(c) THEN "none"
                  ELSE IF Begins(c) /\ dirty[Here(c)] = "told" /\ life[Here(c)] # "active"
                       THEN "missed" ELSE dirty[Here(c)]
  <2>1. d \in Change
    BY HereIsRealm DEF SyncInv, Change
  <2>2. dirty' = [dirty EXCEPT ![Here(c)] = d]
    BY DEF Step
  <2> HIDE DEF d
  <2> QED BY <2>1, <2>2, HereIsRealm DEF SyncInv
<1> QED BY <1>1, <1>2, <1>3, <1>4, RunKeeps DEF Step

LEMMA UserEventKeeps == ASSUME SyncInv, NEW r \in Realm, UserEvent(r) PROVE SyncInv'
<1>1. RunInv'
  BY PauseKeeps, ResumeKeeps, CancelKeeps DEF UserEvent, SyncInv
<1>2. UNCHANGED life
  BY DEF UserEvent, Pause, Resume, Cancel, gate
<1> QED BY <1>1, <1>2, RunKeeps DEF UserEvent, SyncInv

----------------------------------------------------------------------------
(* Theorems *)

LEMMA SyncInitially == SyncInit => SyncInv
<1> SUFFICES ASSUME SyncInit PROVE SyncInv
  OBVIOUS
<1>1. RunInv
  BY RunInitially DEF SyncInit
<1>2. /\ enabled \in [Realm -> SUBSET Triggers]
      /\ dirty \in [Realm -> Change] /\ fresh \in [Realm -> BOOLEAN]
  BY SettingsAssumption DEF SyncInit, Change
<1>3. \A r \in Realm : Started(r) \in Scheduler /\ Orderly(Started(r), "active")
  BY StartedIsOrderly
<1>4. \A r \in Realm : life[r] = "active" /\ sched[r] = Started(r)
  BY DEF SyncInit, RunInit
<1>5. sched \in [Realm -> Scheduler]
  BY <1>3 DEF SyncInit
<1>6. \A r \in Realm : Orderly(sched[r], life[r])
  BY <1>3, <1>4
<1> QED BY <1>1, <1>2, <1>5, <1>6 DEF SyncInv

LEMMA SyncStep == SyncInv /\ [SyncNext]_syncVars => SyncInv'
<1> SUFFICES ASSUME SyncInv, [SyncNext]_syncVars PROVE SyncInv'
  OBVIOUS
<1>1. ASSUME NEW c \in Chain, Step(c) PROVE SyncInv'
  BY <1>1, StepKeeps
<1>2. ASSUME NEW r \in Realm, SchedulerStep(r) PROVE SyncInv'
  BY <1>2, DrainKeeps, ChangeTimerKeeps, VaultReadyKeeps DEF SchedulerStep
<1>3. ASSUME NEW r \in Realm,
             LocalChange(r) \/ PeriodicTimer(r) \/ IntegrityDone(r) \/ Refresh(r)
      PROVE  SyncInv'
  BY <1>3, LocalChangeKeeps, PeriodicTimerKeeps, IntegrityDoneKeeps, RefreshKeeps
<1>4. ASSUME NEW r \in Realm, Lifecycles(r) PROVE SyncInv'
  BY <1>4, SuspendSyncKeeps, SettleSyncKeeps, ResumeSyncKeeps, DisposeSyncKeeps,
     ReplaceSyncKeeps, CrashSyncKeeps
  DEF Lifecycles
<1>5. ASSUME NEW r \in Realm, UserEvent(r) PROVE SyncInv'
  BY <1>5, UserEventKeeps
<1>6. CASE UNCHANGED syncVars
  <2>1. RunInv'
    BY <1>6, Marked, SyncFacts, GateKeeps DEF syncVars, runVars, SyncInv, RunInv, RunTypeOK
  <2> QED BY <1>6, <2>1, RunKeeps DEF syncVars, runVars, SyncInv
<1> QED BY <1>1, <1>2, <1>3, <1>4, <1>5, <1>6 DEF SyncNext

\* The scheduler is orderly and the run coordinator below it keeps its invariant,
\* whatever overlaps a suspension, a disposal or a crash (scheduler.ts).
THEOREM SyncInvariantHolds == SyncSpec => []SyncInv
BY SyncInitially, SyncStep, PTL DEF SyncSpec

\* Every variable of scheduler and coordinator keeps its type.
THEOREM SyncTypeCorrect == SyncSpec => []SyncTypeOK
<1>1. SyncInv => SyncTypeOK
  BY DEF SyncInv, RunInv, SyncTypeOK
<1> QED BY <1>1, SyncInvariantHolds, PTL

\* No timer exists while the app is not active or the scheduler is stopped, even
\* one set up by a drain or a refresh that overlaps it (beginStopping, refresh).
THEOREM NoTimerOutlivesTheApp == SyncSpec => []QuietWhenStopped
<1>1. SyncInv => QuietWhenStopped
  BY DEF SyncInv, Orderly, QuietWhenStopped, Active
<1> QED BY <1>1, SyncInvariantHolds, PTL

\* What is pending while the app is active will be taken, and a resume leaves
\* nothing behind (ensureDrain, scheduleDelayedDrain, handleResume).
THEOREM NothingIsStranded == SyncSpec => []NothingStranded
<1>1. SyncInv => NothingStranded
  BY DEF SyncInv, Orderly, NothingStranded, Active
<1> QED BY <1>1, SyncInvariantHolds, PTL

\* The scheduler does not disturb the exclusion of runs: under it, too, at most
\* one chain of all realms executes operations (CoreRunCoordinator.beginRun).
THEOREM ScheduledRunsExclude == SyncSpec => []OneMutator
<1>1. SyncInv => OneMutator
  BY DEF SyncInv, RunInv, Mirrors, Holding, OneMutator, Mutating
<1> QED BY <1>1, SyncInvariantHolds, PTL
----------------------------------------------------------------------------
(* Where a change is until its pass has seen it *)

Tracked(r) ==
    /\ dirty[r] # "none" \/ "change" \in sched[r].timers => "local-change" \in enabled[r]
    /\ dirty[r] = "told" => sched[r].started /\ sched[r].ready
    /\ disposing[r] => ~sched[r].started
    /\ Owing(r) /\ sched[r].ready => OnItsWay(r)
AllTracked == \A r \in Realm : Tracked(r)

LEMMA DrainIsChain == ASSUME NEW r \in Realm
                      PROVE  <<r, Drain>> \in Chain /\ Here(<<r, Drain>>) = r
BY CoordinatorAssumption DEF Chain, Here

\* a realm in which nothing happens
LEMMA Elsewhere ==
    ASSUME NEW q \in Realm, Tracked(q),
           sched'[q] = sched[q], dirty'[q] = dirty[q], enabled'[q] = enabled[q],
           fresh'[q] = fresh[q], life'[q] = life[q], across'[q] = across[q],
           disposing'[q] = disposing[q], queued'[q] = queued[q],
           coord'[q].deferred = coord[q].deferred,
           \A c \in Chain : Here(c) = q =>
              chain'[c].again = chain[c].again /\ chain'[c].pc = chain[c].pc
    PROVE  Tracked(q)'
<1>1. OnItsWay(q) => OnItsWay(q)'
  BY DrainIsChain DEF OnItsWay, At, Here
<1>2. Owing(q)' => Owing(q)
  BY DEF Owing, Active
<1> QED BY <1>1, <1>2 DEF Tracked

\* the scheduler of r moves, and what is on its way stays so
LEMMA SchedulerTracks ==
    ASSUME SyncInv, AllTracked, NEW r \in Realm, NEW s, Schedule(r, s),
           UNCHANGED <<life, disposing, enabled, dirty, fresh, coord, chain>>,
           \A q \in Realm \ {r} : across'[q] = across[q] /\ queued'[q] = queued[q],
           across[r] => across'[r], queued[r] => queued'[r],
           s.started = sched[r].started,
           sched[r].ready => s.ready,
           s.ready => \/ sched[r].ready \/ s.pending # "none" \/ life[r] # "active"
                      \/ "startup-resume" \notin enabled[r],
           "change" \in s.timers => "change" \in sched[r].timers,
           "change" \in sched[r].timers => "change" \in s.timers \/ s.pending # "none",
           sched[r].pending # "none" => s.pending # "none" \/ queued'[r],
           life[r] # "active" /\ sched[r].deferred # "none" => s.deferred # "none"
    PROVE  AllTracked'
<1>1. sched'[r] = s /\ \A q \in Realm \ {r} : sched'[q] = sched[q]
  BY DEF Schedule, SyncInv
<1>2. \A q \in Realm \ {r} : Tracked(q)'
  BY <1>1, Elsewhere DEF AllTracked
<1>3. Tracked(r)
  BY DEF AllTracked
<1>4. OnItsWay(r) => OnItsWay(r)'
  BY <1>1, DrainIsChain DEF OnItsWay, At, Here
<1>5. Owing(r)' => Owing(r)
  BY <1>1 DEF Owing, Active
<1>6. Owing(r)' /\ s.ready /\ ~sched[r].ready => s.pending # "none"
  BY <1>1, <1>3 DEF Owing, Active, Tracked
<1>7. s.pending # "none" => OnItsWay(r)'
  BY <1>1 DEF OnItsWay
<1>8. Tracked(r)'
  BY <1>1, <1>3, <1>4, <1>5, <1>6, <1>7 DEF Tracked
<1> QED BY <1>2, <1>8 DEF AllTracked

\* what queueing leaves of a scheduler
LEMMA QueuedFields ==
    ASSUME NEW s \in Scheduler, NEW t \in Triggers \cup {"none"}
    PROVE  /\ Queued(s, t) \in Scheduler
           /\ Queued(s, t).started = s.started /\ Queued(s, t).ready = s.ready
           /\ Queued(s, t).timers = s.timers /\ Queued(s, t).deferred = s.deferred
           /\ s.pending # "none" \/ t # "none" => Queued(s, t).pending # "none"
<1> DEFINE h == Higher(s.pending, t)
           p == [s EXCEPT !.pending = h]
<1>1. /\ h \in Triggers \cup {"none"}
      /\ s.pending # "none" \/ t # "none" => h # "none"
  BY DEF Higher, Priority, Scheduler, Triggers
<1> HIDE DEF h
<1>2. /\ p \in Scheduler /\ p.pending = h
      /\ p.started = s.started /\ p.ready = s.ready
      /\ p.timers = s.timers /\ p.deferred = s.deferred
  BY <1>1 DEF Scheduler
<1>3. Queued(s, t) \in {s, Drained(p)} /\ (t # "none" => Queued(s, t) = Drained(p))
  BY DEF Queued, p, h
<1> HIDE DEF p
<1>4. Drained(p) \in {p, [p EXCEPT !.drain = "looping", !.runs = 0]}
  BY DEF Drained
<1>5. /\ Drained(p) \in Scheduler /\ Drained(p).pending = p.pending
      /\ Drained(p).started = p.started /\ Drained(p).ready = p.ready
      /\ Drained(p).timers = p.timers /\ Drained(p).deferred = p.deferred
  <2>1. 0 \in 0..2
    OBVIOUS
  <2> QED BY <1>2, <1>4, <2>1 DEF Scheduler
<1> QED BY <1>1, <1>2, <1>3, <1>5

LEMMA QueueTracks ==
    ASSUME SyncInv, AllTracked, NEW r \in Realm, NEW s \in Scheduler,
           NEW t \in Triggers \cup {"none"}, Queue(r, s, t),
           UNCHANGED <<life, run, enabled, dirty, fresh>>,
           s.started = sched[r].started,
           sched[r].ready => s.ready,
           s.ready => \/ sched[r].ready \/ t # "none" \/ "startup-resume" \notin enabled[r],
           "change" \in s.timers => "change" \in sched[r].timers,
           "change" \in sched[r].timers =>
              "change" \in s.timers \/ (t # "none" /\ life[r] = "active"),
           s.pending = sched[r].pending, s.deferred = sched[r].deferred
    PROVE  AllTracked'
<1>1. CASE life[r] = "active" \/ t = "none"
  <2>1. Schedule(r, Queued(s, t)) /\ UNCHANGED across
    BY <1>1 DEF Queue
  <2> QED BY <1>1, <2>1, QueuedFields, SchedulerTracks DEF run
<1>2. CASE ~(life[r] = "active" \/ t = "none")
  <2> DEFINE d == [s EXCEPT !.deferred = Higher(@, t)]
  <2>1. Schedule(r, d) /\ across' = [across EXCEPT ![r] = TRUE]
    BY <1>2 DEF Queue
  <2>2. across'[r] /\ \A q \in Realm \ {r} : across'[q] = across[q]
    BY <2>1, SyncFacts
  <2>3. /\ d.started = s.started /\ d.ready = s.ready /\ d.timers = s.timers
        /\ d.pending = s.pending /\ d.deferred = Higher(s.deferred, t)
    BY DEF Scheduler
  <2>4. Higher(s.deferred, t) # "none"
    BY <1>2 DEF Higher, Priority, Triggers
  <2> HIDE DEF d
  <2> QED BY <1>2, <2>1, <2>2, <2>3, <2>4, SchedulerTracks DEF run
<1> QED BY <1>1, <1>2

LEMMA DrainTracks ==
    ASSUME SyncInv, AllTracked, HandedOn, NEW r \in Realm,
           \/ DrainTakes(r) \/ DrainReturns(r) \/ DrainEnds(r)
           \/ DrainSettles(r) \/ DelayedDrain(r)
    PROVE  AllTracked'
<1>1. CASE DrainTakes(r)
  <2> DEFINE s == [sched[r] EXCEPT !.drain = "awaiting", !.runs = @ + 1,
                                   !.pending = "none"]
  <2>1. /\ s.started = sched[r].started /\ s.ready = sched[r].ready
        /\ s.timers = sched[r].timers /\ s.deferred = sched[r].deferred
    BY SyncFacts DEF Scheduler
  <2>2. Schedule(r, s)
    BY <1>1 DEF DrainTakes
  <2> HIDE DEF s
  <2>3. ~disposing[r]
    BY <1>1 DEF DrainTakes, More, Active, HandedOn
  <2>4. queued'[r] /\ \A q \in Realm \ {r} : queued'[q] = queued[q]
    BY <1>1, <2>3, SyncFacts DEF DrainTakes
  <2>5. UNCHANGED <<life, disposing, enabled, dirty, fresh, coord, chain, across>>
    BY <1>1 DEF DrainTakes, gate
  <2> QED BY <2>1, <2>2, <2>4, <2>5, SchedulerTracks
<1>2. CASE DrainReturns(r) \/ DrainEnds(r) \/ DrainSettles(r) \/ DelayedDrain(r)
  <2>1. UNCHANGED <<runVars, enabled, dirty, fresh>>
    BY <1>2 DEF DrainReturns, DrainEnds, DrainSettles, DelayedDrain
  <2>2. \E s : /\ Schedule(r, s)
               /\ s.started = sched[r].started /\ s.ready = sched[r].ready
               /\ "change" \in s.timers <=> "change" \in sched[r].timers
               /\ s.pending = sched[r].pending /\ s.deferred = sched[r].deferred
    <3>1. CASE DrainReturns(r)
      BY <3>1, SyncFacts DEF DrainReturns, Scheduler
    <3>2. CASE DrainEnds(r)
      BY <3>2, SyncFacts DEF DrainEnds, Scheduler
    <3>3. CASE DrainSettles(r)
      <4>1. /\ Settled(r).started = sched[r].started
            /\ Settled(r).ready = sched[r].ready
            /\ "change" \in Settled(r).timers <=> "change" \in sched[r].timers
            /\ Settled(r).pending = sched[r].pending
            /\ Settled(r).deferred = sched[r].deferred
        BY SyncFacts DEF Settled, Scheduler
      <4> QED BY <3>3, <4>1 DEF DrainSettles
    <3>4. CASE DelayedDrain(r)
      <4> DEFINE e == Expired(r, "drain")
      <4>1. /\ e \in Scheduler
            /\ e.started = sched[r].started /\ e.ready = sched[r].ready
            /\ "change" \in e.timers <=> "change" \in sched[r].timers
            /\ e.pending = sched[r].pending /\ e.deferred = sched[r].deferred
        BY SyncFacts DEF Expired, Scheduler
      <4>2. Schedule(r, Drained(e))
        BY <3>4 DEF DelayedDrain
      <4> HIDE DEF e
      <4>3. Drained(e) \in {e, [e EXCEPT !.drain = "looping", !.runs = 0]}
        BY DEF Drained
      <4>4. /\ Drained(e).started = e.started /\ Drained(e).ready = e.ready
            /\ Drained(e).timers = e.timers
            /\ Drained(e).pending = e.pending /\ Drained(e).deferred = e.deferred
        BY <4>1, <4>3 DEF Scheduler
      <4> QED BY <4>1, <4>2, <4>4
    <3> QED BY <1>2, <3>1, <3>2, <3>3, <3>4
  <2> QED BY <2>1, <2>2, SchedulerTracks DEF runVars
<1> QED BY <1>1, <1>2

LEMMA AskingTracks ==
    ASSUME SyncInv, AllTracked, NEW r \in Realm,
           ChangeTimer(r) \/ VaultReady(r) \/ PeriodicTimer(r) \/ IntegrityDone(r)
    PROVE  AllTracked'
<1>1. CASE ChangeTimer(r)
  <2> DEFINE e == Expired(r, "change")
  <2>1. /\ e \in Scheduler
        /\ e.started = sched[r].started /\ e.ready = sched[r].ready
        /\ "change" \notin e.timers
        /\ e.pending = sched[r].pending /\ e.deferred = sched[r].deferred
    BY SyncFacts DEF Expired, Scheduler
  <2>2. life[r] = "active"
    BY <1>1, SyncFacts DEF ChangeTimer, Orderly
  <2>3. Queue(r, e, "local-change") /\ UNCHANGED <<life, run, enabled, dirty, fresh>>
    BY <1>1 DEF ChangeTimer
  <2>4. "local-change" \in Triggers /\ "local-change" # "none"
    BY DEF Triggers
  <2> HIDE DEF e
  <2> QED BY <2>1, <2>2, <2>3, <2>4, QueueTracks
<1>2. CASE VaultReady(r)
  <2> DEFINE s == [sched[r] EXCEPT !.ready = TRUE]
  <2>1. /\ s \in Scheduler /\ s.started = sched[r].started /\ s.ready
        /\ s.timers = sched[r].timers
        /\ s.pending = sched[r].pending /\ s.deferred = sched[r].deferred
    BY SyncFacts DEF Scheduler
  <2>2. /\ Queue(r, s, IfEnabled(r, "startup-resume"))
        /\ UNCHANGED <<life, run, enabled, dirty, fresh>>
    BY <1>2 DEF VaultReady
  <2>3. IfEnabled(r, "startup-resume") # "none" \/ "startup-resume" \notin enabled[r]
    BY DEF IfEnabled
  <2> HIDE DEF s
  <2> QED BY <2>1, <2>2, <2>3, SyncFacts, QueueTracks
<1>3. CASE PeriodicTimer(r)
  <2>1. \E s : /\ Schedule(r, s)
               /\ s.started = sched[r].started /\ s.ready = sched[r].ready
               /\ s.timers = sched[r].timers
               /\ s.pending = sched[r].pending /\ s.deferred = sched[r].deferred
    BY <1>3, SyncFacts DEF PeriodicTimer, Scheduler
  <2> QED BY <1>3, <2>1, SchedulerTracks DEF PeriodicTimer, gate, run
<1>4. CASE IntegrityDone(r)
  <2> DEFINE i == IF sched[r].again /\ Active(r) THEN "reading" ELSE "idle"
             s == [sched[r] EXCEPT !.again = FALSE, !.integrity = i]
  <2>1. /\ s \in Scheduler
        /\ s.started = sched[r].started /\ s.ready = sched[r].ready
        /\ s.timers = sched[r].timers
        /\ s.pending = sched[r].pending /\ s.deferred = sched[r].deferred
    <3>1. i \in {"idle", "reading", "cut"}
      OBVIOUS
    <3> HIDE DEF i
    <3> QED BY <3>1, SyncFacts DEF Scheduler
  <2>2. UNCHANGED <<life, run, enabled, dirty, fresh>>
    BY <1>4 DEF IntegrityDone
  <2>3. \/ Schedule(r, s) /\ UNCHANGED across
        \/ \E t \in Triggers : Queue(r, s, t)
    BY <1>4 DEF IntegrityDone, Triggers
  <2> HIDE DEF s
  <2>4. CASE Schedule(r, s) /\ UNCHANGED across
    BY <2>1, <2>2, <2>4, SchedulerTracks DEF run
  <2>5. CASE \E t \in Triggers : Queue(r, s, t)
    BY <2>1, <2>2, <2>5, QueueTracks
  <2> QED BY <2>3, <2>4, <2>5
<1> QED BY <1>1, <1>2, <1>3, <1>4

LEMMA RefreshTracks ==
    ASSUME SyncInv, AllTracked, NEW r \in Realm, Refresh(r) PROVE AllTracked'
<1>1. PICK e, t : /\ enabled' = [enabled EXCEPT ![r] = e]
                  /\ e \in {enabled[r] \ {"periodic"}, enabled[r] \cup {"periodic"}}
                  /\ Schedule(r, [sched[r] EXCEPT !.timers = t])
                  /\ t \in {sched[r].timers \ {"periodic"},
                            sched[r].timers \cup {"periodic"}}
  BY DEF Refresh
<1>2. UNCHANGED <<gate, run, dirty, fresh>>
  BY DEF Refresh
<1> DEFINE s == [sched[r] EXCEPT !.timers = t]
<1>3. /\ s.started = sched[r].started /\ s.ready = sched[r].ready /\ s.timers = t
      /\ s.pending = sched[r].pending /\ s.deferred = sched[r].deferred
  BY SyncFacts DEF Scheduler
<1>4. /\ sched'[r] = s /\ \A q \in Realm \ {r} : sched'[q] = sched[q]
      /\ enabled'[r] = e /\ \A q \in Realm \ {r} : enabled'[q] = enabled[q]
  BY <1>1 DEF Schedule, SyncInv
<1> HIDE DEF s
<1>5. \A q \in Realm \ {r} : Tracked(q)'
  BY <1>2, <1>4, Elsewhere DEF AllTracked, gate, run
<1>6. Tracked(r)
  BY DEF AllTracked
<1>7. OnItsWay(r) => OnItsWay(r)'
  BY <1>1, <1>2, <1>3, <1>4, DrainIsChain DEF OnItsWay, At, Here, gate, run
<1>8. Owing(r)' => Owing(r)
  BY <1>1, <1>2, <1>3, <1>4 DEF Owing, Active, gate
<1>9. Tracked(r)'
  BY <1>1, <1>2, <1>3, <1>4, <1>6, <1>7, <1>8 DEF Tracked, gate, run
<1> QED BY <1>5, <1>9 DEF AllTracked

LEMMA LocalChangeTracks ==
    ASSUME SyncInv, AllTracked, NEW r \in Realm, LocalChange(r) PROVE AllTracked'
<1> DEFINE told == sched[r].started /\ sched[r].ready
<1>1. /\ dirty'[r] = IF told THEN "told" ELSE "missed"
      /\ fresh'[r] = FALSE
      /\ \A q \in Realm \ {r} : dirty'[q] = dirty[q] /\ fresh'[q] = fresh[q]
      /\ UNCHANGED <<life, epoch, run, enabled>> /\ "local-change" \in enabled[r]
  BY DEF LocalChange, SyncInv
<1>2. /\ \A q \in Realm \ {r} : sched'[q] = sched[q] /\ across'[q] = across[q]
      /\ sched'[r].started = sched[r].started /\ sched'[r].ready = sched[r].ready
      /\ told => \/ "change" \in sched'[r].timers
                 \/ life[r] # "active" /\ across'[r]
  <2>1. CASE ~told /\ UNCHANGED <<sched, across>>
    BY <2>1
  <2>2. CASE /\ life[r] # "active" /\ Schedule(r, Deferred(r))
             /\ across' = [across EXCEPT ![r] = TRUE]
    <3>1. /\ Deferred(r).started = sched[r].started /\ Deferred(r).ready = sched[r].ready
      BY SyncFacts DEF Deferred, Scheduler
    <3> QED BY <2>2, <3>1, SyncFacts DEF Schedule, SyncInv
  <2>3. CASE /\ Schedule(r, [sched[r] EXCEPT !.timers = @ \cup {"change"}])
             /\ UNCHANGED across
    <3> DEFINE s == [sched[r] EXCEPT !.timers = @ \cup {"change"}]
    <3>1. /\ s.started = sched[r].started /\ s.ready = sched[r].ready
          /\ "change" \in s.timers
      BY SyncFacts DEF Scheduler
    <3> QED BY <2>3, <3>1 DEF Schedule, SyncInv
  <2> QED BY <2>1, <2>2, <2>3 DEF LocalChange
<1>3. \A q \in Realm \ {r} : Tracked(q)'
  BY <1>1, <1>2, Elsewhere DEF AllTracked, run
<1>4. Tracked(r)
  BY DEF AllTracked
<1>5. Owing(r)' /\ sched'[r].ready => told
  BY <1>1, <1>2 DEF Owing, Active
<1>6. told => OnItsWay(r)'
  BY <1>1, <1>2 DEF OnItsWay
<1>7. Tracked(r)'
  BY <1>1, <1>2, <1>4, <1>5, <1>6 DEF Tracked, run
<1> QED BY <1>3, <1>7 DEF AllTracked

\* what an event leaves of the chains and coordinators
LEMMA ToldChains ==
    ASSUME SyncInv, NEW r \in Realm, Tell(r), NEW k, Set(r, k),
           k \in {Cancelled(r), [Cancelled(r) EXCEPT !.paused = TRUE]}
    PROVE  /\ \A c \in Chain : /\ chain'[c].again = chain[c].again
                               /\ chain'[c].pc = chain[c].pc
           /\ \A q \in Realm : coord'[q].deferred = coord[q].deferred
<1>1. /\ chain \in [Chain -> State] /\ coord \in [Realm -> Coordinator]
      /\ coord[r] \in Coordinator
  BY DEF SyncInv, RunInv, RunTypeOK
<1>2. \A c \in Chain : chain'[c].again = chain[c].again /\ chain'[c].pc = chain[c].pc
  BY <1>1 DEF Tell, State
<1>3. Cancelled(r).deferred = coord[r].deferred
  BY <1>1 DEF Cancelled, Coordinator
<1>4. k.deferred = coord[r].deferred
  <2>1. Cancelled(r) \in Coordinator
    BY CancelledIsCoordinator DEF SyncInv
  <2>2. [Cancelled(r) EXCEPT !.paused = TRUE].deferred = Cancelled(r).deferred
    BY <2>1 DEF Coordinator
  <2> QED BY <1>3, <2>2
<1> QED BY <1>1, <1>2, <1>4 DEF Set

LEMMA HigherOfSome ==
    ASSUME NEW t \in Triggers \cup {"none"}, NEW u \in Triggers \cup {"none"},
           t # "none" \/ u # "none"
    PROVE  Higher(t, u) # "none"
BY DEF Higher, Priority, Triggers

LEMMA StoppedFields ==
    ASSUME SyncInv, NEW r \in Realm
    PROVE  /\ Stopped(r).started = sched[r].started
           /\ Stopped(r).ready = sched[r].ready
           /\ Carried(r) # "none" => Stopped(r).deferred # "none"
<1> DEFINE d == Higher(sched[r].deferred, Carried(r))
           i == IF sched[r].integrity = "idle" THEN "idle" ELSE "cut"
<1>1. Carried(r) # "none" => d # "none"
  BY CarriedIsTrigger, HigherOfSome, SyncFacts DEF Scheduler
<1>2. Stopped(r) = [sched[r] EXCEPT !.deferred = d, !.pending = "none",
                                    !.timers = {}, !.integrity = i]
  BY SyncFacts DEF Stopped, Scheduler
<1> HIDE DEF d, i
<1> QED BY <1>1, <1>2, SyncFacts DEF Scheduler

LEMMA StartedFields ==
    ASSUME NEW r \in Realm
    PROVE  ~Started(r).ready /\ "change" \notin Started(r).timers
<1> DEFINE timers == IF "periodic" \in enabled[r] THEN {"periodic"} ELSE {}
<1>1. Started(r) = [Quiet EXCEPT !.started = TRUE, !.timers = timers]
  BY DEF Started, WithPeriodic, Quiet
<1>2. "change" \notin timers
  OBVIOUS
<1> HIDE DEF timers
<1> QED BY <1>1, <1>2 DEF Quiet

LEMMA SuspendTracks ==
    ASSUME SyncInv, AllTracked, NEW r \in Realm, SuspendSync(r) PROVE AllTracked'
<1>1. /\ life[r] = "active" /\ life'[r] = "suspending"
      /\ \A q \in Realm \ {r} : life'[q] = life[q]
  BY Entered DEF SuspendSync, Suspend, Lifecycle
<1>2. /\ sched'[r] = Stopped(r) /\ \A q \in Realm \ {r} : sched'[q] = sched[q]
      /\ \A q \in Realm \ {r} :
            across'[q] = across[q] /\ dirty'[q] = dirty[q] /\ fresh'[q] = fresh[q]
      /\ dirty'[r] \in {dirty[r], "missed"} /\ (dirty[r] = "none" => dirty'[r] = "none")
      /\ dirty'[r] = "told" => ~(fresh[r] /\ ~At(<<r, Drain>>, "idle"))
      /\ UNCHANGED <<enabled, disposing, queued>>
  BY DEF SuspendSync, Suspend, Schedule, Noted, CutShort, SyncInv, RunInv, RunTypeOK
<1>3. /\ \A c \in Chain : chain'[c].again = chain[c].again /\ chain'[c].pc = chain[c].pc
      /\ \A q \in Realm : coord'[q].deferred = coord[q].deferred
  BY ToldChains DEF SuspendSync, Suspend
<1>4. \A q \in Realm \ {r} : Tracked(q)'
  BY <1>1, <1>2, <1>3, Elsewhere DEF AllTracked
<1>5. Tracked(r)
  BY DEF AllTracked
<1>6. /\ Stopped(r).timers = {} /\ Stopped(r).started = sched[r].started
      /\ Stopped(r).ready = sched[r].ready
      /\ Carried(r) # "none" => Stopped(r).deferred # "none"
  BY StoppedIsOrderly, StoppedFields
<1>7. ASSUME Owing(r)', sched'[r].ready PROVE OnItsWay(r)'
  <2>1. dirty'[r] = "told" /\ dirty[r] = "told"
    BY <1>1, <1>2, <1>7 DEF Owing, Active
  <2>2. OnItsWay(r) /\ "local-change" \in enabled[r]
    BY <1>2, <1>5, <1>6, <1>7, <2>1 DEF Tracked, Owing
  <2>3. CASE "change" \in sched[r].timers \/ sched[r].pending # "none"
    <3>1. Carried(r) # "none"
      BY <2>2, <2>3, HigherOfSome, SyncFacts DEF Carried, IfEnabled, Scheduler
    <3> QED BY <1>1, <1>2, <1>6, <3>1 DEF OnItsWay
  <2>4. CASE \/ coord[r].deferred \/ queued[r]
             \/ \E c \in Chain : Here(c) = r /\ chain[c].again
    BY <1>2, <1>3, <2>4 DEF OnItsWay, Here
  <2> QED BY <1>1, <1>2, <2>1, <2>2, <2>3, <2>4 DEF OnItsWay
<1>8. Tracked(r)'
  BY <1>2, <1>5, <1>6, <1>7 DEF Tracked
<1> QED BY <1>4, <1>8 DEF AllTracked

LEMMA SettleTracks ==
    ASSUME SyncInv, AllTracked, NEW r \in Realm, SettleSync(r) PROVE AllTracked'
<1>1. /\ life[r] = "suspending" /\ life'[r] = "suspended"
      /\ \A q \in Realm \ {r} : life'[q] = life[q]
  BY Entered DEF SettleSync, Settle, Lifecycle
<1>2. UNCHANGED <<across, coord, disposing, queued, chain, enabled, sched, dirty, fresh>>
  BY DEF SettleSync, Settle
<1>3. \A q \in Realm \ {r} : Tracked(q)'
  BY <1>1, <1>2, Elsewhere DEF AllTracked
<1>4. (Owing(r)' => Owing(r)) /\ (OnItsWay(r) => OnItsWay(r)')
  BY <1>1, <1>2, DrainIsChain DEF Owing, Active, OnItsWay, At, Here
<1>5. Tracked(r)'
  BY <1>2, <1>4 DEF AllTracked, Tracked
<1> QED BY <1>3, <1>5 DEF AllTracked

LEMMA ResumeTracks ==
    ASSUME SyncInv, AllTracked, NEW r \in Realm, ResumeSync(r) PROVE AllTracked'
<1> DEFINE d == [sched[r] EXCEPT !.deferred = "none"]
           s == WithPeriodic(r, d)
           one == Queued(s, Replayed(r))
           two == Queued(one, IfEnabled(r, "startup-resume"))
<1>1. life'[r] = "active" /\ \A p \in Realm \ {r} : life'[p] = life[p]
  BY Entered DEF ResumeSync, Wake, Lifecycle
<1>2. /\ UNCHANGED <<coord, disposing, queued, chain, enabled, dirty, fresh>>
      /\ \A p \in Realm \ {r} : across'[p] = across[p]
  <2>1. \A p \in Realm \ {r} : across'[p] = across[p]
    BY SyncFacts DEF ResumeSync, Wake
  <2>2. UNCHANGED <<coord, disposing, queued, chain, enabled, dirty, fresh>>
    BY DEF ResumeSync, Wake, run
  <2> QED BY <2>1, <2>2
<1>3. /\ s \in Scheduler
      /\ s.started = sched[r].started /\ s.ready = sched[r].ready
      /\ "change" \in s.timers <=> "change" \in sched[r].timers
      /\ s.pending = sched[r].pending
  <2>1. /\ d \in Scheduler
        /\ d.started = sched[r].started /\ d.ready = sched[r].ready
        /\ d.timers = sched[r].timers /\ d.pending = sched[r].pending
    BY SyncFacts DEF Scheduler
  <2> DEFINE timers == IF "periodic" \in enabled[r] THEN d.timers \cup {"periodic"}
                       ELSE d.timers
  <2>2. /\ timers \subseteq Timers /\ ("change" \in d.timers <=> "change" \in timers)
        /\ s = [d EXCEPT !.timers = timers]
    BY <2>1 DEF WithPeriodic, Scheduler, Timers
  <2> HIDE DEF d, timers
  <2> QED BY <2>1, <2>2 DEF Scheduler
<1>4. Schedule(r, two)
  BY DEF ResumeSync
<1> HIDE DEF s
<1>5. /\ one \in Scheduler
      /\ one.started = s.started /\ one.ready = s.ready /\ one.timers = s.timers
      /\ s.pending # "none" \/ Replayed(r) # "none" => one.pending # "none"
  BY <1>3, QueuedFields, ReplayedIsTrigger
<1> HIDE DEF one
<1>6. /\ two.started = one.started /\ two.ready = one.ready /\ two.timers = one.timers
      /\ one.pending # "none" \/ IfEnabled(r, "startup-resume") # "none"
            => two.pending # "none"
  BY <1>5, QueuedFields, SyncFacts
<1> HIDE DEF two
<1>7. sched'[r] = two /\ \A p \in Realm \ {r} : sched'[p] = sched[p]
  BY <1>4 DEF Schedule, SyncInv
<1>8. \A p \in Realm \ {r} : Tracked(p)'
  BY <1>1, <1>2, <1>7, Elsewhere DEF AllTracked
<1>9. Tracked(r)
  BY DEF AllTracked
<1>10. ASSUME Owing(r)', sched'[r].ready PROVE OnItsWay(r)'
  <2>1. CASE dirty[r] # "told"
    <3>1. IfEnabled(r, "startup-resume") # "none"
      BY <1>2, <1>10, <2>1 DEF Owing, IfEnabled
    <3> QED BY <1>6, <1>7, <3>1 DEF OnItsWay
  <2>2. CASE dirty[r] = "told"
    <3>1. OnItsWay(r) /\ "local-change" \in enabled[r]
      BY <1>9, <2>2 DEF Tracked, Owing
    <3>2. CASE sched[r].deferred # "none" \/ across[r]
      <4>1. Replayed(r) # "none"
        BY <3>1, <3>2, HigherOfSome, SyncFacts DEF Replayed, Scheduler, Triggers
      <4> QED BY <1>5, <1>6, <1>7, <4>1 DEF OnItsWay
    <3>3. CASE sched[r].pending # "none"
      BY <1>3, <1>5, <1>6, <1>7, <3>3 DEF OnItsWay
    <3>4. CASE "change" \in sched[r].timers
      BY <1>3, <1>5, <1>6, <1>7, <3>4 DEF OnItsWay
    <3>5. CASE \/ coord[r].deferred \/ queued[r]
               \/ \E c \in Chain : Here(c) = r /\ chain[c].again
               \/ fresh[r] /\ ~At(<<r, Drain>>, "idle")
      BY <1>2, <3>5 DEF OnItsWay, Here, At
    <3> QED BY <3>1, <3>2, <3>3, <3>4, <3>5 DEF OnItsWay
  <2> QED BY <2>1, <2>2
<1>11. Tracked(r)'
  BY <1>2, <1>3, <1>5, <1>6, <1>7, <1>9, <1>10 DEF Tracked
<1> QED BY <1>8, <1>11 DEF AllTracked

LEMMA DisposeTracks ==
    ASSUME SyncInv, AllTracked, NEW r \in Realm, DisposeSync(r) PROVE AllTracked'
<1> DEFINE s == [Stopped(r) EXCEPT !.started = FALSE, !.pending = "none",
                                   !.deferred = "none"]
<1>1. \A q \in Realm \ {r} : life'[q] = life[q]
  BY Entered DEF DisposeSync, Dispose, Lifecycle
<1>2. s.timers = {} /\ ~s.started
  BY StoppedIsOrderly DEF Scheduler
<1>3. /\ sched'[r] = s /\ \A q \in Realm \ {r} : sched'[q] = sched[q]
      /\ \A q \in Realm \ {r} :
            /\ across'[q] = across[q] /\ disposing'[q] = disposing[q]
            /\ dirty'[q] = dirty[q] /\ fresh'[q] = fresh[q]
      /\ dirty'[r] # "told" /\ (dirty[r] = "none" => dirty'[r] = "none")
      /\ UNCHANGED <<enabled, queued>>
  BY DEF DisposeSync, Dispose, Schedule, Noted, Lost, SyncInv, RunInv, RunTypeOK
<1> HIDE DEF s
<1>4. /\ \A c \in Chain : chain'[c].again = chain[c].again /\ chain'[c].pc = chain[c].pc
      /\ \A q \in Realm : coord'[q].deferred = coord[q].deferred
  BY ToldChains DEF DisposeSync, Dispose
<1>5. \A q \in Realm \ {r} : Tracked(q)'
  BY <1>1, <1>3, <1>4, Elsewhere DEF AllTracked
<1>6. Tracked(r)'
  BY <1>2, <1>3 DEF AllTracked, Tracked, Owing, Active
<1> QED BY <1>5, <1>6 DEF AllTracked

\* a runtime that starts afresh has been told of nothing
LEMMA RestartTracks ==
    ASSUME SyncInv, AllTracked, NEW r \in Realm, ReplaceSync(r) \/ CrashSync(r)
    PROVE  AllTracked'
<1>1. /\ sched'[r] = Started(r) /\ \A q \in Realm \ {r} : sched'[q] = sched[q]
      /\ UNCHANGED enabled
      /\ ~disposing'[r]
      /\ \A q \in Realm \ {r} :
            /\ life'[q] = life[q] /\ across'[q] = across[q]
            /\ disposing'[q] = disposing[q] /\ queued'[q] = queued[q]
            /\ coord'[q] = coord[q]
            /\ dirty'[q] = dirty[q] /\ fresh'[q] = fresh[q]
            /\ \A c \in Chain : Here(c) = q => chain'[c] = chain[c]
  BY DEF ReplaceSync, Replace, CrashSync, Crash, Enter, Set, Schedule, Lost,
         SyncInv, RunInv, RunTypeOK
<1>2. dirty'[r] # "told" /\ (dirty[r] = "none" => dirty'[r] = "none")
  BY DEF ReplaceSync, Replace, CrashSync, Lost, AllTracked, Tracked, SyncInv
<1>3. \A q \in Realm \ {r} : Tracked(q)'
  BY <1>1, Elsewhere DEF AllTracked
<1>4. Tracked(r)'
  BY <1>1, <1>2, StartedFields DEF AllTracked, Tracked
<1> QED BY <1>3, <1>4 DEF AllTracked

LEMMA UserTracks ==
    ASSUME SyncInv, AllTracked, NEW r \in Realm, UserEvent(r) PROVE AllTracked'
<1>1. UNCHANGED <<life, across, disposing, queued, enabled, sched, dirty, fresh>>
  BY DEF UserEvent, Pause, Resume, Cancel, gate
<1>2. /\ \A c \in Chain : chain'[c].again = chain[c].again /\ chain'[c].pc = chain[c].pc
      /\ \A q \in Realm : coord'[q].deferred = coord[q].deferred
  <2>1. CASE Pause(r) \/ Cancel(r)
    BY <2>1, ToldChains DEF Pause, Cancel
  <2>2. CASE Resume(r)
    <3>1. coord[r] \in Coordinator /\ coord \in [Realm -> Coordinator]
      BY DEF SyncInv, RunInv, RunTypeOK
    <3>2. [coord[r] EXCEPT !.paused = FALSE].deferred = coord[r].deferred
      BY <3>1 DEF Coordinator
    <3> QED BY <2>2, <3>1, <3>2 DEF Resume, Set
  <2> QED BY <2>1, <2>2 DEF UserEvent
<1> QED BY <1>1, <1>2, Elsewhere DEF AllTracked

\* what a step of a chain leaves of another realm, and hands on in its own
LEMMA ChainsMove ==
    ASSUME SyncInv, HandedOn, NEW c \in Chain, ChainStep(c)
    PROVE  /\ UNCHANGED <<life, disposing>>
           /\ \A q \in Realm \ {Here(c)} :
                 across'[q] = across[q] /\ queued'[q] = queued[q] /\ coord'[q] = coord[q]
           /\ \A d \in Chain : d # c => chain'[d] = chain[d]
           /\ across[Here(c)] => across'[Here(c)]
           /\ queued[Here(c)] => queued'[Here(c)] \/ Begins(c)
           /\ chain[c].again => \/ chain'[c].again \/ queued'[Here(c)]
                                \/ life[Here(c)] # "active" /\ across'[Here(c)]
<1> DEFINE r == Here(c)
<1>1. /\ across \in [Realm -> BOOLEAN] /\ queued \in [Realm -> BOOLEAN]
      /\ coord \in [Realm -> Coordinator] /\ r \in Realm /\ RunInv
  BY HereIsRealm DEF SyncInv, RunInv, RunTypeOK
<1>2. /\ UNCHANGED <<life, disposing>> /\ (across[r] => across'[r])
      /\ \A d \in Chain : d # c => chain'[d] = chain[d]
      /\ chain[c].again => chain'[c].again \/ Finished(c)
  BY <1>1, ChainsSpare, FollowUpsMove
<1>3. \A q \in Realm \ {r} : coord'[q] = coord[q]
  <2>1. coord' = coord \/ \E k : Set(r, k)
    <3>1. CASE StartPlanning(c) \/ PlanNothing(c) \/ Grant(c) \/ Free(c)
               \/ StartOperation(c) \/ Finished(c)
      BY <3>1 DEF StartPlanning, PlanNothing, Grant, Free, StartOperation, Finished
    <3>2. CASE \/ BeginRun(c) \/ Deny(c) \/ Start(c) \/ Leave(c)
               \/ EndOperation(c) \/ Finish(c)
      BY <3>2 DEF BeginRun, Deny, Start, Leave, EndOperation, Finish
    <3> QED BY <3>1, <3>2 DEF ChainStep
  <2> QED BY <1>1, <2>1 DEF Set
<1>4. CASE Finished(c)
  <2>1. \A q \in Realm \ {r} : across'[q] = across[q] /\ queued'[q] = queued[q]
    BY <1>1, <1>4 DEF Finished, FollowUp
  <2>2. queued[r] => queued'[r]
    BY <1>1, <1>4 DEF Finished, FollowUp
  <2>3. chain[c].again => \/ queued'[r]
                          \/ life[r] # "active" /\ across'[r]
    BY <1>1, <1>4 DEF Finished, FollowUp, HandedOn
  <2> QED BY <1>2, <1>3, <2>1, <2>2, <2>3
<1>5. CASE StartPlanning(c)
  <2>1. /\ \A q \in Realm \ {r} : across'[q] = across[q] /\ queued'[q] = queued[q]
        /\ Begins(c)
    BY <1>1, <1>5 DEF StartPlanning, gate, Begins
  <2>2. ~Finished(c)
    BY <1>5 DEF StartPlanning, Finished, At
  <2> QED BY <1>2, <1>3, <2>1, <2>2
<1>6. CASE ~Finished(c) /\ ~StartPlanning(c)
  <2>1. UNCHANGED <<across, queued>>
    <3>1. CASE PlanNothing(c) \/ BeginRun(c) \/ Grant(c) \/ Deny(c) \/ Start(c) \/ Free(c)
      BY <3>1 DEF PlanNothing, BeginRun, Grant, Deny, Start, Free, gate
    <3>2. CASE Leave(c) \/ StartOperation(c) \/ EndOperation(c) \/ Finish(c)
      BY <3>2 DEF Leave, StartOperation, EndOperation, Finish, gate
    <3> QED BY <1>6, <3>1, <3>2 DEF ChainStep
  <2> QED BY <1>2, <1>3, <1>6, <2>1
<1> QED BY <1>4, <1>5, <1>6

\* a pass that is postponed leaves its work to the run in progress
LEMMA PostponedIsDeferred ==
    ASSUME SyncInv, NEW c \in Chain, ChainStep(c), Postponed(c)
    PROVE  coord'[Here(c)].deferred
<1>1. coord \in [Realm -> Coordinator] /\ Here(c) \in Realm
      /\ coord[Here(c)] \in Coordinator /\ events \in Nat
  BY HereIsRealm, CoordinatorAssumption DEF SyncInv, RunInv, RunTypeOK
<1>2. ~PlanNothing(c)
  BY <1>1 DEF Postponed, PlanNothing, Happen, Quietly
<1>3. BeginRun(c)
  BY <1>2 DEF Postponed, ChainStep, StartPlanning, Grant, Deny, Start, Free, Leave,
              StartOperation, EndOperation, Finish, Finished, At
<1>4. Set(Here(c), [coord[Here(c)] EXCEPT !.deferred = TRUE])
  BY <1>3 DEF BeginRun, Postponed
<1>5. [coord[Here(c)] EXCEPT !.deferred = TRUE].deferred
  BY <1>1 DEF Coordinator
<1> QED BY <1>1, <1>4, <1>5 DEF Set

\* a pass that begins is planning, or it is over at once
LEMMA BeginningPlans ==
    ASSUME SyncInv, NEW c \in Chain, ChainStep(c), Begins(c)
    PROVE  chain'[c].pc \in {"planning", "idle"} /\ ~Postponed(c)
<1>1. StartPlanning(c)
  BY DEF Begins, ChainStep, PlanNothing, BeginRun, Grant, Deny, Start, Free, Leave,
         StartOperation, EndOperation, Finish, Finished, At
<1>2. Goto(c, Rest) \/ Goto(c, [Rest EXCEPT !.pc = "planning"])
  BY <1>1 DEF StartPlanning
<1>3. chain \in [Chain -> State]
  BY DEF SyncInv, RunInv, RunTypeOK
<1> QED BY <1>2, <1>3 DEF Goto, Rest, Begins, Postponed, At

LEMMA StepTracks ==
    ASSUME SyncInv, AllTracked, HandedOn, NEW c \in Chain, Step(c) PROVE AllTracked'
<1> DEFINE r == Here(c)
           d == IF Served(c) THEN "none"
                ELSE IF Begins(c) /\ dirty[r] = "told" /\ life[r] # "active"
                     THEN "missed" ELSE dirty[r]
           f == IF Begins(c) THEN life[r] = "active" ELSE fresh[r]
<1>1. r \in Realm /\ ChainStep(c) /\ UNCHANGED <<enabled, sched>>
  BY HereIsRealm DEF Step
<1>2. /\ dirty'[r] = d /\ fresh'[r] = f
      /\ \A q \in Realm \ {r} : dirty'[q] = dirty[q] /\ fresh'[q] = fresh[q]
  BY <1>1 DEF Step, SyncInv
<1>3. \A q \in Realm \ {r} : Tracked(q)'
  BY <1>1, <1>2, ChainsMove, Elsewhere DEF AllTracked
<1>4. Tracked(r)
  BY <1>1 DEF AllTracked
<1>5. UNCHANGED <<life, disposing>>
  BY <1>1, ChainsMove
<1>6. dirty'[r] = "told" => dirty[r] = "told" /\ ~(Begins(c) /\ life[r] # "active")
  BY <1>2
<1>7. dirty'[r] # "none" => dirty[r] # "none" /\ ~Served(c)
  BY <1>2
<1>8. ASSUME Owing(r)', sched'[r].ready PROVE OnItsWay(r)'
  <2>1. Owing(r) /\ OnItsWay(r) /\ ~Served(c) /\ ~(Begins(c) /\ life[r] # "active")
    BY <1>1, <1>2, <1>4, <1>5, <1>8 DEF Tracked, Owing, Active
  <2>2. CASE "change" \in sched[r].timers \/ sched[r].pending # "none"
    BY <1>1, <2>2 DEF OnItsWay
  <2>3. CASE coord[r].deferred
    <3>1. coord'[r].deferred \/ chain'[c].again
      BY <1>1, <2>3, DeferredMoves DEF SyncInv
    <3> QED BY <3>1 DEF OnItsWay, Here
  <2>4. CASE Begins(c)
    <3>1. fresh'[r] /\ c = <<r, Drain>>
      <4>1. c = <<r, Drain>>
        BY <2>4 DEF Begins, Chain, Here
      <4>2. life[r] = "active" /\ f = (life[r] = "active")
        BY <2>1, <2>4
      <4> QED BY <1>2, <4>1, <4>2
    <3>2. chain'[c].pc \in {"planning", "idle"} /\ ~Postponed(c)
      BY <1>1, <2>4, BeginningPlans
    <3>3. chain'[c].pc = "planning"
      BY <2>1, <2>4, <3>1, <3>2 DEF Served, Begins
    <3> QED BY <3>1, <3>3 DEF OnItsWay, At
  <2>5. CASE queued[r]
    BY <1>1, <2>4, <2>5, ChainsMove DEF OnItsWay
  <2>6. CASE \E e \in Chain : Here(e) = r /\ chain[e].again
    <3>1. PICK e \in Chain : Here(e) = r /\ chain[e].again
      BY <2>6
    <3>2. CASE chain'[e].again
      BY <3>1, <3>2 DEF OnItsWay, Here
    <3>3. CASE ~chain'[e].again
      BY <1>1, <1>5, <3>1, <3>3, ChainsMove DEF OnItsWay
    <3> QED BY <3>2, <3>3
  <2>7. CASE fresh[r] /\ ~At(<<r, Drain>>, "idle") /\ ~Begins(c)
    <3>1. fresh'[r]
      BY <1>2, <2>7
    <3>2. CASE c # <<r, Drain>>
      BY <1>1, <2>7, <3>1, <3>2, ChainsMove, DrainIsChain DEF OnItsWay, At
    <3>3. CASE c = <<r, Drain>> /\ chain'[c].pc # "idle"
      BY <3>1, <3>3 DEF OnItsWay, At
    <3>4. CASE c = <<r, Drain>> /\ chain'[c].pc = "idle"
      <4>1. Postponed(c)
        BY <2>1, <3>1, <3>4 DEF Served
      <4> QED BY <1>1, <4>1, PostponedIsDeferred DEF OnItsWay
    <3> QED BY <3>2, <3>3, <3>4
  <2>8. CASE life[r] # "active" /\ (sched[r].deferred # "none" \/ across[r])
    BY <1>1, <1>5, <2>8, ChainsMove DEF OnItsWay
  <2> QED BY <2>1, <2>2, <2>3, <2>4, <2>5, <2>6, <2>7, <2>8 DEF OnItsWay
<1>9. Tracked(r)'
  BY <1>1, <1>4, <1>5, <1>6, <1>7, <1>8 DEF Tracked
<1> QED BY <1>3, <1>9 DEF AllTracked

----------------------------------------------------------------------------

LEMMA SyncHandsOn == SyncInv /\ HandedOn /\ [SyncNext]_syncVars => HandedOn'
<1> SUFFICES ASSUME SyncInv, HandedOn, [SyncNext]_syncVars PROVE HandedOn'
  OBVIOUS
<1>1. RunInv
  BY DEF SyncInv
<1>2. ASSUME NEW c \in Chain, Step(c) PROVE HandedOn'
  BY <1>1, <1>2, ChainsHandOn DEF Step
<1>3. ASSUME UNCHANGED <<chain, life, disposing>> PROVE HandedOn'
  BY <1>3 DEF HandedOn
<1>4. ASSUME NEW r \in Realm, SchedulerStep(r) PROVE HandedOn'
  <2>1. UNCHANGED <<chain, life, disposing>>
    BY <1>4 DEF SchedulerStep, DrainTakes, DrainReturns, DrainEnds, DrainSettles,
                DelayedDrain, ChangeTimer, VaultReady, runVars, gate, run
  <2> QED BY <1>3, <2>1
<1>5. ASSUME NEW r \in Realm,
             LocalChange(r) \/ PeriodicTimer(r) \/ IntegrityDone(r) \/ Refresh(r)
      PROVE  HandedOn'
  <2>1. UNCHANGED <<chain, life, disposing>>
    BY <1>5 DEF LocalChange, PeriodicTimer, IntegrityDone, Refresh, gate, run
  <2> QED BY <1>3, <2>1
<1>6. ASSUME NEW r \in Realm, Lifecycles(r) PROVE HandedOn'
  <2>1. CASE ResumeSync(r) /\ ~Wake(r)
    BY <1>3, <2>1 DEF ResumeSync, run
  <2> QED BY <1>1, <1>6, <2>1, EventsHandOn
          DEF Lifecycles, SuspendSync, SettleSync, DisposeSync, ReplaceSync, CrashSync
<1>7. ASSUME NEW r \in Realm, UserEvent(r) PROVE HandedOn'
  BY <1>1, <1>7, EventsHandOn DEF UserEvent
<1>8. CASE UNCHANGED syncVars
  BY <1>3, <1>8 DEF syncVars, runVars
<1> QED BY <1>2, <1>4, <1>5, <1>6, <1>7, <1>8 DEF SyncNext

LEMMA TracksOn == SyncInv /\ HandedOn /\ AllTracked /\ [SyncNext]_syncVars => AllTracked'
<1> SUFFICES ASSUME SyncInv, HandedOn, AllTracked, [SyncNext]_syncVars PROVE AllTracked'
  OBVIOUS
<1>1. ASSUME NEW r \in Realm, SchedulerStep(r) PROVE AllTracked'
  BY <1>1, DrainTracks, AskingTracks DEF SchedulerStep
<1>2. ASSUME NEW r \in Realm, Lifecycles(r) PROVE AllTracked'
  BY <1>2, SuspendTracks, SettleTracks, ResumeTracks, DisposeTracks, RestartTracks
  DEF Lifecycles
<1>3. CASE UNCHANGED syncVars
  BY <1>3, Elsewhere DEF syncVars, runVars, AllTracked
<1> QED BY <1>1, <1>2, <1>3, StepTracks, AskingTracks, LocalChangeTracks, RefreshTracks,
           UserTracks
        DEF SyncNext

\* A change that a pass has yet to see is at every moment somewhere from where a
\* pass follows, whatever overlaps a suspension, a disposal or another run
\* (handleLocalChange, beginStopping, handleResume, drain, finishRun).
THEOREM NoChangeIsForgotten == SyncSpec => []NothingForgotten
<1>1. SyncInit => HandedOn /\ AllTracked
  <2>1. SyncInit => HandedOn
    BY DEF SyncInit, RunInit, HandedOn, Rest
  <2>2. SyncInit => AllTracked
    BY StartedFields DEF SyncInit, RunInit, AllTracked, Tracked
  <2> QED BY <2>1, <2>2
<1>2. AllTracked => NothingForgotten
  BY DEF AllTracked, Tracked, NothingForgotten
<1> QED BY <1>1, <1>2, SyncInvariantHolds, SyncHandsOn, TracksOn, PTL DEF SyncSpec
=============================================================================
