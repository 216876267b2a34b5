---------------------------- MODULE AutomaticSync ----------------------------
(***************************************************************************)
(* When a pass is run: the scheduler of each runtime on top of its run     *)
(* coordinator.  Local changes, the vault becoming ready, resumes and the  *)
(* periodic integrity check ask for passes; the scheduler debounces and    *)
(* coalesces them, hands them to the controller's queue a bounded number   *)
(* at a time, and keeps them over a suspension.                            *)
(***************************************************************************)
EXTENDS RunCoordinator

CONSTANT Settings   \* the automatic settings a runtime may start with

Triggers == {"periodic", "startup-resume", "local-change"}
ASSUME SettingsAssumption == Settings \subseteq SUBSET Triggers

VARIABLES
    enabled,    \* [Realm -> SUBSET Triggers]: the automatic settings
    sched,      \* [Realm -> Scheduler]
    dirty,      \* [Realm -> Change]: whether local changes wait for a pass
    fresh       \* [Realm -> BOOLEAN]: the drain's pass has seen every change

syncVars == <<runVars, enabled, sched, dirty, fresh>>
run == <<coord, disposing, queued, chain, lock>>

\* the scheduler was told of a change; or a pass has yet to find it
Change == {"none", "told", "missed"}
Timers == {"change", "drain", "periodic"}
Scheduler == [started : BOOLEAN,
              ready : BOOLEAN,                      \* vault-ready was seen
              timers : SUBSET Timers,               \* those that are running
              pending : Triggers \cup {"none"},     \* pendingTrigger
              deferred : Triggers \cup {"none"},    \* deferredInactiveTrigger
              drain : {"none", "looping", "awaiting", "ended"},
              runs : 0..2,                          \* passes of this drain
              integrity : {"idle", "reading", "cut"},
              again : BOOLEAN]                      \* integrityPending

Priority(t) == CASE t = "none" -> 0 [] t = "periodic" -> 1
                 [] t = "startup-resume" -> 2 [] t = "local-change" -> 3
Higher(t, u) == IF Priority(u) > Priority(t) THEN u ELSE t
IfEnabled(r, t) == IF t \in enabled[r] THEN t ELSE "none"

Active(r) == sched[r].started /\ life[r] = "active"
Schedule(r, s) == sched' = [sched EXCEPT ![r] = s]
Quiet == [started |-> FALSE, ready |-> FALSE, timers |-> {}, pending |-> "none",
          deferred |-> "none", drain |-> "none", runs |-> 0,
          integrity |-> "idle", again |-> FALSE]

WithPeriodic(r, s) == [s EXCEPT !.timers =
    IF "periodic" \in enabled[r] THEN @ \cup {"periodic"} ELSE @]
\* start, of a scheduler whose vault is not ready yet
Started(r) == WithPeriodic(r, [Quiet EXCEPT !.started = TRUE])

----------------------------------------------------------------------------
(* Queueing and draining *)

\* ensureDrain
Drained(s) == IF s.drain = "none" /\ "drain" \notin s.timers /\ s.pending # "none"
              THEN [s EXCEPT !.drain = "looping", !.runs = 0] ELSE s
\* queueAutomatic while the lifecycle is active; "none" asks for nothing
Queued(s, t) == IF t = "none" THEN s
                ELSE Drained([s EXCEPT !.pending = Higher(@, t)])
\* queueAutomatic
Queue(r, s, t) ==
    IF life[r] = "active" \/ t = "none"
    THEN Schedule(r, Queued(s, t)) /\ UNCHANGED across
    ELSE /\ Schedule(r, [s EXCEPT !.deferred = Higher(@, t)])
         /\ across' = [across EXCEPT ![r] = TRUE]

More(r) == sched[r].runs < 2 /\ sched[r].pending # "none" /\ Active(r)

\* the drain takes the trigger and gives it to the controller's queue
DrainTakes(r) ==
    /\ sched[r].drain = "looping" /\ More(r)
    /\ Schedule(r, [sched[r] EXCEPT !.drain = "awaiting", !.runs = @ + 1,
                                    !.pending = "none"])
    /\ queued' = [queued EXCEPT ![r] = @ \/ ~disposing[r]]
    /\ UNCHANGED <<gate, coord, chain, lock, events, enabled, dirty, fresh>>

\* awaitAutomaticQuiescence comes back
DrainReturns(r) ==
    /\ sched[r].drain = "awaiting"
    /\ ~queued[r] /\ At(<<r, Drain>>, "idle")
    /\ Schedule(r, [sched[r] EXCEPT !.drain = "looping"])
    /\ UNCHANGED <<runVars, enabled, dirty, fresh>>

DrainEnds(r) ==
    /\ sched[r].drain = "looping" /\ ~More(r)
    /\ Schedule(r, [sched[r] EXCEPT !.drain = "ended"])
    /\ UNCHANGED <<runVars, enabled, dirty, fresh>>

SettledForGood(r) == [sched[r] EXCEPT !.drain = "none"]
\* further pressure waits for a timer
Settled(r) == [sched[r] EXCEPT !.drain = "none",
    !.timers = IF sched[r].pending # "none" /\ Active(r) THEN @ \cup {"drain"} ELSE @]
DrainSettles(r) ==
    /\ sched[r].drain = "ended"
    /\ Schedule(r, Settled(r))
    /\ UNCHANGED <<runVars, enabled, dirty, fresh>>

Expired(r, timer) == [sched[r] EXCEPT !.timers = @ \ {timer}]
DelayedDrain(r) ==
    /\ "drain" \in sched[r].timers
    /\ Schedule(r, Drained(Expired(r, "drain")))
    /\ UNCHANGED <<runVars, enabled, dirty, fresh>>

----------------------------------------------------------------------------
(* What asks for a pass *)

\* a change while the scheduler may not start anything
Deferred(r) == [sched[r] EXCEPT !.deferred = Higher(@, "local-change")]

\* the vault's watcher is silent before vault-ready, and after stop
LocalChange(r) ==
    /\ "local-change" \in enabled[r]
    /\ Happen
    /\ fresh' = [fresh EXCEPT ![r] = FALSE]
    /\ LET s == sched[r]
           told == s.started /\ s.ready
       IN  /\ dirty' = [dirty EXCEPT ![r] = IF told THEN "told" ELSE "missed"]
           /\ \/ ~told /\ UNCHANGED <<sched, across>>
              \/ /\ told /\ life[r] # "active"
                 /\ Schedule(r, Deferred(r))
                 /\ across' = [across EXCEPT ![r] = TRUE]
              \/ /\ told /\ life[r] = "active"
                 /\ Schedule(r, [s EXCEPT !.timers = @ \cup {"change"}])
                 /\ UNCHANGED across
    /\ UNCHANGED <<life, epoch, run, enabled>>

ChangeTimer(r) ==
    /\ "change" \in sched[r].timers
    /\ Queue(r, Expired(r, "change"), "local-change")
    /\ UNCHANGED <<life, epoch, run, events, enabled, dirty, fresh>>

VaultReady(r) ==
    /\ sched[r].started /\ ~sched[r].ready
    /\ Queue(r, [sched[r] EXCEPT !.ready = TRUE], IfEnabled(r, "startup-resume"))
    /\ UNCHANGED <<life, epoch, run, events, enabled, dirty, fresh>>

\* requestPeriodicOpportunity
PeriodicTimer(r) ==
    /\ "periodic" \in sched[r].timers /\ Active(r)
    /\ Schedule(r, IF sched[r].integrity = "idle"
                   THEN [sched[r] EXCEPT !.integrity = "reading"]
                   ELSE [sched[r] EXCEPT !.again = TRUE])
    /\ Happen
    /\ UNCHANGED <<gate, run, enabled, dirty, fresh>>

\* the cache-bypassing pass over the vault ends, or was cut short
IntegrityDone(r) ==
    LET s == [sched[r] EXCEPT !.again = FALSE,
                !.integrity = IF sched[r].again /\ Active(r) THEN "reading" ELSE "idle"]
    IN  /\ sched[r].integrity # "idle"
        /\ \/ /\ ~Active(r) \/ sched[r].integrity = "cut"
              /\ Schedule(r, s) /\ UNCHANGED across
           \/ /\ Active(r)
              /\ \E t \in {"periodic", "local-change"} \cap (enabled[r] \cup {"periodic"}) :
                    Queue(r, s, t)
        /\ UNCHANGED <<life, epoch, run, events, enabled, dirty, fresh>>

\* refresh, after the periodic setting has changed
Refresh(r) ==
    LET flipped == IF "periodic" \in enabled[r] THEN enabled[r] \ {"periodic"}
                   ELSE enabled[r] \cup {"periodic"}
    IN  /\ Happen
        /\ enabled' = [enabled EXCEPT ![r] = flipped]
        /\ Schedule(r, [sched[r] EXCEPT !.timers =
              IF Active(r) /\ "periodic" \in flipped
              THEN @ \cup {"periodic"} ELSE @ \ {"periodic"}])
        /\ UNCHANGED <<gate, run, dirty, fresh>>

----------------------------------------------------------------------------
(* The lifecycle *)

\* what beginStopping carries over, and the timers it leaves
Carried(r) == Higher(IF "change" \in sched[r].timers
                     THEN IfEnabled(r, "local-change") ELSE "none",
                     sched[r].pending)
StoppedWithTimer(r) == [sched[r] EXCEPT !.deferred = Higher(@, Carried(r)),
    !.pending = "none", !.timers = @ \ {"change", "periodic"},
    !.integrity = IF @ = "idle" THEN @ ELSE "cut"]
Stopped(r) == [sched[r] EXCEPT !.deferred = Higher(@, Carried(r)),
    !.pending = "none", !.timers = {}, !.integrity = IF @ = "idle" THEN @ ELSE "cut"]
\* a pass that is cut short has not dealt with what it was started for
CutShort(r) ==
    /\ fresh' = [fresh EXCEPT ![r] = FALSE]
    /\ dirty' = [dirty EXCEPT ![r] =
          IF @ = "told" /\ fresh[r] /\ ~At(<<r, Drain>>, "idle") THEN "missed" ELSE @]
\* what the scheduler was told is lost with it
Lost(r) == /\ fresh' = [fresh EXCEPT ![r] = FALSE]
           /\ dirty' = [dirty EXCEPT ![r] = IF @ = "told" THEN "missed" ELSE @]
Noted(r) == across' = [across EXCEPT ![r] = @ \/ Carried(r) # "none"]

\* beginStopping("suspend"); the run is told to stop before anything is awaited
SuspendSync(r) ==
    /\ sched[r].started
    /\ Suspend(r) /\ Noted(r)
    /\ Schedule(r, Stopped(r))
    /\ CutShort(r)
    /\ UNCHANGED enabled

SettleSync(r) == Settle(r) /\ UNCHANGED <<enabled, sched, dirty, fresh>>

ReplayedTrigger(r) == sched[r].deferred
\* what is owed over the suspension, as a trigger
Replayed(r) ==
    Higher(sched[r].deferred,
           IF ~across[r] THEN "none"
           ELSE IF "local-change" \in enabled[r] THEN "local-change"
           ELSE IfEnabled(r, "periodic"))
\* handleResume, of a resume that may follow no suspension
ResumeSync(r) ==
    /\ sched[r].started /\ life[r] # "unloading"
    /\ \/ Wake(r) /\ UNCHANGED queued
       \/ /\ life[r] = "active" /\ Happen
          /\ across' = [across EXCEPT ![r] = FALSE]
          /\ UNCHANGED <<life, epoch, run>>
    /\ LET s == WithPeriodic(r, [sched[r] EXCEPT !.deferred = "none"])
       IN  Schedule(r, Queued(Queued(s, Replayed(r)), IfEnabled(r, "startup-resume")))
    /\ UNCHANGED <<enabled, dirty, fresh>>

\* stop, then the disposal of the controller
DisposeSync(r) ==
    /\ Dispose(r) /\ Noted(r)
    /\ Schedule(r, [Stopped(r) EXCEPT !.started = FALSE, !.pending = "none",
                                      !.deferred = "none"])
    /\ Lost(r)
    /\ UNCHANGED enabled

ReplaceSync(r) ==
    /\ Replace(r)
    /\ Schedule(r, Started(r))
    /\ UNCHANGED <<enabled, dirty, fresh>>

CrashSync(r) ==
    /\ Crash(r)
    /\ Schedule(r, Started(r))
    /\ Lost(r)
    /\ UNCHANGED enabled

----------------------------------------------------------------------------
(* The passes *)

\* a pass that found the coordinator busy leaves its work to the run in progress
Postponed(c) == /\ At(c, "planning") /\ ~coord[Here(c)].paused
                /\ life[Here(c)] = "active" /\ Busy(Here(c)) /\ Quietly
\* the pass of the drain is over, for whatever reason but a suspension
Served(c) == /\ c[2] = Drain /\ fresh'[Here(c)]
             /\ chain'[c].pc = "idle" /\ ~Postponed(c)

\* the pass begins; its run will be refused if the app is not active
Begins(c) == c[2] = Drain /\ At(c, "idle")
Step(c) ==
    /\ ChainStep(c)
    /\ fresh' = [fresh EXCEPT ![Here(c)] =
          IF Begins(c) THEN life[Here(c)] = "active" ELSE @]
    /\ dirty' = [dirty EXCEPT ![Here(c)] =
          IF Served(c) THEN "none"
          ELSE IF Begins(c) /\ @ = "told" /\ life[Here(c)] # "active" THEN "missed" ELSE @]
    /\ UNCHANGED <<enabled, sched>>

UserEvent(r) == /\ Pause(r) \/ Resume(r) \/ Cancel(r)
                /\ UNCHANGED <<enabled, sched, dirty, fresh>>

----------------------------------------------------------------------------
SyncInit ==
    /\ RunInit
    /\ enabled \in [Realm -> Settings]
    /\ sched = [r \in Realm |-> Started(r)]
    /\ dirty = [r \in Realm |-> "none"]
    /\ fresh = [r \in Realm |-> FALSE]

SchedulerStep(r) == \/ DrainTakes(r) \/ DrainReturns(r) \/ DrainEnds(r)
                    \/ DrainSettles(r) \/ DelayedDrain(r) \/ ChangeTimer(r)
                    \/ VaultReady(r)
Lifecycles(r) == \/ SuspendSync(r) \/ SettleSync(r) \/ ResumeSync(r)
                 \/ DisposeSync(r) \/ ReplaceSync(r) \/ CrashSync(r)

SyncNext ==
    \/ \E c \in Chain : Step(c)
    \/ \E r \in Realm : \/ SchedulerStep(r) \/ LocalChange(r) \/ PeriodicTimer(r)
                        \/ IntegrityDone(r) \/ Refresh(r) \/ Lifecycles(r)
                        \/ UserEvent(r)

SyncSpec == SyncInit /\ [][SyncNext]_syncVars

\* timers expire, microtasks are run, awaits come back; nobody need resume the app
SyncFairness ==
    /\ \A r \in Realm : WF_syncVars(SchedulerStep(r))
    /\ \A c \in Chain : WF_syncVars((c[2] = Drain \/ ~At(c, "idle")) /\ Step(c))
FairSyncSpec == SyncSpec /\ SyncFairness

----------------------------------------------------------------------------
(* Properties *)

\* Every variable of the scheduler has its type.
SyncTypeOK ==
    /\ RunTypeOK
    /\ enabled \in [Realm -> SUBSET Triggers]
    /\ sched \in [Realm -> Scheduler]
    /\ dirty \in [Realm -> Change]
    /\ fresh \in [Realm -> BOOLEAN]

\* "Timers intentionally exist only while the app lifecycle is active": none is
\* left running, or set up late, by a drain, a change or a refresh that overlaps
\* a suspension or a disposal.
QuietWhenStopped == \A r \in Realm : ~Active(r) => sched[r].timers = {}

\* A trigger that is waiting while the app is active has a drain or a timer that
\* will take it, and none is left behind in what a resume has to replay.
NothingStranded ==
    \A r \in Realm : Active(r) =>
        /\ sched[r].pending # "none" =>
              sched[r].drain # "none" \/ "drain" \in sched[r].timers
        /\ sched[r].deferred = "none"

\* A local change the scheduler was told of, and with the startup-resume setting
\* any local change, is on its way to a pass: in the debounce, in the scheduler,
\* in the controller's queue, in the pass itself, left to the run that made the
\* pass wait, or kept for the next resume.
Owing(r) == \/ dirty[r] = "told"
            \/ dirty[r] = "missed" /\ "startup-resume" \in enabled[r] /\ Active(r)
OnItsWay(r) ==
    \/ "change" \in sched[r].timers \/ sched[r].pending # "none"
    \/ coord[r].deferred \/ queued[r] \/ \E c \in Chain : Here(c) = r /\ chain[c].again
    \/ fresh[r] /\ ~At(<<r, Drain>>, "idle")
    \/ life[r] # "active" /\ (sched[r].deferred # "none" \/ across[r])
NothingForgotten ==
    \A r \in Realm : Owing(r) /\ sched[r].ready => OnItsWay(r)

\* Every local change gets its pass, unless the app stays suspended or unloaded,
\* or it was left to the end of a run that had yet to get its lease.
EveryChangeIsTakenUp ==
    \A r \in Realm : []<>(Owing(r) => ~Active(r) \/ coord[r].deferred)

\* A test says "concurrent begin requests serialize before lease acquisition and
\* preserve one follow-up fact" (phase5-scheduler-acceptance.test.ts:283): a
\* change whose pass met another acquisition gets a pass all the same.
EveryChangeGetsItsPass == \A r \in Realm : []<>(Owing(r) => ~Active(r))
=============================================================================
