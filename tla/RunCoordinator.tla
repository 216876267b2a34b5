--------------------------- MODULE RunCoordinator ---------------------------
(***************************************************************************)
(* Who may mutate: the run coordinator of one plugin runtime, the process  *)
(* wide lifecycle it obeys, and the Web Lock that excludes the runtimes of *)
(* other realms on the same vault.                                         *)
(*                                                                         *)
(* Within a realm several chains of awaits ask for a run: the automatic    *)
(* drain of the controller, and every plan the user executes.  Pause,      *)
(* cancellation, suspension and disposal may fall between any two awaits.  *)
(***************************************************************************)
EXTENDS Naturals

CONSTANTS
    Realm,          \* JavaScript realms that have the vault open
    Caller,         \* chains of one realm that execute plans
    Drain,          \* the caller that serves automatic triggers
    NoOne,          \* holds the Web Lock when no chain does
    MaxOperations,  \* bound on the operations of one plan
    MaxEvents       \* bound on user and lifecycle events, and on failures

Chain == Realm \X Caller

ASSUME CoordinatorAssumption ==
    /\ Drain \in Caller
    /\ NoOne \notin Chain
    /\ MaxOperations \in Nat
    /\ MaxEvents \in Nat

VARIABLES
    life,       \* [Realm -> Lifecycle]: the module-wide lifecycle state
    epoch,      \* [Realm -> Nat]: how often it changed
    across,     \* [Realm -> BOOLEAN]: a reconciliation is owed after a resume
    coord,      \* [Realm -> Coordinator]
    disposing,  \* [Realm -> BOOLEAN]: the runtime is being replaced
    queued,     \* [Realm -> BOOLEAN]: an automatic trigger awaits the drain
    chain,      \* [Chain -> State]
    lock,       \* the chain that holds the vault's Web Lock
    events      \* how much of MaxEvents is spent

runVars == <<life, epoch, across, coord, disposing, queued, chain, lock, events>>
gate == <<life, epoch, across, disposing>>

Lifecycle == {"active", "suspending", "suspended", "unloading"}
Coordinator == [active : BOOLEAN, acquiring : BOOLEAN, paused : BOOLEAN,
                deferred : BOOLEAN, cancelled : BOOLEAN]
State == [pc : {"idle", "planning", "acquiring", "granted", "late", "left",
                "running", "operating", "finishing", "finished"},
          epoch : Nat,        \* the lifecycle epoch the run asked its lease in
          left : 0..MaxOperations,
          again : BOOLEAN,    \* finishRun found a deferred reconciliation
          told : BOOLEAN]     \* history: the run was told to stop

Fresh == [active |-> FALSE, acquiring |-> FALSE, paused |-> FALSE,
          deferred |-> FALSE, cancelled |-> FALSE]
Rest == [pc |-> "idle", epoch |-> 0, left |-> 0, again |-> FALSE, told |-> FALSE]

Here(c) == c[1]
At(c, label) == chain[c].pc = label
Goto(c, s) == chain' = [chain EXCEPT ![c] = s]
Set(r, k) == coord' = [coord EXCEPT ![r] = k]
Happen == events < MaxEvents /\ events' = events + 1
Quietly == UNCHANGED events

Busy(r) == coord[r].active \/ coord[r].acquiring
CanStartNextOperation(r) ==
    coord[r].active /\ ~coord[r].paused /\ life[r] = "active" /\ ~coord[r].cancelled

\* chains between a granted request for a run and its end
InRun(c) == chain[c].pc \in {"acquiring", "granted", "running", "operating"}
Enter(r, next) == /\ life' = [life EXCEPT ![r] = next]
                  /\ epoch' = [epoch EXCEPT ![r] = @ + 1]
CancelledQuietly(r) == coord[r]
\* requestCancellation; "told" remembers which chains it was meant for
Cancelled(r) == [coord[r] EXCEPT !.cancelled = @ \/ Busy(r)]
Tell(r) == chain' = [c \in Chain |-> IF Here(c) = r /\ InRun(c)
                                     THEN [chain[c] EXCEPT !.told = TRUE]
                                     ELSE chain[c]]
----------------------------------------------------------------------------
(* Asking for a run *)

\* the drain takes the pending trigger; a paused coordinator plans nothing
StartPlanning(c) ==
    /\ At(c, "idle") /\ c[2] = Drain /\ queued[Here(c)]
    /\ queued' = [queued EXCEPT ![Here(c)] = FALSE]
    /\ Goto(c, IF coord[Here(c)].paused THEN Rest ELSE [Rest EXCEPT !.pc = "planning"])
    /\ UNCHANGED <<gate, coord, lock, events>>

\* planning failed, or device policy defers the plan
PlanNothing(c) ==
    /\ At(c, "planning")
    /\ Goto(c, Rest)
    /\ Happen
    /\ UNCHANGED <<gate, coord, queued, lock>>

\* beginRun up to its first await
BeginRun(c) ==
    /\ \/ At(c, "planning") /\ Quietly
       \/ At(c, "idle") /\ c[2] # Drain /\ ~disposing[Here(c)] /\ Happen
    /\ LET r == Here(c)
           k == coord[r]
           refused == k.paused \/ life[r] # "active"
       IN  \/ refused /\ Goto(c, Rest) /\ UNCHANGED coord
           \/ /\ ~refused /\ Busy(r)
              /\ Set(r, [k EXCEPT !.deferred = TRUE])
              /\ Goto(c, Rest)
           \/ /\ ~refused /\ ~Busy(r)
              /\ Set(r, [k EXCEPT !.cancelled = FALSE, !.acquiring = TRUE])
              /\ Goto(c, [Rest EXCEPT !.pc = "acquiring", !.epoch = epoch[r]])
    /\ UNCHANGED <<gate, queued, lock>>

GrantedRegardless == TRUE
Available == lock = NoOne
Grant(c) ==
    /\ At(c, "acquiring") /\ Available
    /\ lock' = c
    /\ Goto(c, [chain[c] EXCEPT !.pc = "granted"])
    /\ UNCHANGED <<gate, coord, queued, events>>

ReleasedNever(r) == coord[r]
Released(r) == [coord[r] EXCEPT !.acquiring = FALSE]

\* the lock is taken: lease-unavailable
Deny(c) ==
    /\ At(c, "acquiring") /\ ~Available
    /\ Set(Here(c), Released(Here(c)))
    /\ Goto(c, Rest)
    /\ UNCHANGED <<gate, queued, lock, events>>

\* whether a stop, a pause or a cancellation overtook the acquisition
Overtaken(c) == LET k == coord[Here(c)]
                IN  \/ k.active \/ k.paused \/ k.cancelled
                    \/ life[Here(c)] # "active" \/ epoch[Here(c)] # chain[c].epoch

\* beginRun after its await: a late lease is given back
Start(c) ==
    /\ At(c, "granted")
    /\ LET r == Here(c)
           k == coord[r]
       IN  \/ /\ Overtaken(c)
              /\ Set(r, [k EXCEPT !.deferred = @ \/ k.active])
              /\ Goto(c, [chain[c] EXCEPT !.pc = "late"])
           \/ /\ ~Overtaken(c)
              /\ Set(r, [k EXCEPT !.active = TRUE, !.acquiring = FALSE])
              /\ \E n \in 0..MaxOperations :
                    Goto(c, [chain[c] EXCEPT !.pc = "running", !.left = n])
    /\ UNCHANGED <<gate, queued, lock, events>>

\* the browser frees the lock, then the chain that awaited it goes on
Free(c) ==
    /\ chain[c].pc \in {"late", "finishing"}
    /\ lock' = NoOne
    /\ Goto(c, [chain[c] EXCEPT !.pc = IF @ = "late" THEN "left" ELSE "finished"])
    /\ UNCHANGED <<gate, coord, queued, events>>

Leave(c) ==
    /\ At(c, "left")
    /\ Set(Here(c), Released(Here(c)))
    /\ Goto(c, Rest)
    /\ UNCHANGED <<gate, queued, lock, events>>
----------------------------------------------------------------------------
(* The run *)

StartOperation(c) ==
    /\ At(c, "running") /\ chain[c].left > 0
    /\ CanStartNextOperation(Here(c))
    /\ Goto(c, [chain[c] EXCEPT !.pc = "operating", !.left = @ - 1])
    /\ UNCHANGED <<gate, coord, queued, lock, events>>

\* it is committed or skipped, or it ends the run; a stale state asks for another
EndOperation(c) ==
    /\ At(c, "operating")
    /\ \/ Goto(c, [chain[c] EXCEPT !.pc = "running"]) /\ Quietly /\ UNCHANGED coord
       \/ /\ Goto(c, [chain[c] EXCEPT !.pc = "running", !.left = 0])
          /\ Happen
          /\ \/ UNCHANGED coord
             \/ Set(Here(c), [coord[Here(c)] EXCEPT !.deferred = TRUE])
    /\ UNCHANGED <<gate, queued, lock>>

\* finishRun up to its await: the coordinator is free before the lock is
Finish(c) ==
    /\ At(c, "running")
    /\ chain[c].left = 0 \/ ~CanStartNextOperation(Here(c))
    /\ LET k == coord[Here(c)]
       IN  /\ Goto(c, [chain[c] EXCEPT !.pc = "finishing", !.again = k.deferred])
           /\ Set(Here(c), [k EXCEPT !.active = FALSE, !.deferred = FALSE])
    /\ UNCHANGED <<gate, queued, lock, events>>

FollowUpWhenActive(c) ==
    /\ queued' = [queued EXCEPT ![Here(c)] =
                    @ \/ (chain[c].again /\ life[Here(c)] = "active" /\ ~disposing[Here(c)])]
    /\ UNCHANGED across
FollowUpAtResume(c) ==
    /\ across' = [across EXCEPT ![Here(c)] = @ \/ chain[c].again]
    /\ UNCHANGED queued
\* the deferred reconciliation starts at once, or waits for a resume
FollowUp(c) ==
    LET r == Here(c)
        again == chain[c].again
    IN  /\ across' = [across EXCEPT ![r] = @ \/ (again /\ life[r] # "active")]
        /\ queued' = [queued EXCEPT ![r] =
                        @ \/ (again /\ life[r] = "active" /\ ~disposing[r])]
Finished(c) ==
    /\ At(c, "finished")
    /\ FollowUp(c)
    /\ Goto(c, Rest)
    /\ UNCHANGED <<life, epoch, disposing, coord, lock, events>>
----------------------------------------------------------------------------
(* User and lifecycle; what else they change is said by those who use them *)

Pause(r) ==
    /\ Set(r, [Cancelled(r) EXCEPT !.paused = TRUE])
    /\ Tell(r)
    /\ Happen
    /\ UNCHANGED <<gate, queued, lock>>

Resume(r) ==
    /\ coord[r].paused /\ ~disposing[r]
    /\ Set(r, [coord[r] EXCEPT !.paused = FALSE])
    /\ UNCHANGED <<gate, queued, chain, lock, events>>

Cancel(r) ==
    /\ Busy(r)
    /\ Set(r, Cancelled(r))
    /\ Tell(r)
    /\ Happen
    /\ UNCHANGED <<gate, queued, lock>>

\* suspension cancels the run before anything is awaited
Suspend(r) ==
    /\ life[r] = "active"
    /\ Enter(r, "suspending")
    /\ Set(r, Cancelled(r))
    /\ Tell(r)
    /\ Happen
    /\ UNCHANGED <<disposing, queued, lock>>

Settle(r) ==
    /\ life[r] = "suspending"
    /\ Enter(r, "suspended")
    /\ UNCHANGED <<across, coord, disposing, queued, chain, lock, events>>

Wake(r) ==
    /\ life[r] \in {"suspending", "suspended"}
    /\ Enter(r, "active")
    /\ across' = [across EXCEPT ![r] = FALSE]
    /\ UNCHANGED <<coord, disposing, chain, lock, events>>

\* the scheduler stops, the controller pauses, cancels and waits
Dispose(r) ==
    /\ ~disposing[r]
    /\ Enter(r, "unloading")
    /\ disposing' = [disposing EXCEPT ![r] = TRUE]
    /\ Set(r, [Cancelled(r) EXCEPT !.paused = TRUE])
    /\ Tell(r)
    /\ Happen
    /\ UNCHANGED <<queued, lock>>

\* a new runtime is built when every chain of the old one has ended
QuiescentRuns(r) == ~coord[r].active
Quiescent(r) == \A c \in Chain : Here(c) = r => At(c, "idle")
Replace(r) ==
    /\ disposing[r] /\ Quiescent(r) /\ ~queued[r]
    /\ disposing' = [disposing EXCEPT ![r] = FALSE]
    /\ Enter(r, "active")
    /\ Set(r, Fresh)
    /\ UNCHANGED <<across, queued, chain, lock, events>>

\* the realm dies, and the browser frees its lock
Crash(r) ==
    /\ Happen
    /\ life' = [life EXCEPT ![r] = "active"]
    /\ epoch' = [epoch EXCEPT ![r] = 0]
    /\ across' = [across EXCEPT ![r] = FALSE]
    /\ disposing' = [disposing EXCEPT ![r] = FALSE]
    /\ queued' = [queued EXCEPT ![r] = FALSE]
    /\ Set(r, Fresh)
    /\ chain' = [c \in Chain |-> IF Here(c) = r THEN Rest ELSE chain[c]]
    /\ lock' = IF lock \in {c \in Chain : Here(c) = r} THEN NoOne ELSE lock
----------------------------------------------------------------------------
RunInit ==
    /\ life = [r \in Realm |-> "active"]
    /\ epoch = [r \in Realm |-> 0]
    /\ across = [r \in Realm |-> FALSE]
    /\ coord = [r \in Realm |-> Fresh]
    /\ disposing = [r \in Realm |-> FALSE]
    /\ queued = [r \in Realm |-> FALSE]
    /\ chain = [c \in Chain |-> Rest]
    /\ lock = NoOne
    /\ events = 0

ChainStep(c) ==
    \/ StartPlanning(c) \/ PlanNothing(c) \/ BeginRun(c) \/ Grant(c) \/ Deny(c)
    \/ Start(c) \/ Free(c) \/ Leave(c) \/ StartOperation(c) \/ EndOperation(c)
    \/ Finish(c) \/ Finished(c)

\* an automatic trigger reaches the controller
Trigger(r) ==
    /\ ~disposing[r] /\ ~queued[r]
    /\ queued' = [queued EXCEPT ![r] = TRUE]
    /\ Happen
    /\ UNCHANGED <<gate, coord, chain, lock>>

\* without a scheduler: what is owed after a resume is queued at once
RunEvent(r) ==
    \/ Trigger(r) \/ Pause(r) \/ Resume(r) \/ Cancel(r) \/ Settle(r) \/ Crash(r)
    \/ Suspend(r) /\ UNCHANGED across
    \/ Wake(r) /\ queued' = [queued EXCEPT ![r] = @ \/ across[r]]
    \/ Dispose(r) /\ UNCHANGED across
    \/ Replace(r)

RunNext == (\E c \in Chain : ChainStep(c)) \/ (\E r \in Realm : RunEvent(r))
RunSpec == RunInit /\ [][RunNext]_runVars

\* awaits of the browser and of the run itself come back
RunFairness == \A c \in Chain : WF_runVars(Grant(c) \/ Deny(c) \/ Start(c) \/ Free(c)
                                           \/ Leave(c) \/ StartOperation(c)
                                           \/ EndOperation(c) \/ Finish(c) \/ Finished(c))
FairRunSpec == RunSpec /\ RunFairness
----------------------------------------------------------------------------
(* Properties *)

\* Every variable has its type.
RunTypeOK ==
    /\ life \in [Realm -> Lifecycle]
    /\ epoch \in [Realm -> Nat]
    /\ across \in [Realm -> BOOLEAN]
    /\ coord \in [Realm -> Coordinator]
    /\ disposing \in [Realm -> BOOLEAN]
    /\ queued \in [Realm -> BOOLEAN]
    /\ chain \in [Chain -> State]
    /\ lock \in Chain \cup {NoOne}
    /\ events \in 0..MaxEvents

\* At most one chain of all realms executes operations at any time, whatever
\* was paused, cancelled, replaced or crashed meanwhile (tryAcquire, beginRun).
Mutating(c) == chain[c].pc \in {"running", "operating"}
OneMutator == \A c, d \in Chain : Mutating(c) /\ Mutating(d) => c = d

\* A run that was told to stop while it acquired its lease or executed starts
\* no further operation, even if synchronization was resumed in the meantime.
StopIsObeyed ==
    [][\A c \in Chain : At(c, "running") /\ chain'[c].pc = "operating"
                            => ~chain[c].told]_runVars

\* A run never outlives a replacement of its runtime: the coordinator that is
\* thrown away has nothing in hand (beginRuntimeDisposal, awaitQuiescence).
ReplacedAtRest ==
    [][\A r \in Realm : disposing[r] /\ ~disposing'[r]
            => lock' \notin {r} \X Caller]_runVars

\* Neither the coordinator nor the lease can be wedged: whoever acquires or runs
\* comes to an end, on every path out of beginRun and finishRun.
NeverWedged == \A r \in Realm : []<>(~Busy(r)) /\ []<>(lock \notin {r} \X Caller)

\* A change noted during a run is never forgotten: from the coordinator it goes
\* to the end of the run, from there to the automatic queue or to the next
\* resume; only a planning pass, a replaced runtime or the death of the realm
\* discharges it (beginRun, finishRun, handleResume).
Owed(r) == \/ coord[r].deferred \/ queued[r] \/ across[r]
           \/ \E c \in Chain : Here(c) = r /\ chain[c].again
OwedIsKept ==
    [][\A r \in Realm :
          /\ Owed(r)
          /\ events' = events
          /\ ~(queued[r] /\ ~queued'[r])
          /\ ~(disposing[r] /\ ~disposing'[r])
          => Owed(r)']_runVars
=============================================================================
