------------------------ MODULE RunCoordinatorProofs ------------------------
(***************************************************************************)
(* RunCoordinator for every number of realms, chains and operations: runs  *)
(* exclude each other, a run that was told to stop starts nothing more,    *)
(* a runtime is replaced only when it has nothing in hand, and what a run  *)
(* leaves to be done is handed on.                                         *)
(***************************************************************************)
EXTENDS RunCoordinator, TLAPS

Holding == {"granted", "late", "running", "operating", "finishing"}
Asking == {"acquiring", "granted", "late", "left"}
Executing == {"running", "operating"}
InHand == Asking \cup Executing

\* the lock and the flags of the coordinator mirror the places of the chains
Mirrors ==
    /\ \A c \in Chain : chain[c].pc \in Holding <=> lock = c
    /\ \A c \in Chain : chain[c].pc \in Asking => coord[Here(c)].acquiring
    /\ \A c \in Chain : chain[c].pc \in Executing => coord[Here(c)].active

\* one realm has one chain in hand, and its signal knows what it was told
Serial ==
    /\ \A c, d \in Chain :
          /\ Here(c) = Here(d)
          /\ chain[c].pc \in InHand /\ chain[d].pc \in InHand
          => c = d
    /\ \A c \in Chain :
          InRun(c) /\ chain[c].told => coord[Here(c)].cancelled

RunInv == RunTypeOK /\ Mirrors /\ Serial

LEMMA HereIsRealm == ASSUME NEW c \in Chain PROVE Here(c) \in Realm
BY DEF Chain, Here

LEMMA FreshIsCoordinator == Fresh \in Coordinator
BY DEF Fresh, Coordinator

LEMMA RestIsState == Rest \in State
BY CoordinatorAssumption DEF Rest, State
----------------------------------------------------------------------------
(* One chain moves, and perhaps the coordinator of its realm *)

\* what a move must respect
LEMMA Move ==
    ASSUME RunInv,
           NEW c \in Chain, NEW s \in State, Goto(c, s),
           NEW k \in Coordinator, coord' = [coord EXCEPT ![Here(c)] = k],
           UNCHANGED <<life, epoch, disposing>>,
           across' \in [Realm -> BOOLEAN], queued' \in [Realm -> BOOLEAN],
           events' \in 0..MaxEvents,
           \/ lock' = lock /\ (s.pc \in Holding <=> chain[c].pc \in Holding)
           \/ lock = NoOne /\ lock' = c /\ s.pc \in Holding
           \/ lock = c /\ lock' = NoOne /\ s.pc \notin Holding,
           s.pc \in Asking => k.acquiring,
           s.pc \in Executing => k.active,
           \/ k = coord[Here(c)]
           \/ \A d \in Chain : d # c /\ Here(d) = Here(c) => chain[d].pc \notin InHand
           \/ /\ k.active = coord[Here(c)].active
              /\ k.acquiring = coord[Here(c)].acquiring
              /\ k.cancelled = coord[Here(c)].cancelled,
           \/ s.pc \notin InHand
           \/ chain[c].pc \in InHand
           \/ \A d \in Chain : d # c /\ Here(d) = Here(c) => chain[d].pc \notin InHand,
           s.told => s.pc \notin {"acquiring", "granted", "running", "operating"}
                     \/ k.cancelled
    PROVE  RunInv'
<1>1. /\ \A d \in Chain \ {c} : chain'[d] = chain[d]
      /\ chain'[c] = s
      /\ chain' \in [Chain -> State]
  BY DEF Goto, RunInv, RunTypeOK
<1>2. /\ \A r \in Realm \ {Here(c)} : coord'[r] = coord[r]
      /\ coord'[Here(c)] = k
      /\ coord' \in [Realm -> Coordinator]
  BY HereIsRealm DEF RunInv, RunTypeOK
<1>3. lock' \in Chain \cup {NoOne}
  BY DEF RunInv, RunTypeOK
<1>4. RunTypeOK'
  BY <1>1, <1>2, <1>3 DEF RunInv, RunTypeOK
<1>5. \A d \in Chain : chain'[d].pc \in Holding <=> lock' = d
  BY <1>1, CoordinatorAssumption DEF RunInv, Mirrors
<1>6. \A d \in Chain \ {c} :
         \/ coord'[Here(d)] = coord[Here(d)]
         \/ chain[d].pc \notin InHand
         \/ /\ coord'[Here(d)].active = coord[Here(d)].active
            /\ coord'[Here(d)].acquiring = coord[Here(d)].acquiring
            /\ coord'[Here(d)].cancelled = coord[Here(d)].cancelled
  BY <1>2, HereIsRealm
<1>7. \A d \in Chain : /\ chain'[d].pc \in Asking => coord'[Here(d)].acquiring
                       /\ chain'[d].pc \in Executing => coord'[Here(d)].active
  BY <1>1, <1>2, <1>6 DEF RunInv, Mirrors, InHand
<1>8. \A d, e \in Chain : /\ Here(d) = Here(e)
                          /\ chain'[d].pc \in InHand /\ chain'[e].pc \in InHand
                          => d = e
  BY <1>1 DEF RunInv, Serial
<1>9. \A d \in Chain : InRun(d)' /\ chain'[d].told => coord'[Here(d)].cancelled
  BY <1>1, <1>2, <1>6 DEF RunInv, Serial, InRun, InHand, Asking, Executing
<1> QED BY <1>4, <1>5, <1>7, <1>8, <1>9 DEF RunInv, Mirrors, Serial, Here, InRun

LEMMA Facts ==
    ASSUME RunInv, NEW c \in Chain
    PROVE  /\ chain[c] \in State /\ coord[Here(c)] \in Coordinator
           /\ Here(c) \in Realm
           /\ across \in [Realm -> BOOLEAN] /\ queued \in [Realm -> BOOLEAN]
           /\ coord \in [Realm -> Coordinator]
           /\ events \in 0..MaxEvents
           /\ chain[c].pc \in Holding <=> lock = c
           /\ coord' = coord => coord' = [coord EXCEPT ![Here(c)] = coord[Here(c)]]
BY HereIsRealm DEF RunInv, RunTypeOK, Mirrors

LEMMA EventsBounded == ASSUME RunInv, Happen \/ Quietly
                       PROVE events' \in 0..MaxEvents
BY CoordinatorAssumption DEF RunInv, RunTypeOK, Happen, Quietly

\* an idle coordinator has no chain in hand, a busy chain keeps others out
LEMMA Alone ==
    ASSUME RunInv, NEW c \in Chain, chain[c].pc \in InHand \/ ~Busy(Here(c))
    PROVE  \A d \in Chain : d # c /\ Here(d) = Here(c) => chain[d].pc \notin InHand
BY DEF RunInv, Mirrors, Serial, Busy, InHand

\* a chain that goes to rest without the lock
LEMMA Rested ==
    ASSUME RunInv, NEW c \in Chain, Goto(c, Rest), chain[c].pc \notin Holding,
           NEW k \in Coordinator, coord' = [coord EXCEPT ![Here(c)] = k],
           UNCHANGED <<life, epoch, disposing, lock>>,
           across' \in [Realm -> BOOLEAN], queued' \in [Realm -> BOOLEAN],
           events' \in 0..MaxEvents,
           \/ k = coord[Here(c)]
           \/ chain[c].pc \in InHand
           \/ /\ k.active = coord[Here(c)].active
              /\ k.acquiring = coord[Here(c)].acquiring
              /\ k.cancelled = coord[Here(c)].cancelled
    PROVE  RunInv'
<1>1. /\ Rest.pc \notin Holding /\ Rest.pc \notin InHand /\ Rest.told = FALSE
      /\ Rest.pc \notin Asking /\ Rest.pc \notin Executing
  BY DEF Rest, Holding, InHand, Asking, Executing
<1>2. \/ k = coord[Here(c)]
      \/ \A d \in Chain : d # c /\ Here(d) = Here(c) => chain[d].pc \notin InHand
      \/ /\ k.active = coord[Here(c)].active
         /\ k.acquiring = coord[Here(c)].acquiring
         /\ k.cancelled = coord[Here(c)].cancelled
  BY Alone
<1> QED BY <1>1, <1>2, RestIsState, Move

LEMMA StartPlanningKeeps == ASSUME RunInv, NEW c \in Chain, StartPlanning(c) PROVE RunInv'
<1>1. queued' \in [Realm -> BOOLEAN] /\ chain[c].pc = "idle"
  BY Facts DEF StartPlanning, At
<1> DEFINE s == [Rest EXCEPT !.pc = "planning"]
<1>2. CASE Goto(c, Rest)
  BY <1>1, <1>2, Facts, Rested DEF StartPlanning, gate, Holding
<1>3. CASE Goto(c, s)
  <2>1. s \in State
    BY RestIsState DEF State
  <2>2. s.pc = "planning" /\ s.told = FALSE
    BY DEF Rest
  <2> HIDE DEF s
  <2> QED BY <1>1, <1>3, <2>1, <2>2, Facts, Move
          DEF StartPlanning, gate, Holding, Asking, Executing, InHand
<1> QED BY <1>2, <1>3 DEF StartPlanning

LEMMA PlanNothingKeeps == ASSUME RunInv, NEW c \in Chain, PlanNothing(c) PROVE RunInv'
BY Facts, EventsBounded, Rested DEF PlanNothing, At, gate, Holding

LEMMA BeginRunKeeps == ASSUME RunInv, NEW c \in Chain, BeginRun(c) PROVE RunInv'
<1> DEFINE r == Here(c)
<1>1. /\ chain[c].pc \in {"idle", "planning"} /\ events' \in 0..MaxEvents
      /\ UNCHANGED <<life, epoch, across, disposing, queued, lock>>
  BY EventsBounded DEF BeginRun, At, gate
<1>2. CASE Goto(c, Rest) /\ UNCHANGED coord
  BY <1>1, <1>2, Facts, Rested DEF Holding
<1>3. CASE /\ Set(r, [coord[r] EXCEPT !.deferred = TRUE])
           /\ Goto(c, Rest)
  <2> DEFINE k == [coord[r] EXCEPT !.deferred = TRUE]
  <2>1. /\ k \in Coordinator /\ k.active = coord[r].active
        /\ k.acquiring = coord[r].acquiring /\ k.cancelled = coord[r].cancelled
    BY Facts DEF Coordinator
  <2>2. coord' = [coord EXCEPT ![Here(c)] = k]
    BY <1>3 DEF Set
  <2> HIDE DEF k
  <2> QED BY <1>1, <1>3, <2>1, <2>2, Facts, Rested DEF Holding
<1>4. CASE /\ ~Busy(r)
           /\ Set(r, [coord[r] EXCEPT !.cancelled = FALSE, !.acquiring = TRUE])
           /\ Goto(c, [Rest EXCEPT !.pc = "acquiring", !.epoch = epoch[r]])
  <2> DEFINE k == [coord[r] EXCEPT !.cancelled = FALSE, !.acquiring = TRUE]
             s == [Rest EXCEPT !.pc = "acquiring", !.epoch = epoch[r]]
  <2>1. k \in Coordinator /\ k.acquiring
    BY Facts DEF Coordinator
  <2>2. epoch[r] \in Nat
    BY Facts DEF RunInv, RunTypeOK
  <2>3. s \in State /\ s.pc = "acquiring" /\ s.told = FALSE
    BY <2>2, RestIsState DEF State, Rest
  <2>4. Goto(c, s) /\ coord' = [coord EXCEPT ![Here(c)] = k]
    BY <1>4 DEF Set
  <2> HIDE DEF k, s
  <2> QED BY <1>1, <1>4, <2>1, <2>3, <2>4, Facts, Alone, Move
          DEF Holding, Asking, Executing, InHand
<1> QED BY <1>2, <1>3, <1>4 DEF BeginRun

LEMMA GrantKeeps == ASSUME RunInv, NEW c \in Chain, Grant(c) PROVE RunInv'
<1> DEFINE s == [chain[c] EXCEPT !.pc = "granted"]
<1>1. chain[c].pc = "acquiring" /\ coord[Here(c)].acquiring
  BY DEF Grant, At, RunInv, Mirrors, Asking
<1>2. s \in State /\ s.pc = "granted" /\ s.told = chain[c].told
  BY Facts DEF State
<1>3. s.told => coord[Here(c)].cancelled
  BY <1>1, <1>2 DEF RunInv, Serial, InRun
<1>4. Goto(c, s)
  BY DEF Grant
<1> HIDE DEF s
<1> QED BY <1>1, <1>2, <1>3, <1>4, Facts, Move
        DEF Grant, Available, gate, Holding, Asking, Executing, InHand

LEMMA ReleasedIsCoordinator ==
    ASSUME RunInv, NEW c \in Chain
    PROVE  Released(Here(c)) \in Coordinator
BY Facts DEF Released, Coordinator

LEMMA DenyKeeps == ASSUME RunInv, NEW c \in Chain, Deny(c) PROVE RunInv'
BY Facts, ReleasedIsCoordinator, Rested
DEF Deny, At, Set, gate, Holding, InHand, Asking

LEMMA LeaveKeeps == ASSUME RunInv, NEW c \in Chain, Leave(c) PROVE RunInv'
BY Facts, ReleasedIsCoordinator, Rested
DEF Leave, At, Set, gate, Holding, InHand, Asking

LEMMA StartKeeps == ASSUME RunInv, NEW c \in Chain, Start(c) PROVE RunInv'
<1> DEFINE r == Here(c)
<1>1. /\ chain[c].pc = "granted" /\ coord[r].acquiring
      /\ UNCHANGED <<life, epoch, across, disposing, queued, lock, events>>
  BY DEF Start, At, gate, RunInv, Mirrors, Asking
<1>2. CASE /\ Set(r, [coord[r] EXCEPT !.deferred = @ \/ coord[r].active])
           /\ Goto(c, [chain[c] EXCEPT !.pc = "late"])
  <2> DEFINE k == [coord[r] EXCEPT !.deferred = @ \/ coord[r].active]
             s == [chain[c] EXCEPT !.pc = "late"]
  <2>1. /\ k \in Coordinator /\ k.active = coord[r].active
        /\ k.acquiring = coord[r].acquiring /\ k.cancelled = coord[r].cancelled
    BY Facts DEF Coordinator
  <2>2. s \in State /\ s.pc = "late"
    BY Facts DEF State
  <2>3. Goto(c, s) /\ coord' = [coord EXCEPT ![Here(c)] = k]
    BY <1>2 DEF Set
  <2> HIDE DEF k, s
  <2> QED BY <1>1, <2>1, <2>2, <2>3, Facts, Move
          DEF Holding, Asking, Executing, InHand
<1>3. CASE /\ ~Overtaken(c)
           /\ Set(r, [coord[r] EXCEPT !.active = TRUE, !.acquiring = FALSE])
           /\ \E n \in 0..MaxOperations :
                 Goto(c, [chain[c] EXCEPT !.pc = "running", !.left = n])
  <2> DEFINE k == [coord[r] EXCEPT !.active = TRUE, !.acquiring = FALSE]
  <2>1. k \in Coordinator /\ k.active
    BY Facts DEF Coordinator
  <2>2. PICK n \in 0..MaxOperations :
           Goto(c, [chain[c] EXCEPT !.pc = "running", !.left = n])
    BY <1>3
  <2> DEFINE s == [chain[c] EXCEPT !.pc = "running", !.left = n]
  <2>3. s \in State /\ s.pc = "running" /\ s.told = chain[c].told
    BY Facts DEF State
  <2>4. ~s.told
    BY <1>1, <1>3, <2>3 DEF RunInv, Serial, InRun, Overtaken
  <2>5. Goto(c, s) /\ coord' = [coord EXCEPT ![Here(c)] = k]
    BY <1>3, <2>2 DEF Set
  <2>6. \A d \in Chain : d # c /\ Here(d) = Here(c) => chain[d].pc \notin InHand
    BY <1>1, Alone DEF InHand, Asking
  <2> HIDE DEF k, s
  <2> QED BY <1>1, <2>1, <2>3, <2>4, <2>5, <2>6, Facts, Move
          DEF Holding, Asking, Executing, InHand
<1> QED BY <1>2, <1>3 DEF Start

LEMMA FreeKeeps == ASSUME RunInv, NEW c \in Chain, Free(c) PROVE RunInv'
<1> DEFINE label == IF chain[c].pc = "late" THEN "left" ELSE "finished"
           s == [chain[c] EXCEPT !.pc = label]
<1>1. chain[c].pc \in {"late", "finishing"} /\ chain[c].pc \in Holding /\ lock = c
  BY Facts DEF Free, Holding
<1>2. chain[c].pc = "late" => coord[Here(c)].acquiring
  BY DEF RunInv, Mirrors, Asking
<1>3. s = [chain[c] EXCEPT !.pc = IF @ = "late" THEN "left" ELSE "finished"]
  BY Facts DEF State
<1>4. Goto(c, s)
  BY <1>3 DEF Free
<1>5. label \in {"left", "finished"} /\ (label = "left" => chain[c].pc = "late")
  OBVIOUS
<1> HIDE DEF label
<1>6. s \in State /\ s.pc = label
  BY <1>5, Facts DEF State
<1> HIDE DEF s
<1> QED BY <1>1, <1>2, <1>4, <1>5, <1>6, Facts, Move
        DEF Free, gate, Holding, Asking, Executing, InHand

LEMMA StartOperationKeeps == ASSUME RunInv, NEW c \in Chain, StartOperation(c) PROVE RunInv'
<1> DEFINE rest == chain[c].left - 1
           s == [chain[c] EXCEPT !.pc = "operating", !.left = rest]
<1>1. chain[c].pc = "running" /\ coord[Here(c)].active
  BY DEF StartOperation, At, CanStartNextOperation
<1>2. rest \in 0..MaxOperations
  BY Facts, CoordinatorAssumption DEF StartOperation, State
<1>3. Goto(c, s)
  BY Facts DEF StartOperation, State
<1> HIDE DEF rest
<1>4. s \in State /\ s.pc = "operating" /\ s.told = chain[c].told
  BY <1>2, Facts DEF State
<1>5. s.told => coord[Here(c)].cancelled
  BY <1>1, <1>4 DEF RunInv, Serial, InRun
<1> HIDE DEF s
<1> QED BY <1>1, <1>3, <1>4, <1>5, Facts, Move
        DEF StartOperation, gate, Holding, Asking, Executing, InHand

LEMMA EndOperationKeeps == ASSUME RunInv, NEW c \in Chain, EndOperation(c) PROVE RunInv'
<1> DEFINE r == Here(c)
           k == [coord[r] EXCEPT !.deferred = TRUE]
<1>1. /\ chain[c].pc = "operating" /\ coord[r].active
      /\ UNCHANGED <<life, epoch, across, disposing, queued, lock>>
      /\ events' \in 0..MaxEvents
  BY EventsBounded DEF EndOperation, At, gate, RunInv, Mirrors, Executing
<1>2. PICK n \in {0, chain[c].left} :
         Goto(c, [chain[c] EXCEPT !.pc = "running", !.left = n])
  <2>1. [chain[c] EXCEPT !.pc = "running"]
           = [chain[c] EXCEPT !.pc = "running", !.left = chain[c].left]
    BY Facts DEF State
  <2> QED BY <2>1 DEF EndOperation
<1>3. n \in 0..MaxOperations
  BY Facts, CoordinatorAssumption DEF State
<1> DEFINE s == [chain[c] EXCEPT !.pc = "running", !.left = n]
<1>4. s \in State /\ s.pc = "running" /\ s.told = chain[c].told
  BY <1>3, Facts DEF State
<1>5. s.told => coord[r].cancelled
  BY <1>1, <1>4 DEF RunInv, Serial, InRun
<1>6. /\ k \in Coordinator /\ k.active = coord[r].active
      /\ k.acquiring = coord[r].acquiring /\ k.cancelled = coord[r].cancelled
  BY Facts DEF Coordinator
<1>7. coord' = [coord EXCEPT ![r] = coord[r]] \/ coord' = [coord EXCEPT ![r] = k]
  BY Facts DEF EndOperation, Set
<1>8. Goto(c, s)
  BY <1>2
<1>9. /\ across' \in [Realm -> BOOLEAN] /\ queued' \in [Realm -> BOOLEAN]
      /\ coord[r] \in Coordinator
  BY <1>1, Facts
<1>10. \A j \in {coord[r], k} :
          coord' = [coord EXCEPT ![r] = j] => RunInv'
  <2> SUFFICES ASSUME NEW j \in {coord[r], k}, coord' = [coord EXCEPT ![r] = j]
               PROVE  RunInv'
    OBVIOUS
  <2>1. /\ j \in Coordinator /\ j.active = coord[r].active
        /\ j.acquiring = coord[r].acquiring /\ j.cancelled = coord[r].cancelled
    BY <1>6, <1>9
  <2> HIDE DEF s, k
  <2> QED BY <1>1, <1>4, <1>5, <1>8, <1>9, <2>1, Move
          DEF Holding, Asking, Executing, InHand
<1> QED BY <1>7, <1>10

LEMMA FinishKeeps == ASSUME RunInv, NEW c \in Chain, Finish(c) PROVE RunInv'
<1> DEFINE r == Here(c)
           again == coord[r].deferred
           k == [coord[r] EXCEPT !.active = FALSE, !.deferred = FALSE]
           s == [chain[c] EXCEPT !.pc = "finishing", !.again = again]
<1>1. chain[c].pc = "running" /\ UNCHANGED <<life, epoch, across, disposing, queued, lock, events>>
  BY DEF Finish, At, gate
<1>2. k \in Coordinator /\ again \in BOOLEAN
  BY Facts DEF Coordinator
<1>3. Goto(c, s) /\ coord' = [coord EXCEPT ![Here(c)] = k]
  BY DEF Finish, Set
<1> HIDE DEF again
<1>4. s \in State /\ s.pc = "finishing"
  BY <1>2, Facts DEF State
<1>5. \A d \in Chain : d # c /\ Here(d) = Here(c) => chain[d].pc \notin InHand
  BY <1>1, Alone DEF InHand, Executing
<1> HIDE DEF s, k
<1> QED BY <1>1, <1>2, <1>3, <1>4, <1>5, Facts, Move
        DEF Holding, Asking, Executing, InHand

LEMMA FinishedKeeps == ASSUME RunInv, NEW c \in Chain, Finished(c) PROVE RunInv'
<1>1. chain[c].pc = "finished" /\ Goto(c, Rest)
      /\ UNCHANGED <<life, epoch, disposing, coord, lock, events>>
  BY DEF Finished, At
<1>2. across' \in [Realm -> BOOLEAN] /\ queued' \in [Realm -> BOOLEAN]
  BY Facts DEF Finished, FollowUp, State
<1> QED BY <1>1, <1>2, Facts, Rested DEF Holding
----------------------------------------------------------------------------
(* User and lifecycle *)

\* whoever tells a realm to stop also cancels its signal
LEMMA ToldKeeps ==
    ASSUME RunInv, NEW r \in Realm, Tell(r),
           NEW k \in Coordinator, coord' = [coord EXCEPT ![r] = k],
           k.active = coord[r].active, k.acquiring = coord[r].acquiring,
           k.cancelled = (coord[r].cancelled \/ Busy(r)),
           life' \in [Realm -> Lifecycle], epoch' \in [Realm -> Nat],
           across' \in [Realm -> BOOLEAN], disposing' \in [Realm -> BOOLEAN],
           events' \in 0..MaxEvents,
           UNCHANGED <<queued, lock>>
    PROVE  RunInv'
<1>1. \A c \in Chain : /\ chain'[c].pc = chain[c].pc
                       /\ Here(c) # r => chain'[c].told = chain[c].told
                       /\ ~InRun(c) => chain'[c].told = chain[c].told
  BY DEF Tell, RunInv, RunTypeOK, State
<1>2. chain' \in [Chain -> State]
  <2>1. \A c \in Chain : [chain[c] EXCEPT !.told = TRUE] \in State
    BY DEF RunInv, RunTypeOK, State
  <2> QED BY <2>1 DEF Tell, RunInv, RunTypeOK
<1>3. /\ coord' \in [Realm -> Coordinator] /\ coord'[r] = k
      /\ \A q \in Realm \ {r} : coord'[q] = coord[q]
  BY DEF RunInv, RunTypeOK
<1>4. RunTypeOK'
  BY <1>2, <1>3 DEF RunInv, RunTypeOK
<1>5. Mirrors'
  BY <1>1, <1>3, HereIsRealm DEF RunInv, Mirrors, Here
<1>6. \A c \in Chain : InRun(c) => Busy(Here(c))
  BY DEF RunInv, Mirrors, InRun, Busy, Asking, Executing
<1>7. \A c \in Chain : InRun(c)' /\ chain'[c].told => coord'[Here(c)].cancelled
  BY <1>1, <1>3, <1>6, HereIsRealm DEF RunInv, Serial, InRun
<1>8. Serial'
  BY <1>1, <1>7 DEF RunInv, Serial, Here
<1> QED BY <1>4, <1>5, <1>8 DEF RunInv

LEMMA CancelledIsCoordinator ==
    ASSUME RunInv, NEW r \in Realm
    PROVE  /\ Cancelled(r) \in Coordinator
           /\ Cancelled(r).active = coord[r].active
           /\ Cancelled(r).acquiring = coord[r].acquiring
           /\ Cancelled(r).cancelled = (coord[r].cancelled \/ Busy(r))
           /\ [Cancelled(r) EXCEPT !.paused = TRUE] \in Coordinator
           /\ [Cancelled(r) EXCEPT !.paused = TRUE].active = coord[r].active
           /\ [Cancelled(r) EXCEPT !.paused = TRUE].acquiring = coord[r].acquiring
           /\ [Cancelled(r) EXCEPT !.paused = TRUE].cancelled
                 = (coord[r].cancelled \/ Busy(r))
<1> DEFINE stop == coord[r].cancelled \/ Busy(r)
<1>1. coord[r] \in Coordinator
  BY DEF RunInv, RunTypeOK
<1>2. stop \in BOOLEAN
  BY <1>1 DEF Coordinator, Busy
<1>3. Cancelled(r) = [coord[r] EXCEPT !.cancelled = stop]
  BY <1>1 DEF Cancelled, Coordinator
<1> HIDE DEF stop
<1>4. /\ Cancelled(r) \in Coordinator
      /\ Cancelled(r).active = coord[r].active
      /\ Cancelled(r).acquiring = coord[r].acquiring
      /\ Cancelled(r).cancelled = stop
  BY <1>1, <1>2, <1>3 DEF Coordinator
<1>5. /\ [Cancelled(r) EXCEPT !.paused = TRUE] \in Coordinator
      /\ [Cancelled(r) EXCEPT !.paused = TRUE].active = coord[r].active
      /\ [Cancelled(r) EXCEPT !.paused = TRUE].acquiring = coord[r].acquiring
      /\ [Cancelled(r) EXCEPT !.paused = TRUE].cancelled = stop
  BY <1>4 DEF Coordinator
<1> QED BY <1>4, <1>5 DEF stop

LEMMA EnterTypes ==
    ASSUME RunInv, NEW r \in Realm, NEW next \in Lifecycle, Enter(r, next)
    PROVE  life' \in [Realm -> Lifecycle] /\ epoch' \in [Realm -> Nat]
BY DEF Enter, RunInv, RunTypeOK

LEMMA PauseKeeps == ASSUME RunInv, NEW r \in Realm, Pause(r) PROVE RunInv'
<1>1. events' \in 0..MaxEvents /\ UNCHANGED <<life, epoch, across, disposing>>
  BY EventsBounded DEF Pause, gate
<1> QED BY <1>1, CancelledIsCoordinator, ToldKeeps DEF Pause, Set, RunInv, RunTypeOK

LEMMA CancelKeeps == ASSUME RunInv, NEW r \in Realm, Cancel(r) PROVE RunInv'
<1>1. events' \in 0..MaxEvents /\ UNCHANGED <<life, epoch, across, disposing>>
  BY EventsBounded DEF Cancel, gate
<1> QED BY <1>1, CancelledIsCoordinator, ToldKeeps DEF Cancel, Set, RunInv, RunTypeOK

LEMMA SuspendKeeps ==
    ASSUME RunInv, NEW r \in Realm, Suspend(r), across' \in [Realm -> BOOLEAN]
    PROVE  RunInv'
<1>1. events' \in 0..MaxEvents /\ disposing' \in [Realm -> BOOLEAN]
  BY EventsBounded DEF Suspend, RunInv, RunTypeOK
<1>2. life' \in [Realm -> Lifecycle] /\ epoch' \in [Realm -> Nat]
  BY EnterTypes DEF Suspend, Lifecycle
<1> QED BY <1>1, <1>2, CancelledIsCoordinator, ToldKeeps DEF Suspend, Set

LEMMA DisposeKeeps ==
    ASSUME RunInv, NEW r \in Realm, Dispose(r), across' \in [Realm -> BOOLEAN]
    PROVE  RunInv'
<1>1. events' \in 0..MaxEvents /\ disposing' \in [Realm -> BOOLEAN]
  BY EventsBounded DEF Dispose, RunInv, RunTypeOK
<1>2. life' \in [Realm -> Lifecycle] /\ epoch' \in [Realm -> Nat]
  BY EnterTypes DEF Dispose, Lifecycle
<1> QED BY <1>1, <1>2, CancelledIsCoordinator, ToldKeeps DEF Dispose, Set

\* what leaves chains, lock and signals alone
LEMMA GateKeeps ==
    ASSUME RunInv, UNCHANGED <<chain, lock>>, coord' \in [Realm -> Coordinator],
           \A r \in Realm : /\ coord'[r].active = coord[r].active
                            /\ coord'[r].acquiring = coord[r].acquiring
                            /\ coord'[r].cancelled = coord[r].cancelled,
           life' \in [Realm -> Lifecycle], epoch' \in [Realm -> Nat],
           across' \in [Realm -> BOOLEAN], disposing' \in [Realm -> BOOLEAN],
           queued' \in [Realm -> BOOLEAN], events' \in 0..MaxEvents
    PROVE  RunInv'
<1>1. RunTypeOK'
  BY DEF RunInv, RunTypeOK
<1>2. Mirrors' /\ Serial'
  BY HereIsRealm DEF RunInv, Mirrors, Serial, Here, InRun
<1> QED BY <1>1, <1>2 DEF RunInv

LEMMA ResumeKeeps == ASSUME RunInv, NEW r \in Realm, Resume(r) PROVE RunInv'
<1> DEFINE k == [coord[r] EXCEPT !.paused = FALSE]
<1>1. /\ k \in Coordinator /\ k.active = coord[r].active
      /\ k.acquiring = coord[r].acquiring /\ k.cancelled = coord[r].cancelled
  BY DEF RunInv, RunTypeOK, Coordinator
<1>2. coord' = [coord EXCEPT ![r] = k]
  BY DEF Resume, Set
<1> HIDE DEF k
<1>3. /\ coord' \in [Realm -> Coordinator] /\ coord'[r] = k
      /\ \A q \in Realm \ {r} : coord'[q] = coord[q]
  BY <1>1, <1>2 DEF RunInv, RunTypeOK
<1> QED BY <1>1, <1>3, GateKeeps DEF Resume, gate, RunInv, RunTypeOK

LEMMA TriggerKeeps == ASSUME RunInv, NEW r \in Realm, Trigger(r) PROVE RunInv'
BY EventsBounded, GateKeeps DEF Trigger, gate, RunInv, RunTypeOK

LEMMA SettleKeeps == ASSUME RunInv, NEW r \in Realm, Settle(r) PROVE RunInv'
BY EnterTypes, GateKeeps DEF Settle, Lifecycle, RunInv, RunTypeOK

LEMMA WakeKeeps ==
    ASSUME RunInv, NEW r \in Realm, Wake(r), queued' \in [Realm -> BOOLEAN]
    PROVE  RunInv'
BY EnterTypes, GateKeeps DEF Wake, Lifecycle, RunInv, RunTypeOK

\* a fresh coordinator, when no chain of its realm is in hand or holds the lock
LEMMA FreshKeeps ==
    ASSUME RunInv, NEW r \in Realm, coord' = [coord EXCEPT ![r] = Fresh],
           life' \in [Realm -> Lifecycle], epoch' \in [Realm -> Nat],
           across' \in [Realm -> BOOLEAN], disposing' \in [Realm -> BOOLEAN],
           queued' \in [Realm -> BOOLEAN], events' \in 0..MaxEvents,
           chain' \in [Chain -> State], lock' \in Chain \cup {NoOne},
           \A c \in Chain : Here(c) = r => chain'[c].pc = "idle" /\ lock' # c,
           \A c \in Chain : Here(c) # r =>
               chain'[c] = chain[c] /\ (lock' = c <=> lock = c)
    PROVE  RunInv'
<1>1. /\ coord' \in [Realm -> Coordinator]
      /\ \A q \in Realm \ {r} : coord'[q] = coord[q]
  BY FreshIsCoordinator DEF RunInv, RunTypeOK
<1>2. RunTypeOK'
  BY <1>1 DEF RunInv, RunTypeOK
<1>3. "idle" \notin Holding /\ "idle" \notin Asking /\ "idle" \notin Executing
  BY DEF Holding, Asking, Executing
<1>4. Mirrors'
  BY <1>1, <1>3, HereIsRealm DEF RunInv, Mirrors, Here
<1>5. Serial'
  BY <1>1, <1>3, HereIsRealm DEF RunInv, Serial, Here, InRun, InHand, Executing, Asking
<1> QED BY <1>2, <1>4, <1>5 DEF RunInv

LEMMA ReplaceKeeps == ASSUME RunInv, NEW r \in Realm, Replace(r) PROVE RunInv'
<1>1. life' \in [Realm -> Lifecycle] /\ epoch' \in [Realm -> Nat]
  BY EnterTypes DEF Replace, Lifecycle
<1>2. \A c \in Chain : Here(c) = r => chain[c].pc = "idle" /\ lock # c
  BY DEF Replace, Quiescent, At, RunInv, Mirrors, Holding
<1> QED BY <1>1, <1>2, FreshKeeps DEF Replace, Set, RunInv, RunTypeOK

LEMMA CrashKeeps == ASSUME RunInv, NEW r \in Realm, Crash(r) PROVE RunInv'
<1>1. events' \in 0..MaxEvents
  BY EventsBounded DEF Crash
<1>2. /\ life' \in [Realm -> Lifecycle] /\ epoch' \in [Realm -> Nat]
      /\ across' \in [Realm -> BOOLEAN] /\ disposing' \in [Realm -> BOOLEAN]
      /\ queued' \in [Realm -> BOOLEAN]
  BY DEF Crash, RunInv, RunTypeOK, Lifecycle
<1>3. /\ chain' \in [Chain -> State] /\ lock' \in Chain \cup {NoOne}
      /\ coord' = [coord EXCEPT ![r] = Fresh]
  BY RestIsState DEF Crash, Set, RunInv, RunTypeOK
<1>4. \A c \in Chain : Here(c) = r => chain'[c].pc = "idle" /\ lock' # c
  BY CoordinatorAssumption DEF Crash, Rest
<1>5. \A c \in Chain : Here(c) # r =>
         chain'[c] = chain[c] /\ (lock' = c <=> lock = c)
  BY CoordinatorAssumption DEF Crash
<1> QED BY <1>1, <1>2, <1>3, <1>4, <1>5, FreshKeeps
----------------------------------------------------------------------------
(* Theorems *)

LEMMA RunInitially == RunInit => RunInv
<1> SUFFICES ASSUME RunInit PROVE RunInv
  OBVIOUS
<1>1. RunTypeOK
  BY FreshIsCoordinator, RestIsState, CoordinatorAssumption
  DEF RunInit, RunTypeOK, Lifecycle
<1>2. Mirrors /\ Serial
  BY CoordinatorAssumption
  DEF RunInit, Mirrors, Serial, Rest, InRun, Holding, Asking, Executing, InHand
<1> QED BY <1>1, <1>2 DEF RunInv

LEMMA RunStep == RunInv /\ [RunNext]_runVars => RunInv'
<1> SUFFICES ASSUME RunInv, [RunNext]_runVars PROVE RunInv'
  OBVIOUS
<1>1. ASSUME NEW c \in Chain, ChainStep(c) PROVE RunInv'
  BY <1>1, StartPlanningKeeps, PlanNothingKeeps, BeginRunKeeps, GrantKeeps, DenyKeeps,
     StartKeeps, FreeKeeps, LeaveKeeps, StartOperationKeeps, EndOperationKeeps,
     FinishKeeps, FinishedKeeps
  DEF ChainStep
<1>2. ASSUME NEW r \in Realm, RunEvent(r) PROVE RunInv'
  <2>1. across \in [Realm -> BOOLEAN] /\ queued \in [Realm -> BOOLEAN]
    BY DEF RunInv, RunTypeOK
  <2>2. CASE Suspend(r) /\ UNCHANGED across
    BY <2>1, <2>2, SuspendKeeps
  <2>3. CASE Wake(r) /\ queued' = [queued EXCEPT ![r] = @ \/ across[r]]
    BY <2>1, <2>3, WakeKeeps
  <2>4. CASE Dispose(r) /\ UNCHANGED across
    BY <2>1, <2>4, DisposeKeeps
  <2> QED BY <1>2, <2>2, <2>3, <2>4, TriggerKeeps, PauseKeeps, ResumeKeeps,
             CancelKeeps, SettleKeeps, CrashKeeps, ReplaceKeeps
          DEF RunEvent
<1>3. CASE UNCHANGED runVars
  BY <1>3, GateKeeps DEF runVars, RunInv, RunTypeOK
<1> QED BY <1>1, <1>2, <1>3 DEF RunNext

\* Lock, coordinator flags and the places of all chains agree at all times.
THEOREM RunInvariantHolds == RunSpec => []RunInv
BY RunInitially, RunStep, PTL DEF RunSpec

\* Every variable of the coordinator keeps its type (CoreRunCoordinator fields).
THEOREM RunTypeCorrect == RunSpec => []RunTypeOK
<1>1. RunInv => RunTypeOK
  BY DEF RunInv
<1> QED BY <1>1, RunInvariantHolds, PTL

\* However many realms have the vault open and whatever is paused, suspended,
\* replaced or crashed, two runs never execute at the same time (beginRun).
THEOREM MutualExclusion == RunSpec => []OneMutator
<1>1. RunInv => OneMutator
  BY DEF RunInv, Mirrors, Holding, OneMutator, Mutating
<1> QED BY <1>1, RunInvariantHolds, PTL

\* only a started operation takes a chain from between two operations into one
LEMMA OnlyStarts ==
    ASSUME RunInv, RunNext, NEW c \in Chain,
           chain[c].pc = "running", chain'[c].pc = "operating"
    PROVE  StartOperation(c)
<1>1. chain \in [Chain -> State]
  BY DEF RunInv, RunTypeOK
<1>2. CASE \E d \in Chain : ChainStep(d)
  <2>1. PICK d \in Chain : ChainStep(d)
    BY <1>2
  <2>2. \E s : Goto(d, s)
    BY <2>1 DEF ChainStep, StartPlanning, PlanNothing, BeginRun, Grant, Deny, Start,
                Free, Leave, StartOperation, EndOperation, Finish, Finished
  <2>3. d = c
    BY <1>1, <2>2 DEF Goto
  <2>4. StartOperation(c) \/ Finish(c)
    BY <2>1, <2>3 DEF ChainStep, StartPlanning, PlanNothing, BeginRun, Grant, Deny,
                      Start, Free, Leave, EndOperation, Finished, At
  <2>5. ~Finish(c)
    <3>1. SUFFICES ASSUME Finish(c) PROVE chain'[c].pc = "finishing"
      OBVIOUS
    <3>2. Goto(c, [chain[c] EXCEPT !.pc = "finishing", !.again = coord[Here(c)].deferred])
      BY <3>1 DEF Finish
    <3> QED BY <1>1, <3>2 DEF Goto, State
  <2> QED BY <2>4, <2>5
<1>3. CASE \E r \in Realm : RunEvent(r)
  <2>1. PICK r \in Realm : RunEvent(r)
    BY <1>3
  <2>2. \/ chain' = chain \/ Tell(r)
        \/ chain' = [d \in Chain |-> IF Here(d) = r THEN Rest ELSE chain[d]]
    BY <2>1 DEF RunEvent, Trigger, Pause, Resume, Cancel, Settle, Crash, Suspend,
                Wake, Dispose, Replace
  <2>3. chain'[c].pc \in {"running", "idle"}
    BY <1>1, <2>2 DEF Tell, Rest, State
  <2> QED BY <2>3
<1> QED BY <1>2, <1>3 DEF RunNext

\* A run told to stop while it acquired or executed starts no more operations,
\* whatever is resumed in between (requestCancellation, canStartNextOperation).
THEOREM StopsAreObeyed == RunSpec => StopIsObeyed
<1>1. RunInv /\ [RunNext]_runVars =>
         [\A c \in Chain : At(c, "running") /\ chain'[c].pc = "operating"
                              => ~chain[c].told]_runVars
  <2> SUFFICES ASSUME RunInv, RunNext, NEW c \in Chain,
                      At(c, "running"), chain'[c].pc = "operating", chain[c].told
               PROVE  FALSE
    OBVIOUS
  <2>1. coord[Here(c)].cancelled
    BY DEF RunInv, Serial, InRun, At
  <2>2. StartOperation(c)
    BY OnlyStarts DEF At
  <2> QED BY <2>1, <2>2 DEF StartOperation, CanStartNextOperation
<1> QED BY <1>1, RunInvariantHolds, PTL DEF RunSpec, StopIsObeyed

\* When a runtime is replaced, or its realm dies, no chain of the realm holds the
\* vault's lock afterwards (beginRuntimeDisposal, awaitQuiescence).
THEOREM ReplacementIsQuiet == RunSpec => ReplacedAtRest
<1>1. RunInv /\ [RunNext]_runVars =>
         [\A r \in Realm : disposing[r] /\ ~disposing'[r]
                              => lock' \notin {r} \X Caller]_runVars
  <2> SUFFICES ASSUME RunInv, RunNext, NEW r \in Realm,
                      disposing[r], ~disposing'[r]
               PROVE  lock' \notin {r} \X Caller
    OBVIOUS
  <2>1. disposing \in [Realm -> BOOLEAN]
    BY DEF RunInv, RunTypeOK
  <2>2. PICK q \in Realm : Replace(q) \/ Crash(q)
    <3>1. \A c \in Chain : ~ChainStep(c)
      BY DEF ChainStep, StartPlanning, PlanNothing, BeginRun, Grant, Deny, Start, Free,
             Leave, StartOperation, EndOperation, Finish, Finished, FollowUp, gate
    <3>2. PICK q \in Realm : RunEvent(q)
      BY <3>1 DEF RunNext
    <3>3. ~Dispose(q)
      BY <2>1 DEF Dispose
    <3> QED BY <3>2, <3>3 DEF RunEvent, Trigger, Pause, Resume, Cancel, Settle,
                              Suspend, Wake, gate
  <2>3. q = r
    BY <2>1, <2>2 DEF Replace, Crash
  <2>4. CASE Replace(q)
    BY <2>3, <2>4 DEF Replace, Quiescent, At, RunInv, Mirrors, Holding, Chain, Here
  <2>5. CASE Crash(q)
    BY <2>3, <2>5, CoordinatorAssumption DEF Crash, Chain, Here
  <2> QED BY <2>2, <2>4, <2>5
<1> QED BY <1>1, RunInvariantHolds, PTL DEF RunSpec, ReplacedAtRest
----------------------------------------------------------------------------
(* What a run leaves to be done is handed on *)

Ending == {"finishing", "finished"}

\* only a run that is ending holds a follow-up, and a runtime that is being
\* replaced is not active: its follow-up waits for the next one
HandedOn ==
    /\ \A c \in Chain : chain[c].again => chain[c].pc \in Ending
    /\ \A r \in Realm : disposing[r] => life[r] = "unloading"

\* what a chain leaves alone
LEMMA ChainsSpare ==
    ASSUME RunInv, NEW c \in Chain, ChainStep(c)
    PROVE  /\ UNCHANGED <<life, disposing>>
           /\ \A r \in Realm : across[r] => across'[r]
<1>1. across \in [Realm -> BOOLEAN]
  BY DEF RunInv, RunTypeOK
<1>2. CASE UNCHANGED gate
  BY <1>2 DEF gate
<1>3. CASE Finished(c)
  BY <1>1, <1>3 DEF Finished, FollowUp
<1>4. CASE StartPlanning(c) \/ PlanNothing(c) \/ BeginRun(c) \/ Grant(c) \/ Deny(c)
  BY <1>2, <1>4 DEF StartPlanning, PlanNothing, BeginRun, Grant, Deny
<1>5. CASE Start(c) \/ Free(c) \/ Leave(c)
  BY <1>2, <1>5 DEF Start, Free, Leave
<1>6. CASE StartOperation(c) \/ EndOperation(c) \/ Finish(c)
  BY <1>2, <1>6 DEF StartOperation, EndOperation, Finish
<1> QED BY <1>3, <1>4, <1>5, <1>6 DEF ChainStep

\* what a step of a chain does to the follow-ups of the chains
LEMMA FollowUpsMove ==
    ASSUME RunInv, HandedOn, NEW c \in Chain, ChainStep(c)
    PROVE  /\ \A d \in Chain : d # c => chain'[d] = chain[d]
           /\ chain'[c].again => chain'[c].pc \in Ending
           /\ chain[c].again => chain'[c].again \/ Finished(c)
<1>1. chain \in [Chain -> State] /\ chain[c] \in State
  BY DEF RunInv, RunTypeOK
<1>2. chain[c].again => chain[c].pc \in Ending
  BY DEF HandedOn
<1>3. ASSUME NEW s, Goto(c, s)
      PROVE  chain'[c] = s /\ \A d \in Chain : d # c => chain'[d] = chain[d]
  BY <1>1, <1>3 DEF Goto
<1>4. Rest.again = FALSE /\ \A l : [Rest EXCEPT !.pc = l].again = FALSE
  BY DEF Rest
<1>5. CASE StartPlanning(c) \/ PlanNothing(c) \/ Deny(c) \/ Leave(c) \/ Finished(c)
  <2>1. chain[c].again => Finished(c)
    BY <1>2, <1>5 DEF StartPlanning, PlanNothing, Deny, Leave, At, Ending
  <2>2. Goto(c, Rest) \/ Goto(c, [Rest EXCEPT !.pc = "planning"])
    BY <1>5 DEF StartPlanning, PlanNothing, Deny, Leave, Finished
  <2> QED BY <1>3, <1>4, <2>1, <2>2
<1>6. CASE BeginRun(c)
  <2>1. ~chain[c].again
    BY <1>2, <1>6 DEF BeginRun, At, Ending
  <2>2. \/ Goto(c, Rest)
        \/ Goto(c, [Rest EXCEPT !.pc = "acquiring", !.epoch = epoch[Here(c)]])
    BY <1>6 DEF BeginRun
  <2>3. [Rest EXCEPT !.pc = "acquiring", !.epoch = epoch[Here(c)]].again = FALSE
    BY DEF Rest
  <2> QED BY <1>3, <1>4, <2>1, <2>2, <2>3
<1>7. CASE Grant(c) \/ Start(c) \/ StartOperation(c) \/ EndOperation(c)
  <2>1. ~chain[c].again
    BY <1>2, <1>7 DEF Grant, Start, StartOperation, EndOperation, At, Ending
  <2>2. ASSUME NEW l, Goto(c, [chain[c] EXCEPT !.pc = l])
        PROVE  chain'[c].again = chain[c].again
    BY <1>1, <2>2 DEF Goto, State
  <2>3. ASSUME NEW l, NEW n, Goto(c, [chain[c] EXCEPT !.pc = l, !.left = n])
        PROVE  chain'[c].again = chain[c].again
    BY <1>1, <2>3 DEF Goto, State
  <2>4. \E s : Goto(c, s)
    BY <1>7 DEF Grant, Start, StartOperation, EndOperation
  <2>5. ASSUME Grant(c) PROVE chain'[c].again = chain[c].again
    BY <2>2, <2>5 DEF Grant
  <2>6. ASSUME Start(c) PROVE chain'[c].again = chain[c].again
    BY <2>2, <2>3, <2>6 DEF Start
  <2>7. ASSUME StartOperation(c) PROVE chain'[c].again = chain[c].again
    BY <1>1, <2>3, <2>7 DEF StartOperation, State
  <2>8. ASSUME EndOperation(c) PROVE chain'[c].again = chain[c].again
    BY <2>2, <2>3, <2>8 DEF EndOperation
  <2>9. chain'[c].again = chain[c].again
    BY <1>7, <2>5, <2>6, <2>7, <2>8
  <2> QED BY <1>3, <2>1, <2>4, <2>9
<1>8. CASE Free(c)
  <2>1. Goto(c, [chain[c] EXCEPT !.pc = IF @ = "late" THEN "left" ELSE "finished"])
    BY <1>8 DEF Free
  <2>2. /\ chain'[c].again = chain[c].again
        /\ chain[c].pc # "late" => chain'[c].pc = "finished"
    BY <1>1, <1>3, <2>1 DEF State
  <2> QED BY <1>2, <1>3, <2>1, <2>2 DEF Ending
<1>9. CASE Finish(c)
  <2>1. Goto(c, [chain[c] EXCEPT !.pc = "finishing", !.again = coord[Here(c)].deferred])
    BY <1>9 DEF Finish
  <2>2. ~chain[c].again
    BY <1>2, <1>9 DEF Finish, At, Ending
  <2>3. chain'[c].pc = "finishing"
    BY <1>1, <2>1 DEF Goto, State
  <2> QED BY <1>3, <2>1, <2>2, <2>3 DEF Ending
<1> QED BY <1>5, <1>6, <1>7, <1>8, <1>9 DEF ChainStep

LEMMA ChainsHandOn ==
    ASSUME RunInv, HandedOn, NEW c \in Chain, ChainStep(c) PROVE HandedOn'
<1>1. UNCHANGED <<life, disposing>>
  BY ChainsSpare
<1> QED BY <1>1, FollowUpsMove DEF HandedOn

LEMMA EventsHandOn ==
    ASSUME RunInv, HandedOn, NEW r \in Realm,
           \/ Trigger(r) \/ Pause(r) \/ Resume(r) \/ Cancel(r) \/ Suspend(r)
           \/ Settle(r) \/ Wake(r) \/ Dispose(r) \/ Replace(r) \/ Crash(r)
    PROVE  HandedOn'
<1>1. /\ chain \in [Chain -> State]
      /\ life \in [Realm -> Lifecycle] /\ disposing \in [Realm -> BOOLEAN]
  BY DEF RunInv, RunTypeOK
<1>2. \A c \in Chain : chain'[c].again => chain'[c].pc \in Ending
  <2>1. \/ chain' = chain \/ Tell(r)
        \/ chain' = [d \in Chain |-> IF Here(d) = r THEN Rest ELSE chain[d]]
    BY DEF Trigger, Pause, Resume, Cancel, Settle, Crash, Suspend, Wake, Dispose, Replace
  <2>2. ASSUME Tell(r), NEW c \in Chain
        PROVE  chain'[c].again = chain[c].again /\ chain'[c].pc = chain[c].pc
    BY <1>1, <2>2 DEF Tell, State
  <2> QED BY <2>1, <2>2 DEF HandedOn, Rest
<1>3. \A q \in Realm : disposing'[q] => life'[q] = "unloading"
  BY <1>1 DEF HandedOn, Trigger, Pause, Resume, Cancel, Settle, Crash, Suspend, Wake,
              Dispose, Replace, Enter, gate
<1> QED BY <1>2, <1>3 DEF HandedOn

LEMMA HandedOnStep == RunInv /\ HandedOn /\ [RunNext]_runVars => HandedOn'
<1> SUFFICES ASSUME RunInv, HandedOn, [RunNext]_runVars PROVE HandedOn'
  OBVIOUS
<1>1. CASE UNCHANGED runVars
  BY <1>1 DEF runVars, HandedOn
<1> QED BY <1>1, ChainsHandOn, EventsHandOn DEF RunNext, RunEvent

LEMMA HandedOnAlways == RunSpec => [](RunInv /\ HandedOn)
<1>1. RunInit => HandedOn
  BY DEF RunInit, HandedOn, Rest
<1> QED BY <1>1, RunInitially, RunStep, HandedOnStep, PTL DEF RunSpec

\* what was deferred is still deferred, or the run that ends has it in hand
LEMMA DeferredMoves ==
    ASSUME RunInv, NEW c \in Chain, ChainStep(c), NEW r \in Realm, coord[r].deferred
    PROVE  coord'[r].deferred \/ (r = Here(c) /\ chain'[c].again)
<1>1. /\ chain \in [Chain -> State] /\ chain[c] \in State
      /\ coord \in [Realm -> Coordinator] /\ coord[Here(c)] \in Coordinator
      /\ Here(c) \in Realm
  BY Facts DEF RunInv, RunTypeOK
<1>2. CASE coord' = coord
  BY <1>2
<1>3. CASE Finish(c)
  <2>1. /\ Goto(c, [chain[c] EXCEPT !.pc = "finishing",
                                    !.again = coord[Here(c)].deferred])
        /\ coord' = [coord EXCEPT ![Here(c)] =
                        [coord[Here(c)] EXCEPT !.active = FALSE, !.deferred = FALSE]]
    BY <1>3 DEF Finish, Set
  <2>2. chain'[c].again = coord[Here(c)].deferred
    BY <1>1, <2>1 DEF Goto, State
  <2>3. r # Here(c) => coord'[r] = coord[r]
    BY <1>1, <2>1
  <2> QED BY <2>2, <2>3
<1>4. CASE BeginRun(c) \/ Deny(c) \/ Start(c) \/ Leave(c) \/ EndOperation(c)
  <2> DEFINE k == coord[Here(c)]
  <2>1. ASSUME NEW n, Set(Here(c), n), k.deferred => n.deferred
        PROVE  coord'[r].deferred
    BY <1>1, <2>1 DEF Set
  <2>2. /\ [k EXCEPT !.deferred = TRUE].deferred
        /\ [k EXCEPT !.cancelled = FALSE, !.acquiring = TRUE].deferred = k.deferred
        /\ Released(Here(c)).deferred = k.deferred
        /\ [k EXCEPT !.active = TRUE, !.acquiring = FALSE].deferred = k.deferred
    BY <1>1 DEF Coordinator, Released
  <2>3. k.deferred => [k EXCEPT !.deferred = @ \/ k.active].deferred
    BY <1>1 DEF Coordinator
  <2>4. CASE BeginRun(c)
    BY <1>2, <2>1, <2>2, <2>4 DEF BeginRun
  <2>5. CASE Deny(c) \/ Leave(c)
    BY <2>1, <2>2, <2>5 DEF Deny, Leave
  <2>6. CASE Start(c)
    BY <2>1, <2>2, <2>3, <2>6 DEF Start
  <2>7. CASE EndOperation(c)
    BY <1>2, <2>1, <2>2, <2>7 DEF EndOperation
  <2> QED BY <1>4, <2>4, <2>5, <2>6, <2>7
<1>5. CASE StartPlanning(c) \/ PlanNothing(c) \/ Grant(c) \/ Free(c)
           \/ StartOperation(c) \/ Finished(c)
  BY <1>5, <1>2 DEF StartPlanning, PlanNothing, Grant, Free, StartOperation, Finished
<1> QED BY <1>3, <1>4, <1>5 DEF ChainStep

\* A change noted while a run was under way is handed on until a pass discharges
\* it, a runtime is replaced or the realm dies (finishRun, handleResume).
THEOREM NothingOwedIsLost == RunSpec => OwedIsKept
<1> DEFINE Kept(r) == /\ Owed(r)
                      /\ events' = events
                      /\ ~(queued[r] /\ ~queued'[r])
                      /\ ~(disposing[r] /\ ~disposing'[r])
                      => Owed(r)'
<1>1. RunInv /\ HandedOn /\ [RunNext]_runVars => [\A r \in Realm : Kept(r)]_runVars
  <2> SUFFICES ASSUME RunInv, HandedOn, RunNext, NEW r \in Realm,
                      Owed(r), events' = events,
                      ~(queued[r] /\ ~queued'[r]), ~(disposing[r] /\ ~disposing'[r])
               PROVE  Owed(r)'
    OBVIOUS
  <2>1. /\ across \in [Realm -> BOOLEAN] /\ queued \in [Realm -> BOOLEAN]
        /\ chain \in [Chain -> State] /\ coord \in [Realm -> Coordinator]
        /\ life \in [Realm -> Lifecycle] /\ events \in Nat
    BY CoordinatorAssumption DEF RunInv, RunTypeOK
  <2>2. queued[r] => Owed(r)'
    BY DEF Owed
  <2>3. ~Happen
    BY <2>1 DEF Happen
  <2>4. ASSUME NEW c \in Chain, ChainStep(c) PROVE Owed(r)'
    <3>1. across[r] => across'[r]
      BY <2>4, ChainsSpare
    <3>2. coord[r].deferred => Owed(r)'
      BY <2>4, DeferredMoves DEF Owed, Here
    <3>3. ASSUME NEW d \in Chain, Here(d) = r, chain[d].again PROVE Owed(r)'
      <4>1. CASE chain'[d].again
        BY <3>3, <4>1 DEF Owed, Here
      <4>2. CASE ~chain'[d].again
        <5>1. d = c /\ Finished(c)
          BY <2>4, <3>3, <4>2, FollowUpsMove
        <5>2. \/ life[r] = "active" /\ ~disposing[r] /\ queued'[r]
              \/ life[r] # "active" /\ across'[r]
          BY <2>1, <3>3, <5>1 DEF Finished, FollowUp, HandedOn
        <5> QED BY <5>2 DEF Owed
      <4> QED BY <4>1, <4>2
    <3> QED BY <2>2, <3>1, <3>2, <3>3 DEF Owed
  <2>5. ASSUME NEW q \in Realm, RunEvent(q) PROVE Owed(r)'
    <3>1. CASE \/ Settle(q) \/ Resume(q)
               \/ Wake(q) /\ queued' = [queued EXCEPT ![q] = queued[q] \/ across[q]]
      <4>1. chain' = chain /\ coord'[r].deferred = coord[r].deferred
        <5>1. coord[q] \in Coordinator
          BY <2>1
        <5>2. [coord[q] EXCEPT !.paused = FALSE].deferred = coord[q].deferred
          BY <5>1 DEF Coordinator
        <5> QED BY <2>1, <3>1, <5>2 DEF Settle, Resume, Wake, Set
      <4>2. across[r] => across'[r] \/ queued'[r]
        BY <2>1, <3>1 DEF Settle, Resume, Wake, gate
      <4> QED BY <2>2, <4>1, <4>2 DEF Owed, Here
    <3>2. CASE Replace(q)
      <4>1. q # r
        BY <3>2 DEF Replace, RunInv, RunTypeOK
      <4> QED BY <2>1, <2>2, <3>2, <4>1 DEF Replace, Set, Owed, Here
    <3>3. ~(Trigger(q) \/ Pause(q) \/ Cancel(q) \/ Crash(q) \/ Suspend(q) \/ Dispose(q))
      BY <2>3 DEF Trigger, Pause, Cancel, Crash, Suspend, Dispose
    <3> QED BY <2>5, <3>1, <3>2, <3>3 DEF RunEvent
  <2> QED BY <2>4, <2>5 DEF RunNext
<1> QED BY <1>1, HandedOnAlways, PTL DEF RunSpec, OwedIsKept
=============================================================================
