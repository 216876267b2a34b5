--------------------------- MODULE DriveTransport ---------------------------
(***************************************************************************)
(* GoogleHttpTransport.request over one OAuthSession: the semaphore that   *)
(* bounds the requests at work, the loop of attempts with its backoff, and *)
(* the access token that each attempt asks for.                            *)
(*                                                                         *)
(* A request that finds the semaphore full waits in a queue.  Whoever      *)
(* leaves takes the first waiter out of the queue, but the waiter counts   *)
(* itself only when its continuation runs.                                 *)
(***************************************************************************)
EXTENDS OAuthSession, Sequences, FiniteSets

CONSTANTS
    MaxAttempts,        \* RetryPolicy.maxAttempts
    MaxConcurrency      \* RetryPolicy.maxConcurrency

ASSUME TransportAssumption ==
    /\ IsFiniteSet(Request)
    /\ MaxAttempts \in Nat \ {0}
    /\ MaxConcurrency \in Nat \ {0}

VARIABLES
    active,         \* requests that the semaphore counts
    waiting,        \* requests in its queue, first come first
    request         \* [Request -> Call]

transportVars == <<active, waiting, request>>
accessVars == <<sessionVars, transportVars>>
sessionRest == <<authorization, begun, serial, floor>>

Call == [pc : {"idle", "waiting", "woken", "asking", "ready", "sent", "backoff",
               "leaving"},
         safe : BOOLEAN,                \* the method may be replayed
         attempt : 0..MaxAttempts - 1,
         copies : Nat,                  \* history: times it went out
         token : Nat,                   \* access token of this attempt
         refused : SUBSET Nat]          \* history: tokens Google refused to it
NoCall == [pc |-> "idle", safe |-> TRUE, attempt |-> 0, copies |-> 0,
           token |-> 0, refused |-> {}]

At(r, label) == request[r].pc = label
Become(r, c) == request' = [request EXCEPT ![r] = c]
Move(r, label) == Become(r, [request[r] EXCEPT !.pc = label])
----------------------------------------------------------------------------
(* The semaphore *)

\* request(), up to the first await
Issue(r) ==
    /\ At(r, "idle")
    /\ \E safe \in BOOLEAN :
          \/ /\ active >= MaxConcurrency
             /\ waiting' = Append(waiting, r)
             /\ Become(r, [NoCall EXCEPT !.pc = "waiting", !.safe = safe])
             /\ UNCHANGED active
          \/ /\ active < MaxConcurrency
             /\ active' = active + 1
             /\ Become(r, [NoCall EXCEPT !.pc = "asking", !.safe = safe])
             /\ UNCHANGED waiting
    /\ UNCHANGED sessionVars

Enter(r) ==
    /\ At(r, "woken")
    /\ active' = active + 1
    /\ Move(r, "asking")
    /\ UNCHANGED <<sessionVars, waiting>>

WakeNobody(r) == Become(r, NoCall) /\ UNCHANGED waiting
WakeFirst(r) ==
    \/ waiting = <<>> /\ Become(r, NoCall) /\ UNCHANGED waiting
    \/ /\ waiting # <<>>
       /\ waiting' = Tail(waiting)
       /\ request' = [request EXCEPT ![r] = NoCall, ![Head(waiting)].pc = "woken"]

\* the finally clause, whatever the result
Exit(r) ==
    /\ At(r, "leaving")
    /\ active' = active - 1
    /\ WakeFirst(r)
    /\ UNCHANGED sessionVars
----------------------------------------------------------------------------
(* One attempt *)

AskForToken(r) == At(r, "asking") /\ AskToken(r) /\ UNCHANGED transportVars
TokenRefreshed(r) == At(r, "asking") /\ RefreshAnswered(r) /\ UNCHANGED transportVars

\* accessToken has returned
TakeToken(r) ==
    /\ At(r, "asking")
    /\ \/ ask[r].pc = "denied" /\ Move(r, "leaving")
       \/ /\ ask[r].pc = "given"
          /\ Become(r, [request[r] EXCEPT !.pc = "ready", !.token = ask[r].access])
    /\ Answer(r, Unasked)
    /\ Keep /\ Steady
    /\ UNCHANGED <<sessionRest, active, waiting>>

Send(r) ==
    /\ At(r, "ready")
    /\ Become(r, [request[r] EXCEPT !.pc = "sent", !.copies = @ + 1])
    /\ UNCHANGED <<sessionVars, active, waiting>>

RetryAnything(r) == request[r].attempt + 1 < MaxAttempts
Retry(r) == request[r].safe /\ request[r].attempt + 1 < MaxAttempts
Again(r, label) ==
    Become(r, [request[r] EXCEPT !.pc = IF Retry(r) THEN label ELSE "leaving",
                                 !.attempt = IF Retry(r) THEN @ + 1 ELSE @])

\* success, or a failure that no retry mends
Concluded(r) ==
    /\ At(r, "sent")
    /\ Move(r, "leaving")
    /\ UNCHANGED <<sessionVars, active, waiting>>

\* no answer, rate limit or server error; the request may have been executed
Failed(r) ==
    /\ At(r, "sent")
    /\ Again(r, "backoff")
    /\ Drift /\ Keep
    /\ UNCHANGED <<sessionRest, ask, active, waiting>>

Slept(r) ==
    /\ At(r, "backoff")
    /\ Move(r, "asking")
    /\ UNCHANGED <<sessionVars, active, waiting>>

\* 401: the stored token is given up, and a safe request goes out again at once
Unauthorized(r) ==
    /\ At(r, "sent")
    /\ Invalidate
    /\ LET c == request[r]
           refused == [c EXCEPT !.refused = @ \cup {c.token}]
       IN  Become(r, [refused EXCEPT !.pc = IF Retry(r) THEN "asking" ELSE "leaving",
                                     !.attempt = IF Retry(r) THEN @ + 1 ELSE @])
    /\ Drift
    /\ UNCHANGED <<sessionRest, ask, active, waiting>>
----------------------------------------------------------------------------
AccessInit ==
    /\ SessionInit
    /\ active = 0
    /\ waiting = <<>>
    /\ request = [r \in Request |-> NoCall]

\* what follows by itself once a request was made
Progress(r) ==
    \/ Enter(r) \/ Exit(r) \/ AskForToken(r) \/ TokenRefreshed(r) \/ TakeToken(r)
    \/ Send(r) \/ Concluded(r) \/ Failed(r) \/ Slept(r) \/ Unauthorized(r)

AccessNext ==
    \/ \E r \in Request : Issue(r) \/ Progress(r)
    \/ SessionEvent /\ UNCHANGED transportVars

AccessSpec == AccessInit /\ [][AccessNext]_accessVars

\* the event loop resumes what has settled; timers fire, and the platform ends
\* every HTTP exchange, if only with an error
AccessFairness == \A r \in Request : WF_accessVars(Progress(r))
FairAccessSpec == AccessSpec /\ AccessFairness
----------------------------------------------------------------------------
(* Properties *)

\* Every variable has its type, and the queue holds the waiting requests.
AccessTypeOK ==
    /\ SessionTypeOK
    /\ active \in Nat
    /\ waiting \in Seq(Request)
    /\ request \in [Request -> Call]
    /\ \A r \in Request : At(r, "waiting") <=> \E i \in 1..Len(waiting) : waiting[i] = r

\* A request that is not safe to replay leaves at most once, through refreshes,
\* refused tokens, rate limits and lost answers (automaticReplaySafe).
UnsafeSentOnce == \A r \in Request : request[r].safe \/ request[r].copies <= 1

\* Google sees a refused token no second time from the same request: the retry
\* goes out with a token issued later, whoever refreshed it (invalidateAccessToken).
RefusedNotResent ==
    [][\A r \in Request : request'[r].copies > request[r].copies
            => request[r].token \notin request[r].refused]_accessVars

\* Nobody waits beside a free slot: as long as the queue is not empty, requests
\* at work and requests already woken take up the whole limit (Semaphore).
AtWork == {r \in Request : request[r].pc \notin {"idle", "waiting", "woken"}}
Woken == {r \in Request : At(r, "woken")}
SlotsAreUsed == waiting # <<>> => Cardinality(AtWork \cup Woken) >= MaxConcurrency

\* Every request comes to an end, also those that wait behind others which are
\* retried or overtake them.
RequestsEnd == \A r \in Request : ~At(r, "idle") ~> At(r, "idle")
=============================================================================
