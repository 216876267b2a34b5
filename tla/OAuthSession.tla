---------------------------- MODULE OAuthSession ----------------------------
(***************************************************************************)
(* One GoogleOAuthSession: the tokens in the secret store, the PKCE        *)
(* transaction of a pending authorization, and the requests that ask for   *)
(* an access token and may have to refresh it.                             *)
(*                                                                         *)
(* Authorizations, refreshes and the user's deauthorization overlap freely *)
(* at their awaits.  A revocation generation tells a continuation that it  *)
(* was retired.  Every authorization is a grant of its own; the tokens     *)
(* that are stored at the start count as the first one.                    *)
(***************************************************************************)
EXTENDS Naturals

CONSTANTS
    Request,            \* callers of accessToken
    MaxAuthorizations,  \* bound on the authorizations the user begins
    MaxDrifts           \* bound on user events, expiries and failures

ASSUME SessionAssumption ==
    /\ MaxAuthorizations \in Nat
    /\ MaxDrifts \in Nat

Authorization == 1..MaxAuthorizations
Grant(a) == a + 1

VARIABLES
    tokens,         \* the record in the secret store
    generation,     \* revocationGeneration
    transaction,    \* the authorization whose callback is awaited, or 0
    authorization,  \* [Authorization -> Attempt]
    begun,          \* authorizations begun so far
    ask,            \* [Request -> Ask]: calls of accessToken
    serial,         \* access tokens issued by Google so far
    floor,          \* history: grants up to this one were deauthorized
    drifts          \* how much of MaxDrifts is spent

sessionVars == <<tokens, generation, transaction, authorization, begun, ask,
                 serial, floor, drifts>>

Refresh == {"none", "exact", "broad"}
Tokens == [grant : Nat,         \* 0: no tokens
           access : Nat,        \* 0: empty, or about to expire
           refresh : Refresh,   \* the refresh token and the scope it grants
           exact : BOOLEAN]     \* the scope is drive.file and nothing else
NoTokens == [grant |-> 0, access |-> 0, refresh |-> "none", exact |-> FALSE]
Attempt == [pc : {"none", "hashing", "open", "exchanging", "ended"}, gen : Nat]
Ask == [pc : {"none", "refreshing", "given", "denied"},
        gen : Nat, tokens : Tokens, access : Nat]
Unasked == [pc |-> "none", gen |-> 0, tokens |-> NoTokens, access |-> 0]

Held(t) == t.grant # 0
Drift == drifts < MaxDrifts /\ drifts' = drifts + 1
Steady == UNCHANGED drifts
Keep == UNCHANGED <<tokens, generation, transaction>>

\* retirePendingOperations
Retire == generation' = generation + 1 /\ transaction' = 0
Clear == tokens' = NoTokens /\ Retire
----------------------------------------------------------------------------
(* Authorization *)

BeginAuthorization ==
    /\ begun < MaxAuthorizations
    /\ begun' = begun + 1
    /\ Retire
    /\ authorization' = [authorization EXCEPT ![begun + 1] =
                            [pc |-> "hashing", gen |-> generation + 1]]
    /\ UNCHANGED <<tokens, ask, serial, floor, drifts>>

\* the challenge is hashed: the browser opens, unless it was retired meanwhile
OpenBrowser(a) ==
    /\ authorization[a].pc = "hashing"
    /\ LET current == authorization[a].gen = generation
       IN  /\ transaction' = IF current THEN a ELSE transaction
           /\ authorization' = [authorization EXCEPT ![a].pc =
                                    IF current THEN "open" ELSE "ended"]
    /\ UNCHANGED <<tokens, generation, begun, ask, serial, floor, drifts>>

\* a callback takes the pending transaction, whether or not it is its own
Callback(a) ==
    /\ authorization[a].pc \in {"open", "exchanging"}
    /\ transaction' = 0
    /\ \/ /\ transaction = a
          /\ \/ authorization' = [authorization EXCEPT ![a] =
                                    [pc |-> "exchanging", gen |-> generation]]
             \/ authorization' = [authorization EXCEPT ![a].pc = "ended"]
          /\ Steady
       \/ transaction # a /\ UNCHANGED authorization /\ Drift
    /\ UNCHANGED <<tokens, generation, begun, ask, serial, floor>>

\* Google may keep the refresh token to itself; only one of exact scope is kept
InheritedAnyhow == tokens.refresh
Inherited == IF Held(tokens) /\ tokens.exact THEN tokens.refresh ELSE "none"

InstallWhenever(a) == TRUE
Installable(a) == authorization[a].gen = generation

\* clearing broad tokens before the new ones are stored retires once more,
\* which is as good as retiring once
ExchangeAnswered(a) ==
    /\ authorization[a].pc = "exchanging"
    /\ authorization' = [authorization EXCEPT ![a].pc = "ended"]
    /\ \/ Drift /\ Keep /\ UNCHANGED serial
       \/ ~Installable(a) /\ Steady /\ Keep /\ UNCHANGED serial
       \/ /\ Installable(a) /\ Steady
          /\ serial' = serial + 1
          /\ Retire
          /\ \E issued \in {"exact", Inherited} :
                tokens' = [grant |-> Grant(a), access |-> serial + 1,
                           refresh |-> issued, exact |-> TRUE]
       \* a scope that is not exact; broad tokens found before are cleared
       \/ /\ Installable(a) /\ Drift
          /\ IF Held(tokens) /\ ~tokens.exact THEN Clear ELSE Keep
          /\ UNCHANGED serial
    /\ UNCHANGED <<begun, ask, floor>>
----------------------------------------------------------------------------
(* accessToken *)

Answer(r, a) == ask' = [ask EXCEPT ![r] = a]
Given(access) == [Unasked EXCEPT !.pc = "given", !.access = access]
Denied == [Unasked EXCEPT !.pc = "denied"]

AskToken(r) ==
    /\ ask[r].pc = "none"
    /\ LET usable == Held(tokens) /\ tokens.exact
           live == usable /\ tokens.access # 0
       IN  \/ live /\ Answer(r, Given(tokens.access)) /\ Keep
           \/ /\ usable /\ ~live /\ tokens.refresh # "none"
              /\ Answer(r, [pc |-> "refreshing", gen |-> generation,
                            tokens |-> tokens, access |-> 0])
              /\ Keep
           \/ ~Held(tokens) /\ Answer(r, Denied) /\ Keep
           \/ /\ Held(tokens)
              /\ ~tokens.exact \/ (~live /\ tokens.refresh = "none")
              /\ Answer(r, Denied) /\ Clear
    /\ UNCHANGED <<authorization, begun, serial, floor, drifts>>

RefreshedAnyhow(r) == TRUE
Refreshed(r) == ask[r].gen = generation

RefreshAnswered(r) ==
    /\ ask[r].pc = "refreshing"
    /\ \/ ~Refreshed(r) /\ Answer(r, Denied) /\ Keep /\ Steady /\ UNCHANGED serial
       \* no answer, a malformed one, or an error that is not definitive
       \/ Answer(r, Denied) /\ Keep /\ Drift /\ UNCHANGED serial
       \* invalid_grant, or a scope that is not exact
       \/ Refreshed(r) /\ Answer(r, Denied) /\ Clear /\ Drift /\ UNCHANGED serial
       \/ /\ Refreshed(r)
          /\ tokens' = [ask[r].tokens EXCEPT !.access = serial + 1]
          /\ serial' = serial + 1
          /\ Answer(r, Given(serial + 1))
          /\ Steady /\ UNCHANGED <<generation, transaction>>
    /\ UNCHANGED <<authorization, begun, floor>>

\* invalidateAccessToken, after Google refused the token of a request
InvalidateNothing == Keep
Invalidate ==
    \/ ~Held(tokens) /\ Keep
    \/ /\ Held(tokens)
       /\ IF tokens.exact /\ tokens.refresh # "none"
          THEN tokens' = [tokens EXCEPT !.access = 0]
               /\ UNCHANGED <<generation, transaction>>
          ELSE Clear
----------------------------------------------------------------------------
(* The user and the clock *)

Deauthorize ==
    /\ Clear
    /\ floor' = Grant(begun)
    /\ Drift
    /\ UNCHANGED <<authorization, begun, ask, serial>>

\* the runtime is replaced: its tokens stay
ReplaceSession ==
    /\ Retire
    /\ Drift
    /\ UNCHANGED <<tokens, authorization, begun, ask, serial, floor>>

Expire ==
    /\ tokens.access # 0
    /\ tokens' = [tokens EXCEPT !.access = 0]
    /\ Drift
    /\ UNCHANGED <<generation, transaction, authorization, begun, ask, serial, floor>>
----------------------------------------------------------------------------
SessionInit ==
    /\ tokens \in {NoTokens}
            \cup [grant : {1}, access : {0, 1}, refresh : {"none", "exact"}, exact : {TRUE}]
            \cup [grant : {1}, access : {0, 1}, refresh : {"none", "broad"}, exact : {FALSE}]
    /\ generation = 0
    /\ transaction = 0
    /\ authorization = [a \in Authorization |-> [pc |-> "none", gen |-> 0]]
    /\ begun = 0
    /\ ask = [r \in Request |-> Unasked]
    /\ serial = 1
    /\ floor = 0
    /\ drifts = 0

SessionEvent ==
    \/ BeginAuthorization \/ Deauthorize \/ ReplaceSession \/ Expire
    \/ \E a \in Authorization : OpenBrowser(a) \/ Callback(a) \/ ExchangeAnswered(a)
----------------------------------------------------------------------------
(* Properties *)

\* Every variable of the session has its type.
SessionTypeOK ==
    /\ tokens \in Tokens
    /\ generation \in Nat
    /\ transaction \in Authorization \cup {0}
    /\ authorization \in [Authorization -> Attempt]
    /\ begun \in 0..MaxAuthorizations
    /\ ask \in [Request -> Ask]
    /\ serial \in Nat
    /\ floor \in Nat
    /\ drifts \in 0..MaxDrifts

\* What the user deauthorized stays gone: no exchange or refresh that was under
\* way brings tokens of an older grant back (auth.ts, "Deauthorization
\* invalidates all in-flight PKCE and token-refresh continuations").
NothingRevived == Held(tokens) => tokens.grant > floor

\* A refresh of an older grant never replaces the tokens of a newer one: the
\* stored grant only moves forward, or is cleared (completeAuthorization).
NewerGrantWins ==
    [][Held(tokens) /\ Held(tokens') => tokens'.grant >= tokens.grant]_sessionVars

\* Tokens of exact scope are never renewed from a broader grant, neither by the
\* reauthorization that replaces it nor later (previousRefreshToken).
ScopeNeverBroadens == tokens.exact => tokens.refresh # "broad"
=============================================================================
