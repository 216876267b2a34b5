------------------------ MODULE DriveTransportProofs ------------------------
(***************************************************************************)
(* Safety of DriveTransport for any number of requests, authorizations,    *)
(* attempts and slots: what was deauthorized stays gone, a newer grant is  *)
(* never replaced by an older one, an unsafe request is sent once, a       *)
(* refused token is not sent again, and no slot stays free beside a queue. *)
(***************************************************************************)
EXTENDS DriveTransport, TLAPS, FiniteSetTheorems

\* the stored tokens are of an authorization that is still in force
Stored ==
    /\ ~Held(tokens) => tokens = NoTokens
    /\ tokens.grant <= Grant(begun) /\ floor <= Grant(begun)
    /\ tokens.access <= serial
    /\ NothingRevived /\ ScopeNeverBroadens

\* of all authorizations only the last one begun can still be completed
LastOne ==
    /\ transaction # 0 => transaction = begun /\ Grant(transaction) > floor
    /\ \A a \in Authorization :
          /\ authorization[a].gen <= generation
          /\ /\ authorization[a].pc \in {"hashing", "exchanging"}
             /\ authorization[a].gen = generation
             => a = begun /\ Grant(a) > floor

\* a refresh that was not retired renews the very tokens that are stored
Renewing ==
    \A r \in Request :
        /\ ask[r].gen <= generation
        /\ ask[r].pc = "given" => ask[r].access # 0 /\ ask[r].access <= serial
        /\ ask[r].pc = "refreshing" /\ ask[r].gen = generation
           => /\ Held(tokens) /\ tokens.exact
              /\ ask[r].tokens.grant = tokens.grant
              /\ ask[r].tokens.refresh = tokens.refresh
              /\ ask[r].tokens.exact

SessionInv == SessionTypeOK /\ Stored /\ LastOne /\ Renewing

\* the only new access tokens are those that Google issues
Issuing == /\ serial' \in Nat /\ serial <= serial'
           /\ \/ tokens'.access \in {0, tokens.access}
              \/ serial < serial' /\ tokens'.access = serial'

\* grants only move forward
Forward == Held(tokens) /\ Held(tokens') => tokens'.grant >= tokens.grant

SessionGood == SessionInv' /\ Issuing /\ Forward
----------------------------------------------------------------------------
(* The session *)

LEMMA NoTokensType == NoTokens \in Tokens /\ ~Held(NoTokens)
BY DEF NoTokens, Tokens, Refresh, Held

LEMMA UnaskedType == Unasked \in Ask
BY NoTokensType DEF Unasked, Ask

\* how tokens, generation and transaction may change together, apart from
\* those who install or renew tokens
LEMMA Withdrawn ==
    ASSUME SessionInv,
           \/ Keep
           \/ Clear
           \/ Retire /\ UNCHANGED tokens
           \/ /\ tokens' = [tokens EXCEPT !.access = 0]
              /\ UNCHANGED <<generation, transaction>>,
           begun' = begun, serial' = serial
    PROVE  /\ tokens' \in Tokens /\ generation' \in Nat
           /\ transaction' \in Authorization \cup {0}
           /\ floor' = floor => Stored'
           /\ Issuing /\ Forward
           /\ generation <= generation'
           /\ transaction' \in {0, transaction}
           /\ generation' = generation =>
                 /\ tokens'.grant = tokens.grant /\ tokens'.exact = tokens.exact
                 /\ tokens'.refresh = tokens.refresh
<1>1. CASE Keep
  BY <1>1 DEF SessionInv, SessionTypeOK, Keep, Stored, Issuing, Forward, Held,
              NothingRevived, ScopeNeverBroadens, Tokens
<1>2. CASE Clear
  <2>1. tokens' = NoTokens /\ generation' = generation + 1 /\ transaction' = 0
    BY <1>2 DEF Clear, Retire
  <2>2. /\ tokens' \in Tokens /\ ~Held(tokens')
        /\ tokens'.grant = 0 /\ tokens'.access = 0 /\ ~tokens'.exact
    BY <2>1, NoTokensType DEF NoTokens
  <2>3. generation \in Nat /\ begun \in Nat /\ serial \in Nat
    BY SessionAssumption DEF SessionInv, SessionTypeOK
  <2>4. floor' = floor => Stored'
    BY <2>1, <2>2, <2>3 DEF SessionInv, Stored, NothingRevived, ScopeNeverBroadens, Grant, Held
  <2>5. Issuing /\ Forward
    BY <2>2, <2>3 DEF Issuing, Forward
  <2> QED BY <2>1, <2>2, <2>3, <2>4, <2>5 DEF SessionInv, SessionTypeOK
<1>3. CASE Retire /\ UNCHANGED tokens
  BY <1>3 DEF SessionInv, SessionTypeOK, Retire, Stored, Issuing, Forward, Held,
              NothingRevived, ScopeNeverBroadens, Tokens
<1>4. CASE /\ tokens' = [tokens EXCEPT !.access = 0]
           /\ UNCHANGED <<generation, transaction>>
  <2>1. /\ tokens' \in Tokens /\ tokens'.grant = tokens.grant
        /\ tokens'.refresh = tokens.refresh /\ tokens'.exact = tokens.exact
        /\ tokens'.access = 0
    BY <1>4 DEF SessionInv, SessionTypeOK, Tokens
  <2>2. ~Held(tokens) => tokens' = NoTokens
    <3>1. [NoTokens EXCEPT !.access = 0] = NoTokens
      BY DEF NoTokens
    <3> QED BY <1>4, <3>1 DEF SessionInv, Stored
  <2> QED BY <1>4, <2>1, <2>2 DEF SessionInv, SessionTypeOK, Stored, Issuing, Forward, Held,
              NothingRevived, ScopeNeverBroadens, Tokens
<1> QED BY <1>1, <1>2, <1>3, <1>4

LEMMA Counted == ASSUME SessionTypeOK, Drift \/ Steady PROVE drifts' \in 0..MaxDrifts
BY SessionAssumption DEF SessionTypeOK, Drift, Steady

LEMMA LastOneKept ==
    ASSUME SessionInv, UNCHANGED <<authorization, begun, floor>>,
           generation' \in Nat, generation <= generation',
           transaction' \in {0, transaction}
    PROVE  LastOne'
<1>1. generation \in Nat /\ \A a \in Authorization : authorization[a].gen \in Nat
  BY DEF SessionInv, SessionTypeOK, Attempt
<1>2. \A a \in Authorization : authorization[a].gen <= generation'
  BY <1>1 DEF SessionInv, LastOne
<1>3. \A a \in Authorization :
         authorization[a].gen = generation' => authorization[a].gen = generation
  BY <1>1 DEF SessionInv, LastOne
<1> QED BY <1>1, <1>2, <1>3 DEF SessionInv, LastOne, Grant

LEMMA RenewingKept ==
    ASSUME SessionInv, UNCHANGED ask,
           generation' \in Nat, generation <= generation',
           serial' \in Nat, serial <= serial',
           generation' = generation =>
                 /\ tokens'.grant = tokens.grant /\ tokens'.exact = tokens.exact
                 /\ tokens'.refresh = tokens.refresh
    PROVE  Renewing'
BY DEF SessionInv, SessionTypeOK, Renewing, Held, Ask

LEMMA BeginAuthorizationGood == ASSUME SessionInv, BeginAuthorization PROVE SessionGood
<1>1. /\ begun' = begun + 1 /\ generation' = generation + 1 /\ transaction' = 0
      /\ UNCHANGED <<tokens, ask, serial, floor, drifts>>
  BY DEF BeginAuthorization, Retire
<1>2. begun' \in 0..MaxAuthorizations /\ begun + 1 \in Authorization
  BY <1>1, SessionAssumption DEF BeginAuthorization, SessionInv, SessionTypeOK, Authorization
<1>3. /\ authorization' \in [Authorization -> Attempt]
      /\ \A a \in Authorization : authorization'[a] =
            IF a = begun + 1 THEN [pc |-> "hashing", gen |-> generation + 1]
                             ELSE authorization[a]
  BY <1>2 DEF BeginAuthorization, SessionInv, SessionTypeOK, Attempt
<1>4. SessionTypeOK'
  BY <1>1, <1>2, <1>3 DEF SessionInv, SessionTypeOK
<1>5. Stored'
  BY <1>1 DEF SessionInv, SessionTypeOK, Stored, Held, Grant, NothingRevived,
              ScopeNeverBroadens, Tokens
<1>6. LastOne'
  <2>1. \A a \in Authorization : authorization[a].gen \in Nat
    BY DEF SessionInv, SessionTypeOK, Attempt
  <2>2. Grant(begun + 1) > floor
    BY DEF SessionInv, SessionTypeOK, Stored, Grant
  <2> QED BY <1>1, <1>3, <2>1, <2>2 DEF SessionInv, SessionTypeOK, LastOne
<1>7. Renewing'
  BY <1>1, RenewingKept DEF SessionInv, SessionTypeOK
<1> QED BY <1>1, <1>4, <1>5, <1>6, <1>7 DEF SessionGood, SessionInv, Issuing, Forward,
        SessionTypeOK, Tokens

LEMMA OpenBrowserGood ==
    ASSUME SessionInv, NEW a \in Authorization, OpenBrowser(a) PROVE SessionGood
<1>1. UNCHANGED <<tokens, generation, begun, ask, serial, floor, drifts>>
  BY DEF OpenBrowser
<1>2. /\ authorization' \in [Authorization -> Attempt]
      /\ \A x \in Authorization : /\ authorization'[x].gen = authorization[x].gen
                                  /\ authorization'[x].pc \in {"hashing", "exchanging"}
                                     => authorization'[x].pc = authorization[x].pc
  BY DEF OpenBrowser, SessionInv, SessionTypeOK, Attempt
<1>3. \/ transaction' = transaction
      \/ transaction' = a /\ a = begun /\ Grant(a) > floor
  BY DEF OpenBrowser, SessionInv, LastOne
<1>4. SessionTypeOK'
  BY <1>1, <1>2, <1>3 DEF SessionInv, SessionTypeOK
<1>5. Stored' /\ Renewing'
  BY <1>1, RenewingKept DEF SessionInv, SessionTypeOK, Stored, Held, NothingRevived,
                            ScopeNeverBroadens
<1>6. LastOne'
  BY <1>1, <1>2, <1>3 DEF SessionInv, LastOne
<1> QED BY <1>1, <1>4, <1>5, <1>6 DEF SessionGood, SessionInv, Issuing, Forward,
        SessionTypeOK, Tokens

LEMMA CallbackGood ==
    ASSUME SessionInv, NEW a \in Authorization, Callback(a) PROVE SessionGood
<1>1. /\ UNCHANGED <<tokens, generation, begun, ask, serial, floor>>
      /\ transaction' = 0
  BY DEF Callback
<1>2. drifts' \in 0..MaxDrifts
  BY Counted DEF Callback, SessionInv
<1>3. /\ authorization' \in [Authorization -> Attempt]
      /\ \A x \in Authorization :
            \/ authorization'[x] = authorization[x]
            \/ authorization'[x].pc = "ended" /\ authorization'[x].gen = authorization[x].gen
            \/ x = begun /\ Grant(x) > floor /\ authorization'[x].gen = generation
  <2>1. CASE transaction = a
    <3>1. a = begun /\ Grant(a) > floor
      BY <2>1, SessionAssumption DEF SessionInv, LastOne, Authorization
    <3>2. CASE authorization' = [authorization EXCEPT ![a] =
                                    [pc |-> "exchanging", gen |-> generation]]
      BY <3>1, <3>2 DEF SessionInv, SessionTypeOK, Attempt
    <3>3. CASE authorization' = [authorization EXCEPT ![a].pc = "ended"]
      BY <3>3 DEF SessionInv, SessionTypeOK, Attempt
    <3> QED BY <2>1, <3>2, <3>3 DEF Callback
  <2>2. CASE transaction # a
    BY <2>2 DEF Callback, SessionInv, SessionTypeOK
  <2> QED BY <2>1, <2>2
<1>4. SessionTypeOK'
  BY <1>1, <1>2, <1>3 DEF SessionInv, SessionTypeOK
<1>5. Stored' /\ Renewing'
  BY <1>1, RenewingKept DEF SessionInv, SessionTypeOK, Stored, Held, NothingRevived,
                            ScopeNeverBroadens
<1>6. LastOne'
  BY <1>1, <1>3 DEF SessionInv, SessionTypeOK, LastOne
<1> QED BY <1>1, <1>4, <1>5, <1>6 DEF SessionGood, SessionInv, Issuing, Forward,
        SessionTypeOK, Tokens

LEMMA ExchangeAnsweredGood ==
    ASSUME SessionInv, NEW a \in Authorization, ExchangeAnswered(a) PROVE SessionGood
<1>1. UNCHANGED <<begun, ask, floor>>
  BY DEF ExchangeAnswered
<1>2. drifts' \in 0..MaxDrifts
  BY Counted DEF ExchangeAnswered, SessionInv
<1>3. /\ authorization' \in [Authorization -> Attempt]
      /\ authorization'[a].pc = "ended"
      /\ \A x \in Authorization : /\ authorization'[x].gen = authorization[x].gen
                                  /\ x # a => authorization'[x] = authorization[x]
  BY DEF ExchangeAnswered, SessionInv, SessionTypeOK, Attempt
<1>4. CASE (Keep \/ Clear) /\ UNCHANGED serial
  <2>1. /\ tokens' \in Tokens /\ generation' \in Nat
        /\ transaction' \in Authorization \cup {0}
        /\ Stored' /\ Issuing /\ Forward
        /\ generation <= generation'
        /\ transaction' \in {0, transaction}
        /\ generation' = generation =>
              /\ tokens'.grant = tokens.grant /\ tokens'.exact = tokens.exact
              /\ tokens'.refresh = tokens.refresh
    BY <1>1, <1>4, Withdrawn
  <2>2. SessionTypeOK'
    BY <1>1, <1>2, <1>3, <1>4, <2>1 DEF SessionInv, SessionTypeOK
  <2>3. LastOne'
    BY <1>1, <1>3, <2>1 DEF SessionInv, SessionTypeOK, LastOne, Attempt
  <2>4. Renewing'
    BY <1>1, <1>4, <2>1, RenewingKept DEF SessionInv, SessionTypeOK
  <2> QED BY <2>1, <2>2, <2>3, <2>4 DEF SessionGood, SessionInv
<1>5. CASE /\ Installable(a) /\ serial' = serial + 1 /\ Retire
           /\ \E issued \in {"exact", Inherited} :
                 tokens' = [grant |-> Grant(a), access |-> serial + 1,
                            refresh |-> issued, exact |-> TRUE]
  <2>1. Inherited \in {"none", "exact"}
    BY DEF Inherited, SessionInv, Stored, ScopeNeverBroadens, SessionTypeOK, Tokens, Refresh
  <2>2. /\ tokens' \in Tokens
        /\ tokens'.grant = Grant(a) /\ tokens'.access = serial + 1
        /\ tokens'.exact /\ tokens'.refresh # "broad"
    BY <1>5, <2>1 DEF Tokens, Refresh, Grant, SessionInv, SessionTypeOK, Authorization
  <2>3. a = begun /\ Grant(a) > floor
    BY <1>5 DEF Installable, ExchangeAnswered, SessionInv, LastOne
  <2>4. generation' = generation + 1 /\ transaction' = 0
    BY <1>5 DEF Retire
  <2>5. SessionTypeOK'
    BY <1>1, <1>2, <1>3, <1>5, <2>2, <2>4 DEF SessionInv, SessionTypeOK
  <2>6. Stored'
    BY <1>1, <1>5, <2>2, <2>3 DEF SessionInv, SessionTypeOK, Stored, Held, Grant,
                                  NothingRevived, ScopeNeverBroadens, Authorization
  <2>7. LastOne'
    BY <1>1, <1>3, <2>4 DEF SessionInv, SessionTypeOK, LastOne, Attempt
  <2>8. Renewing'
    <3>1. /\ generation' \in Nat /\ generation <= generation' /\ generation' # generation
          /\ serial' \in Nat /\ serial <= serial'
      BY <1>5, <2>4 DEF SessionInv, SessionTypeOK
    <3> QED BY <1>1, <3>1, RenewingKept
  <2>9. Issuing /\ Forward
    BY <1>1, <1>5, <2>2, <2>3 DEF Issuing, Forward, SessionInv, SessionTypeOK, Stored
  <2> QED BY <2>5, <2>6, <2>7, <2>8, <2>9 DEF SessionGood, SessionInv
<1> QED BY <1>4, <1>5 DEF ExchangeAnswered

LEMMA ClearedGood ==
    ASSUME SessionInv,
           \/ Deauthorize
           \/ ReplaceSession
           \/ Expire
    PROVE  SessionGood
<1>1. /\ UNCHANGED <<authorization, begun, ask, serial>>
      /\ drifts' \in 0..MaxDrifts
  BY Counted DEF Deauthorize, ReplaceSession, Expire, SessionInv
<1>2. \/ Clear
      \/ Retire /\ UNCHANGED tokens
      \/ /\ tokens' = [tokens EXCEPT !.access = 0]
         /\ UNCHANGED <<generation, transaction>>
  BY DEF Deauthorize, ReplaceSession, Expire
<1>3. /\ tokens' \in Tokens /\ generation' \in Nat
      /\ transaction' \in Authorization \cup {0}
      /\ floor' = floor => Stored'
      /\ Issuing /\ Forward
      /\ generation <= generation'
      /\ transaction' \in {0, transaction}
      /\ generation' = generation =>
            /\ tokens'.grant = tokens.grant /\ tokens'.exact = tokens.exact
            /\ tokens'.refresh = tokens.refresh
  BY <1>1, <1>2, Withdrawn
<1>4. Renewing'
  BY <1>1, <1>3, RenewingKept DEF Issuing
<1>5. CASE floor' = floor
  <2>1. LastOne'
    BY <1>1, <1>3, <1>5, LastOneKept
  <2>2. SessionTypeOK'
    BY <1>1, <1>3, <1>5 DEF SessionInv, SessionTypeOK
  <2> QED BY <1>3, <1>4, <1>5, <2>1, <2>2 DEF SessionGood, SessionInv
<1>6. CASE Deauthorize
  <2>1. /\ tokens' = NoTokens /\ generation' = generation + 1 /\ transaction' = 0
        /\ floor' = begun + 1
    BY <1>6 DEF Deauthorize, Clear, Retire, Grant
  <2>2. /\ generation \in Nat /\ begun \in Nat /\ serial \in Nat
        /\ \A a \in Authorization : authorization[a].gen \in Nat
    BY SessionAssumption DEF SessionInv, SessionTypeOK, Attempt
  <2>3. SessionTypeOK'
    BY <1>1, <1>3, <2>1, <2>2 DEF SessionInv, SessionTypeOK
  <2>4. /\ ~Held(tokens') /\ tokens'.grant = 0 /\ tokens'.access = 0 /\ ~tokens'.exact
    BY <2>1, NoTokensType DEF NoTokens
  <2>5. Stored'
    BY <1>1, <2>1, <2>2, <2>4 DEF Stored, NothingRevived, ScopeNeverBroadens, Grant, Held
  <2>6. LastOne'
    BY <1>1, <2>1, <2>2 DEF SessionInv, LastOne
  <2> QED BY <1>3, <1>4, <2>3, <2>5, <2>6 DEF SessionGood, SessionInv
<1> QED BY <1>5, <1>6 DEF ReplaceSession, Expire

LEMMA SessionEventGood == ASSUME SessionInv, SessionEvent PROVE SessionGood
BY BeginAuthorizationGood, OpenBrowserGood, CallbackGood, ExchangeAnsweredGood, ClearedGood
   DEF SessionEvent

\* an answer that ends a call of accessToken
LEMMA RenewingAnswered ==
    ASSUME SessionInv, NEW r \in Request, NEW answer \in Ask, Answer(r, answer),
           answer.gen = 0, answer.pc # "refreshing",
           answer.pc = "given" => answer.access # 0 /\ answer.access <= serial',
           generation' \in Nat, generation <= generation',
           serial' \in Nat, serial <= serial',
           generation' = generation =>
                 /\ tokens'.grant = tokens.grant /\ tokens'.exact = tokens.exact
                 /\ tokens'.refresh = tokens.refresh
    PROVE  Renewing' /\ ask' \in [Request -> Ask]
<1>1. /\ ask' \in [Request -> Ask]
      /\ \A x \in Request : ask'[x] = IF x = r THEN answer ELSE ask[x]
  BY DEF Answer, SessionInv, SessionTypeOK
<1>2. ASSUME NEW x \in Request, x # r
      PROVE  /\ ask[x].gen <= generation'
             /\ ask[x].pc = "given" => ask[x].access # 0 /\ ask[x].access <= serial'
             /\ ask[x].gen = generation' => ask[x].gen = generation
  BY DEF SessionInv, SessionTypeOK, Renewing, Ask
<1>3. \A x \in Request : x # r /\ ask[x].pc = "refreshing" /\ ask[x].gen = generation'
         => /\ Held(tokens') /\ tokens'.exact
            /\ ask[x].tokens.grant = tokens'.grant
            /\ ask[x].tokens.refresh = tokens'.refresh
            /\ ask[x].tokens.exact
  BY <1>2 DEF SessionInv, SessionTypeOK, Renewing, Held, Ask
<1> QED BY <1>1, <1>2, <1>3 DEF Renewing

LEMMA AnswersType ==
    /\ Denied \in Ask /\ Denied.gen = 0 /\ Denied.pc = "denied"
    /\ Unasked \in Ask /\ Unasked.gen = 0 /\ Unasked.pc = "none"
    /\ \A n \in Nat : /\ Given(n) \in Ask /\ Given(n).gen = 0 /\ Given(n).pc = "given"
                      /\ Given(n).access = n
BY NoTokensType DEF Denied, Given, Unasked, Ask

LEMMA AskTokenGood ==
    ASSUME SessionInv, NEW r \in Request, AskToken(r) PROVE SessionGood
<1>1. UNCHANGED <<authorization, begun, serial, floor, drifts>>
  BY DEF AskToken
<1>2. Keep \/ Clear
  BY DEF AskToken
<1>3. /\ tokens' \in Tokens /\ generation' \in Nat
      /\ transaction' \in Authorization \cup {0}
      /\ Stored' /\ Issuing /\ Forward
      /\ generation <= generation'
      /\ transaction' \in {0, transaction}
      /\ generation' = generation =>
            /\ tokens'.grant = tokens.grant /\ tokens'.exact = tokens.exact
            /\ tokens'.refresh = tokens.refresh
  BY <1>1, <1>2, Withdrawn
<1>4. LastOne'
  BY <1>1, <1>3, LastOneKept
<1>5. Renewing' /\ ask' \in [Request -> Ask]
  <2>1. CASE tokens.access # 0 /\ Answer(r, Given(tokens.access))
    BY <1>1, <1>3, <2>1, AnswersType, RenewingAnswered
       DEF Issuing, SessionInv, SessionTypeOK, Stored, Tokens
  <2>2. CASE Answer(r, Denied)
    BY <1>3, <2>2, AnswersType, RenewingAnswered DEF Issuing
  <2>3. CASE /\ Held(tokens) /\ tokens.exact /\ Keep
             /\ Answer(r, [pc |-> "refreshing", gen |-> generation,
                           tokens |-> tokens, access |-> 0])
    <3>1. /\ ask' \in [Request -> Ask]
          /\ \A x \in Request : ask'[x] =
                IF x = r THEN [pc |-> "refreshing", gen |-> generation,
                               tokens |-> tokens, access |-> 0]
                         ELSE ask[x]
      BY <2>3 DEF Answer, SessionInv, SessionTypeOK, Ask
    <3> QED BY <1>1, <2>3, <3>1 DEF SessionInv, SessionTypeOK, Renewing, Keep, Held
  <2> QED BY <2>1, <2>2, <2>3 DEF AskToken
<1>6. SessionTypeOK'
  BY <1>1, <1>3, <1>5 DEF SessionInv, SessionTypeOK
<1> QED BY <1>3, <1>4, <1>5, <1>6 DEF SessionGood, SessionInv

LEMMA RefreshAnsweredGood ==
    ASSUME SessionInv, NEW r \in Request, RefreshAnswered(r) PROVE SessionGood
<1>1. UNCHANGED <<authorization, begun, floor>> /\ drifts' \in 0..MaxDrifts
  BY Counted DEF RefreshAnswered, SessionInv
<1>2. CASE Answer(r, Denied) /\ (Keep \/ Clear) /\ UNCHANGED serial
  <2>1. /\ tokens' \in Tokens /\ generation' \in Nat
        /\ transaction' \in Authorization \cup {0}
        /\ Stored' /\ Issuing /\ Forward
        /\ generation <= generation'
        /\ transaction' \in {0, transaction}
        /\ generation' = generation =>
              /\ tokens'.grant = tokens.grant /\ tokens'.exact = tokens.exact
              /\ tokens'.refresh = tokens.refresh
    BY <1>1, <1>2, Withdrawn
  <2>2. LastOne'
    BY <1>1, <2>1, LastOneKept
  <2>3. Renewing' /\ ask' \in [Request -> Ask]
    BY <1>2, <2>1, AnswersType, RenewingAnswered DEF Issuing
  <2>4. SessionTypeOK'
    BY <1>1, <1>2, <2>1, <2>3 DEF SessionInv, SessionTypeOK
  <2> QED BY <2>1, <2>2, <2>3, <2>4 DEF SessionGood, SessionInv
<1>3. CASE /\ Refreshed(r) /\ Answer(r, Given(serial + 1)) /\ serial' = serial + 1
           /\ tokens' = [ask[r].tokens EXCEPT !.access = serial + 1]
           /\ UNCHANGED <<generation, transaction>>
  <2>1. /\ Held(tokens) /\ tokens.exact
        /\ ask[r].tokens.grant = tokens.grant /\ ask[r].tokens.refresh = tokens.refresh
        /\ ask[r].tokens.exact /\ ask[r].tokens \in Tokens
    BY <1>3 DEF RefreshAnswered, Refreshed, SessionInv, SessionTypeOK, Renewing, Ask
  <2>2. serial \in Nat /\ generation \in Nat /\ tokens \in Tokens
    BY DEF SessionInv, SessionTypeOK
  <2>3. /\ tokens' \in Tokens /\ tokens'.grant = tokens.grant
        /\ tokens'.refresh = tokens.refresh /\ tokens'.exact = tokens.exact
        /\ tokens'.access = serial + 1
    <3>1. \A t \in Tokens, n \in Nat :
             LET u == [t EXCEPT !.access = n]
             IN  /\ u \in Tokens /\ u.grant = t.grant /\ u.refresh = t.refresh
                 /\ u.exact = t.exact /\ u.access = n
      BY DEF Tokens
    <3>2. serial + 1 \in Nat
      BY <2>2
    <3>3. ask[r].tokens.exact = tokens.exact
      BY <2>1, <2>2 DEF Tokens
    <3> QED BY <1>3, <2>1, <3>1, <3>2, <3>3
  <2>4. Stored'
    BY <1>1, <1>3, <2>1, <2>2, <2>3
       DEF SessionInv, Stored, Held, NothingRevived, ScopeNeverBroadens, Grant
  <2>5. LastOne'
    BY <1>1, <1>3, <2>2, LastOneKept
  <2>6. Renewing' /\ ask' \in [Request -> Ask]
    BY <1>3, <2>2, <2>3, AnswersType, RenewingAnswered
  <2>7. SessionTypeOK'
    BY <1>1, <1>3, <2>2, <2>3, <2>6 DEF SessionInv, SessionTypeOK
  <2>8. Issuing /\ Forward
    BY <1>3, <2>2, <2>3 DEF Issuing, Forward, Tokens
  <2> QED BY <2>4, <2>5, <2>6, <2>7, <2>8 DEF SessionGood, SessionInv
<1> QED BY <1>2, <1>3 DEF RefreshAnswered

LEMMA InvalidateGood ==
    ASSUME SessionInv, Invalidate, Drift \/ Steady,
           UNCHANGED <<authorization, begun, serial, floor, ask>>
    PROVE  SessionGood /\ tokens'.access = 0
<1>1. drifts' \in 0..MaxDrifts
  BY Counted DEF SessionInv
<1>2. \/ Keep
      \/ Clear
      \/ /\ tokens' = [tokens EXCEPT !.access = 0]
         /\ UNCHANGED <<generation, transaction>>
  BY DEF Invalidate
<1>3. /\ tokens' \in Tokens /\ generation' \in Nat
      /\ transaction' \in Authorization \cup {0}
      /\ Stored' /\ Issuing /\ Forward
      /\ generation <= generation'
      /\ transaction' \in {0, transaction}
      /\ generation' = generation =>
            /\ tokens'.grant = tokens.grant /\ tokens'.exact = tokens.exact
            /\ tokens'.refresh = tokens.refresh
  BY <1>2, Withdrawn
<1>4. LastOne' /\ Renewing'
  BY <1>3, LastOneKept, RenewingKept DEF Issuing
<1>5. SessionTypeOK'
  BY <1>1, <1>3 DEF SessionInv, SessionTypeOK
<1>6. tokens'.access = 0
  <2>1. tokens \in Tokens /\ NoTokens.access = 0 /\ (~Held(tokens) => tokens = NoTokens)
    BY DEF SessionInv, SessionTypeOK, Stored, NoTokens
  <2> QED BY <2>1 DEF Invalidate, Keep, Clear, Tokens
<1> QED BY <1>3, <1>4, <1>5, <1>6 DEF SessionGood, SessionInv

\* accessToken has returned to the transport
LEMMA TakenGood ==
    ASSUME SessionInv, NEW r \in Request, Answer(r, Unasked), Keep, Steady,
           UNCHANGED <<authorization, begun, serial, floor>>
    PROVE  SessionGood
<1>1. /\ tokens' \in Tokens /\ generation' \in Nat
      /\ transaction' \in Authorization \cup {0}
      /\ Stored' /\ Issuing /\ Forward
      /\ generation <= generation'
      /\ transaction' \in {0, transaction}
      /\ generation' = generation =>
            /\ tokens'.grant = tokens.grant /\ tokens'.exact = tokens.exact
            /\ tokens'.refresh = tokens.refresh
  BY Withdrawn
<1>2. LastOne' /\ Renewing' /\ ask' \in [Request -> Ask]
  BY <1>1, LastOneKept, RenewingAnswered, AnswersType DEF Issuing
<1>3. SessionTypeOK'
  BY <1>1, <1>2, Counted DEF SessionInv, SessionTypeOK
<1> QED BY <1>1, <1>2, <1>3 DEF SessionGood, SessionInv

LEMMA SessionStutters == ASSUME SessionInv, UNCHANGED sessionVars PROVE SessionGood
BY DEF SessionGood, SessionInv, SessionTypeOK, Stored, LastOne, Renewing, Issuing, Forward,
       Held, NothingRevived, ScopeNeverBroadens, sessionVars, Tokens

LEMMA SessionStarts == ASSUME SessionInit PROVE SessionInv
<1>1. /\ tokens \in Tokens /\ tokens.access <= 1 /\ (Held(tokens) => tokens.grant = 1)
      /\ tokens.exact => tokens.refresh # "broad"
      /\ ~Held(tokens) => tokens = NoTokens
      /\ tokens.grant <= 1
  <2>1. CASE tokens = NoTokens
    BY <2>1, NoTokensType DEF NoTokens
  <2>2. CASE tokens \in [grant : {1}, access : {0, 1}, refresh : {"none", "exact"},
                         exact : {TRUE}]
    <3>1. /\ tokens.grant = 1 /\ tokens.access \in {0, 1}
          /\ tokens.refresh \in {"none", "exact"}
      BY <2>2
    <3>2. tokens.exact \in BOOLEAN /\ tokens.exact = TRUE
      BY <2>2
    <3>3. tokens \in Tokens
      <4>1. tokens = [grant |-> tokens.grant, access |-> tokens.access,
                      refresh |-> tokens.refresh, exact |-> tokens.exact]
        BY <2>2
      <4> QED BY <3>1, <3>2, <4>1 DEF Tokens, Refresh
    <3> QED BY <3>1, <3>2, <3>3 DEF Held
  <2>3. CASE tokens \in [grant : {1}, access : {0, 1}, refresh : {"none", "broad"},
                         exact : {FALSE}]
    <3>1. /\ tokens.grant = 1 /\ tokens.access \in {0, 1}
          /\ tokens.refresh \in {"none", "broad"}
      BY <2>3
    <3>2. tokens.exact \in BOOLEAN /\ tokens.exact = FALSE
      BY <2>3
    <3>3. tokens \in Tokens
      <4>1. tokens = [grant |-> tokens.grant, access |-> tokens.access,
                      refresh |-> tokens.refresh, exact |-> tokens.exact]
        BY <2>3
      <4> QED BY <3>1, <3>2, <4>1 DEF Tokens, Refresh
    <3> QED BY <3>1, <3>2, <3>3 DEF Held
  <2> QED BY <2>1, <2>2, <2>3 DEF SessionInit
<1>2. SessionTypeOK
  BY <1>1, AnswersType, SessionAssumption DEF SessionInit, SessionTypeOK, Attempt
<1>3. Stored
  BY <1>1 DEF SessionInit, Stored, NothingRevived, ScopeNeverBroadens, Grant
<1>4. LastOne
  BY DEF SessionInit, LastOne
<1>5. Renewing
  <2> SUFFICES ASSUME NEW r \in Request
               PROVE  ask[r].gen <= generation /\ ask[r].pc = "none"
    BY DEF Renewing
  <2>1. ask[r] = Unasked /\ generation = 0
    BY DEF SessionInit
  <2>2. Unasked.gen = 0 /\ Unasked.pc = "none"
    BY DEF Unasked
  <2> QED BY <2>1, <2>2
<1> QED BY <1>2, <1>3, <1>4, <1>5 DEF SessionInv
----------------------------------------------------------------------------
(* The invariant of the transport *)

Queue ==
    /\ active \in Nat /\ waiting \in Seq(Request) /\ request \in [Request -> Call]
    /\ \A r \in Request : At(r, "waiting") <=> \E i \in 1..Len(waiting) : waiting[i] = r
    /\ \A i, j \in 1..Len(waiting) : waiting[i] = waiting[j] => i = j

\* the semaphore counts those that are at work, and whoever waits found it full
Slots == active = Cardinality(AtWork) /\ SlotsAreUsed

\* an unsafe request has not been sent before it is sent
Replay ==
    \A r \in Request :
        \/ request[r].safe
        \/ /\ request[r].copies <= 1 /\ ~At(r, "backoff")
           /\ request[r].pc \in {"waiting", "woken", "asking", "ready"} => request[r].copies = 0

\* a token that Google refused is neither stored nor under way to the request
Fresh(r) ==
    /\ \A n \in request[r].refused : n # 0 /\ n <= serial /\ n # tokens.access
    /\ ask[r].pc = "given" => ask[r].access \notin request[r].refused
    /\ At(r, "ready") => request[r].token \notin request[r].refused
    /\ request[r].pc \in {"ready", "sent"} => request[r].token # 0 /\ request[r].token <= serial
    /\ ~At(r, "asking") => ask[r].pc = "none"

TransportInv == Queue /\ Slots /\ Replay /\ \A r \in Request : Fresh(r)
AccessInv == SessionInv /\ TransportInv

Outside == {"idle", "waiting", "woken"}

\* r alone changes its record; what it is sent with, and whether it may be
\* replayed, are not changed by accident
Advance(r, label) ==
    /\ request' \in [Request -> Call]
    /\ \A x \in Request \ {r} : request'[x] = request[x]
    /\ request'[r].pc = label /\ request'[r].safe = request[r].safe

LEMMA FreshKept ==
    ASSUME AccessInv, Issuing, NEW x \in Request,
           request'[x] = request[x], ask'[x] = ask[x]
    PROVE  Fresh(x)'
<1>1. /\ request[x] \in Call /\ request[x].refused \subseteq Nat /\ request[x].token \in Nat
      /\ serial \in Nat /\ tokens \in Tokens
  BY DEF AccessInv, TransportInv, Queue, SessionInv, SessionTypeOK, Call
<1>2. \A n \in request[x].refused : n # 0 /\ n <= serial' /\ n # tokens'.access
  BY <1>1 DEF AccessInv, TransportInv, Fresh, Issuing
<1>3. request[x].token <= serial => request[x].token <= serial'
  BY <1>1 DEF Issuing
<1> QED BY <1>2, <1>3 DEF AccessInv, TransportInv, Fresh, At

\* steps of a request at work leave queue and slots alone
LEMMA WorkKept ==
    ASSUME AccessInv, NEW r \in Request, NEW label, Advance(r, label),
           request[r].pc \notin Outside, label \notin Outside,
           UNCHANGED <<active, waiting>>
    PROVE  Queue' /\ Slots'
<1>1. \A x \in Request : /\ At(x, "waiting")' <=> At(x, "waiting")
                         /\ At(x, "woken")' <=> At(x, "woken")
                         /\ request'[x].pc \in Outside <=> request[x].pc \in Outside
  BY DEF Advance, At, Outside
<1>2. AtWork' = AtWork /\ Woken' = Woken
  BY <1>1 DEF AtWork, Woken, Outside
<1>3. Queue'
  BY <1>1 DEF AccessInv, TransportInv, Queue, Advance
<1> QED BY <1>2, <1>3 DEF AccessInv, TransportInv, Slots, SlotsAreUsed

LEMMA WorkFinite == IsFiniteSet(AtWork) /\ IsFiniteSet(AtWork \cup Woken)
                    /\ Cardinality(AtWork) \in Nat
<1>1. AtWork \subseteq Request /\ AtWork \cup Woken \subseteq Request
  BY DEF AtWork, Woken
<1> QED BY <1>1, TransportAssumption, FS_Subset, FS_CardinalityType

LEMMA NoCallType == NoCall \in Call
<1>1. 0 \in 0..MaxAttempts - 1
  BY TransportAssumption
<1> QED BY <1>1 DEF NoCall, Call

LEMMA IssueGood == ASSUME AccessInv, NEW r \in Request, Issue(r) PROVE TransportInv'
<1>1. PICK safe \in BOOLEAN :
         \/ /\ active >= MaxConcurrency /\ waiting' = Append(waiting, r)
            /\ Become(r, [NoCall EXCEPT !.pc = "waiting", !.safe = safe])
            /\ UNCHANGED active
         \/ /\ active < MaxConcurrency /\ active' = active + 1
            /\ Become(r, [NoCall EXCEPT !.pc = "asking", !.safe = safe])
            /\ UNCHANGED waiting
  BY DEF Issue
<1>2. /\ UNCHANGED <<tokens, serial, ask>> /\ At(r, "idle")
      /\ active \in Nat /\ waiting \in Seq(Request) /\ request \in [Request -> Call]
  BY DEF Issue, sessionVars, AccessInv, TransportInv, Queue
<1>3. \A label \in {"waiting", "asking"} :
         LET c == [NoCall EXCEPT !.pc = label, !.safe = safe]
         IN  /\ c \in Call /\ c.pc = label /\ c.safe = safe /\ c.copies = 0
             /\ c.refused = {}
  BY NoCallType DEF NoCall, Call
<1>4. PICK label \in {"waiting", "asking"} :
         /\ request' \in [Request -> Call]
         /\ \A x \in Request \ {r} : request'[x] = request[x]
         /\ request'[r].pc = label /\ request'[r].copies = 0 /\ request'[r].refused = {}
         /\ \/ /\ label = "waiting" /\ active >= MaxConcurrency
               /\ waiting' = Append(waiting, r) /\ active' = active
            \/ /\ label = "asking" /\ active' = active + 1 /\ waiting' = waiting
  BY <1>1, <1>2, <1>3 DEF Become
<1>5. \A x \in Request : Fresh(x)'
  <2>1. Issuing
    BY <1>2 DEF Issuing, AccessInv, SessionInv, SessionTypeOK
  <2>2. Fresh(r)'
    BY <1>2, <1>4 DEF AccessInv, TransportInv, Fresh, At
  <2> QED BY <1>2, <1>4, <2>1, <2>2, FreshKept
<1>6. Replay'
  BY <1>4 DEF AccessInv, TransportInv, Replay, At
<1>7. ~\E i \in 1..Len(waiting) : waiting[i] = r
  BY <1>2 DEF AccessInv, TransportInv, Queue, At
<1>8. CASE label = "waiting"
  <2>1. waiting' = Append(waiting, r) /\ active' = active /\ active >= MaxConcurrency
    BY <1>4, <1>8
  <2>2. /\ waiting' \in Seq(Request) /\ Len(waiting') = Len(waiting) + 1
        /\ waiting'[Len(waiting) + 1] = r
        /\ \A i \in 1..Len(waiting) : waiting'[i] = waiting[i]
        /\ Len(waiting) \in Nat
    BY <1>2, <2>1
  <2>3. Queue'
    <3>1. \A x \in Request :
             At(x, "waiting")' <=> \E i \in 1..Len(waiting') : waiting'[i] = x
      <4>1. ASSUME NEW x \in Request, x # r
            PROVE  At(x, "waiting")' <=> \E i \in 1..Len(waiting') : waiting'[i] = x
        BY <1>4, <2>2, <4>1 DEF AccessInv, TransportInv, Queue, At
      <4>2. At(r, "waiting")' /\ \E i \in 1..Len(waiting') : waiting'[i] = r
        BY <1>4, <1>8, <2>2 DEF At
      <4> QED BY <4>1, <4>2
    <3>2. \A i, j \in 1..Len(waiting') : waiting'[i] = waiting'[j] => i = j
      BY <1>7, <2>2 DEF AccessInv, TransportInv, Queue
    <3> QED BY <1>2, <1>4, <2>1, <2>2, <3>1, <3>2 DEF Queue
  <2>4. AtWork' = AtWork /\ Woken' = Woken
    BY <1>2, <1>4, <1>8 DEF AtWork, Woken, At
  <2>5. Cardinality(AtWork) <= Cardinality(AtWork \cup Woken)
    BY WorkFinite, FS_Subset
  <2>6. Slots'
    <3>1. Cardinality(AtWork \cup Woken) \in Nat
      BY WorkFinite, FS_CardinalityType
    <3> QED BY <2>1, <2>4, <2>5, <3>1, WorkFinite, TransportAssumption
            DEF AccessInv, TransportInv, Slots, SlotsAreUsed
  <2> QED BY <1>5, <1>6, <2>3, <2>6 DEF TransportInv
<1>9. CASE label = "asking"
  <2>1. waiting' = waiting /\ active' = active + 1
    BY <1>4, <1>9
  <2>2. Queue'
    BY <1>2, <1>4, <1>9, <2>1 DEF AccessInv, TransportInv, Queue, At
  <2>3. /\ AtWork' = AtWork \cup {r} /\ Woken' = Woken
        /\ r \notin AtWork /\ r \notin Woken
    BY <1>2, <1>4, <1>9 DEF AtWork, Woken, At
  <2>4. /\ Cardinality(AtWork') = Cardinality(AtWork) + 1
        /\ Cardinality(AtWork' \cup Woken') = Cardinality(AtWork \cup Woken) + 1
    <3>1. AtWork' \cup Woken' = (AtWork \cup Woken) \cup {r}
      BY <2>3
    <3> QED BY <2>3, <3>1, WorkFinite, FS_AddElement
  <2>5. Slots'
    <3>1. Cardinality(AtWork \cup Woken) \in Nat
      BY WorkFinite, FS_CardinalityType
    <3> QED BY <2>1, <2>4, <3>1, TransportAssumption
            DEF AccessInv, TransportInv, Slots, SlotsAreUsed
  <2> QED BY <1>5, <1>6, <2>2, <2>5 DEF TransportInv
<1> QED BY <1>8, <1>9

LEMMA EnterGood == ASSUME AccessInv, NEW r \in Request, Enter(r) PROVE TransportInv'
<1>1. /\ UNCHANGED <<tokens, serial, ask, waiting>> /\ At(r, "woken") /\ active' = active + 1
      /\ active \in Nat /\ request \in [Request -> Call]
      /\ request' = [request EXCEPT ![r] = [request[r] EXCEPT !.pc = "asking"]]
  BY DEF Enter, Move, Become, sessionVars, AccessInv, TransportInv, Queue
<1>2. /\ request' \in [Request -> Call]
      /\ \A x \in Request \ {r} : request'[x] = request[x]
      /\ request'[r].pc = "asking" /\ request'[r].safe = request[r].safe
      /\ request'[r].copies = request[r].copies /\ request'[r].refused = request[r].refused
  BY <1>1 DEF Call
<1>3. \A x \in Request : Fresh(x)'
  <2>1. Issuing
    BY <1>1 DEF Issuing, AccessInv, SessionInv, SessionTypeOK
  <2>2. Fresh(r)'
    BY <1>1, <1>2 DEF AccessInv, TransportInv, Fresh, At
  <2> QED BY <1>1, <1>2, <2>1, <2>2, FreshKept
<1>4. Replay'
  BY <1>1, <1>2 DEF AccessInv, TransportInv, Replay, At
<1>5. Queue'
  BY <1>1, <1>2 DEF AccessInv, TransportInv, Queue, At
<1>6. /\ AtWork' = AtWork \cup {r} /\ r \notin AtWork
      /\ AtWork' \cup Woken' = AtWork \cup Woken
  BY <1>1, <1>2 DEF AtWork, Woken, At
<1>7. Cardinality(AtWork') = Cardinality(AtWork) + 1
  BY <1>6, WorkFinite, FS_AddElement
<1>8. Slots'
  BY <1>1, <1>6, <1>7 DEF AccessInv, TransportInv, Slots, SlotsAreUsed
<1> QED BY <1>3, <1>4, <1>5, <1>8 DEF TransportInv

LEMMA ExitGood == ASSUME AccessInv, NEW r \in Request, Exit(r) PROVE TransportInv'
<1>1. /\ UNCHANGED <<tokens, serial, ask>> /\ At(r, "leaving") /\ active' = active - 1
      /\ active \in Nat /\ waiting \in Seq(Request) /\ request \in [Request -> Call]
      /\ WakeFirst(r)
  BY DEF Exit, sessionVars, AccessInv, TransportInv, Queue
<1>2. NoCall.pc = "idle" /\ NoCall.safe /\ NoCall.refused = {}
  BY DEF NoCall
<1>3. Issuing
  BY <1>1 DEF Issuing, AccessInv, SessionInv, SessionTypeOK
<1>4. r \in AtWork /\ r \notin Woken
  BY <1>1 DEF AtWork, Woken, At
<1>5. CASE waiting = <<>>
  <2>1. /\ waiting' = <<>> /\ request' \in [Request -> Call] /\ request'[r] = NoCall
        /\ \A x \in Request \ {r} : request'[x] = request[x]
    BY <1>1, <1>5, NoCallType DEF WakeFirst, Become
  <2>2. AtWork' = AtWork \ {r}
    BY <1>2, <2>1 DEF AtWork
  <2>3. active' \in Nat /\ active' = Cardinality(AtWork')
    <3>1. /\ IsFiniteSet(AtWork \ {r})
          /\ Cardinality(AtWork \ {r}) = Cardinality(AtWork) - 1
      BY <1>4, WorkFinite, FS_RemoveElement
    <3>2. Cardinality(AtWork \ {r}) \in Nat
      BY <3>1, FS_CardinalityType
    <3>3. active = Cardinality(AtWork)
      BY DEF AccessInv, TransportInv, Slots
    <3> QED BY <1>1, <2>2, <3>1, <3>2, <3>3
  <2>4. Queue'
    BY <1>1, <1>2, <1>5, <2>1, <2>3 DEF AccessInv, TransportInv, Queue, At
  <2>5. Slots'
    BY <2>1, <2>3 DEF Slots, SlotsAreUsed
  <2>6. Replay'
    BY <1>2, <2>1 DEF AccessInv, TransportInv, Replay, At
  <2>7. \A x \in Request : Fresh(x)'
    <3>1. Fresh(r)'
      BY <1>1, <1>2, <2>1 DEF AccessInv, TransportInv, Fresh, At
    <3> QED BY <1>1, <1>3, <2>1, <3>1, FreshKept
  <2> QED BY <2>4, <2>5, <2>6, <2>7 DEF TransportInv
<1>6. CASE waiting # <<>>
  <2>0. PICK h \in Request : h = Head(waiting)
    BY <1>1, <1>6
  <2>1. /\ waiting' = Tail(waiting)
        /\ request' = [request EXCEPT ![r] = NoCall, ![h].pc = "woken"]
    BY <1>1, <1>6, <2>0 DEF WakeFirst
  <2>2. /\ h \in Request /\ h = waiting[1] /\ Len(waiting) \in Nat /\ Len(waiting) > 0
        /\ waiting' \in Seq(Request) /\ Len(waiting') = Len(waiting) - 1
        /\ \A i \in 1..Len(waiting') : waiting'[i] = waiting[i + 1]
    BY <1>1, <1>6, <2>0, <2>1
  <2>3. At(h, "waiting")
    BY <2>2 DEF AccessInv, TransportInv, Queue
  <2>4. h # r
    BY <1>1, <2>3 DEF At
  <2>5. /\ request' \in [Request -> Call] /\ request'[r] = NoCall
        /\ \A x \in Request \ {r, h} : request'[x] = request[x]
        /\ request'[h].pc = "woken" /\ request'[h].safe = request[h].safe
        /\ request'[h].copies = request[h].copies /\ request'[h].refused = request[h].refused
    <3>1. request[h] \in Call
      BY <1>1, <2>2
    <3>2. [request[h] EXCEPT !.pc = "woken"] \in Call
      BY <3>1 DEF Call
    <3>3. request' = [request EXCEPT ![r] = NoCall,
                                     ![h] = [request[h] EXCEPT !.pc = "woken"]]
      BY <1>1, <2>1, <2>2, <2>4
    <3>4. /\ request' \in [Request -> Call] /\ request'[r] = NoCall
          /\ \A x \in Request \ {r, h} : request'[x] = request[x]
          /\ request'[h] = [request[h] EXCEPT !.pc = "woken"]
      BY <1>1, <2>2, <2>4, <3>2, <3>3, NoCallType
    <3> QED BY <3>1, <3>4 DEF Call
  <2>6. AtWork' = AtWork \ {r} /\ Woken' = Woken \cup {h}
        /\ h \notin AtWork /\ h \notin Woken
    <3>1. h \in Request /\ request[h].pc = "waiting" /\ request'[r].pc = "idle"
      BY <1>2, <2>2, <2>3, <2>5 DEF At
    <3>2. ASSUME NEW x \in Request
          PROVE  /\ x \in AtWork' <=> x \in AtWork \ {r}
                 /\ x \in Woken' <=> x \in Woken \cup {h}
      BY <1>1, <2>4, <2>5, <3>1 DEF AtWork, Woken, At
    <3>3. AtWork \subseteq Request /\ AtWork' \subseteq Request
          /\ Woken \subseteq Request /\ Woken' \subseteq Request
      BY DEF AtWork, Woken
    <3>4. h \notin AtWork /\ h \notin Woken
      BY <3>1 DEF AtWork, Woken, At
    <3> QED BY <3>1, <3>2, <3>3, <3>4
  <2>7. active' \in Nat /\ active' = Cardinality(AtWork')
    <3>1. /\ IsFiniteSet(AtWork \ {r})
          /\ Cardinality(AtWork \ {r}) = Cardinality(AtWork) - 1
      BY <1>4, WorkFinite, FS_RemoveElement
    <3>2. Cardinality(AtWork \ {r}) \in Nat
      BY <3>1, FS_CardinalityType
    <3>3. active = Cardinality(AtWork)
      BY DEF AccessInv, TransportInv, Slots
    <3> QED BY <1>1, <2>6, <3>1, <3>2, <3>3
  <2>8. Cardinality(AtWork' \cup Woken') = Cardinality(AtWork \cup Woken)
    <3> DEFINE U == AtWork \cup Woken
    <3>1. AtWork' \cup Woken' = (U \ {r}) \cup {h} /\ r \in U /\ h \notin U
      BY <1>4, <2>6
    <3>2. IsFiniteSet(U) /\ Cardinality(U) \in Nat
      BY WorkFinite, FS_CardinalityType
    <3> HIDE DEF U
    <3>3. IsFiniteSet(U \ {r}) /\ Cardinality(U \ {r}) = Cardinality(U) - 1
      BY <3>1, <3>2, FS_RemoveElement
    <3>4. Cardinality((U \ {r}) \cup {h}) = Cardinality(U \ {r}) + 1
      BY <3>1, <3>3, FS_AddElement
    <3>5. Cardinality((U \ {r}) \cup {h}) = Cardinality(U)
      BY <3>2, <3>3, <3>4
    <3> QED BY <3>1, <3>5 DEF U
  <2>9. Queue'
    <3>0. \A i, j \in 1..Len(waiting) : waiting[i] = waiting[j] => i = j
      BY DEF AccessInv, TransportInv, Queue
    <3>1. \A x \in Request : At(x, "waiting")' <=> \E i \in 1..Len(waiting') : waiting'[i] = x
      <4>1. ASSUME NEW x \in Request, x # h
            PROVE  (\E i \in 1..Len(waiting) : waiting[i] = x)
                    <=> \E i \in 1..Len(waiting') : waiting'[i] = x
        <5>1. ASSUME NEW i \in 1..Len(waiting), waiting[i] = x
              PROVE  i - 1 \in 1..Len(waiting') /\ waiting'[i - 1] = x
          BY <2>2, <4>1, <5>1
        <5>2. ASSUME NEW i \in 1..Len(waiting'), waiting'[i] = x
              PROVE  i + 1 \in 1..Len(waiting) /\ waiting[i + 1] = x
          BY <2>2, <5>2
        <5> QED BY <5>1, <5>2
      <4>2. \A x \in Request \ {h} : At(x, "waiting")' <=> At(x, "waiting")
        BY <1>1, <1>2, <2>5 DEF At
      <4>3. ~At(h, "waiting")' /\ ~\E i \in 1..Len(waiting') : waiting'[i] = h
        <5>1. ASSUME NEW i \in 1..Len(waiting'), waiting'[i] = h
              PROVE  FALSE
          <6>1. /\ i + 1 \in 1..Len(waiting) /\ 1 \in 1..Len(waiting)
                /\ waiting[i + 1] = waiting[1] /\ i + 1 # 1
            BY <2>2, <5>1
          <6> QED BY <6>1, <3>0
        <5> QED BY <2>5, <5>1 DEF At
      <4>4. \A x \in Request : At(x, "waiting") <=> \E i \in 1..Len(waiting) : waiting[i] = x
        BY DEF AccessInv, TransportInv, Queue
      <4>5. ASSUME NEW x \in Request
            PROVE  At(x, "waiting")' <=> \E i \in 1..Len(waiting') : waiting'[i] = x
        <5>1. CASE x = h
          BY <4>3, <5>1
        <5>2. CASE x # h
          BY <4>1, <4>2, <4>4, <5>2
        <5> QED BY <5>1, <5>2
      <4> QED BY <4>5
    <3>2. ASSUME NEW i \in 1..Len(waiting'), NEW j \in 1..Len(waiting'),
                 waiting'[i] = waiting'[j]
          PROVE  i = j
      <4>1. /\ i + 1 \in 1..Len(waiting) /\ j + 1 \in 1..Len(waiting)
            /\ waiting[i + 1] = waiting[j + 1]
        BY <2>2, <3>2
      <4>2. i + 1 = j + 1
        BY <3>0, <4>1
      <4> QED BY <4>2
    <3> QED BY <2>2, <2>5, <2>7, <3>1, <3>2 DEF Queue
  <2>10. Slots'
    BY <1>6, <2>6, <2>7, <2>8 DEF AccessInv, TransportInv, Slots, SlotsAreUsed
  <2>11. Replay'
    BY <1>2, <2>3, <2>5 DEF AccessInv, TransportInv, Replay, At
  <2>12. \A x \in Request : Fresh(x)'
    <3>1. Fresh(r)'
      BY <1>1, <1>2, <2>5 DEF AccessInv, TransportInv, Fresh, At
    <3>2. Fresh(h)'
      <4>1. h \in Request /\ request[h].pc = "waiting"
        BY <2>2, <2>3 DEF At
      <4>2. Fresh(h)
        BY <4>1 DEF AccessInv, TransportInv
      <4> QED BY <1>1, <2>5, <4>1, <4>2 DEF Fresh, At
    <3>3. ASSUME NEW x \in Request, x # r, x # h PROVE Fresh(x)'
      BY <1>1, <1>3, <2>5, <3>3, FreshKept
    <3> QED BY <3>1, <3>2, <3>3
  <2> QED BY <2>9, <2>10, <2>11, <2>12 DEF TransportInv
<1> QED BY <1>5, <1>6

\* what the session does by itself leaves the transport as it was
LEMMA SessionEventKeeps ==
    ASSUME AccessInv, SessionEvent, UNCHANGED transportVars PROVE TransportInv'
<1>1. Issuing /\ UNCHANGED <<ask, active, waiting, request>>
  BY SessionEventGood DEF SessionGood, AccessInv, SessionEvent, transportVars,
     BeginAuthorization, OpenBrowser, Callback, ExchangeAnswered, Deauthorize,
     ReplaceSession, Expire
<1>2. Queue' /\ Slots' /\ Replay'
  BY <1>1 DEF AccessInv, TransportInv, Queue, Slots, Replay, SlotsAreUsed, AtWork, Woken, At
<1>3. \A x \in Request : Fresh(x)'
  BY <1>1, FreshKept
<1> QED BY <1>2, <1>3 DEF TransportInv

LEMMA StutterKeeps ==
    ASSUME AccessInv, UNCHANGED accessVars PROVE TransportInv'
<1>1. Issuing /\ UNCHANGED <<ask, active, waiting, request>>
  BY SessionStutters DEF SessionGood, AccessInv, accessVars, sessionVars, transportVars
<1>2. Queue' /\ Slots' /\ Replay'
  BY <1>1 DEF AccessInv, TransportInv, Queue, Slots, Replay, SlotsAreUsed, AtWork, Woken, At
<1>3. \A x \in Request : Fresh(x)'
  BY <1>1, FreshKept
<1> QED BY <1>2, <1>3 DEF TransportInv

\* accessToken gives away a token that is stored, or one just issued
LEMMA TokenStepKeeps ==
    ASSUME AccessInv, NEW r \in Request, UNCHANGED transportVars,
           At(r, "asking"), AskToken(r) \/ RefreshAnswered(r)
    PROVE  TransportInv'
<1>1. Issuing /\ UNCHANGED <<active, waiting, request>>
  BY AskTokenGood, RefreshAnsweredGood DEF SessionGood, AccessInv, transportVars
<1>2. Queue' /\ Slots' /\ Replay'
  BY <1>1 DEF AccessInv, TransportInv, Queue, Slots, Replay, SlotsAreUsed, AtWork, Woken, At
<1>3. PICK answer : /\ Answer(r, answer)
                    /\ answer.pc = "given" => \/ answer.access = tokens.access
                                              \/ answer.access = serial + 1
  BY AnswersType DEF AskToken, RefreshAnswered, AccessInv, SessionInv, SessionTypeOK, Tokens
<1>4. /\ ask \in [Request -> Ask] /\ serial \in Nat /\ request[r].refused \subseteq Nat
  BY DEF AccessInv, TransportInv, Queue, SessionInv, SessionTypeOK, Call
<1>5. ask'[r] = answer /\ \A x \in Request \ {r} : ask'[x] = ask[x]
  BY <1>3, <1>4 DEF Answer
<1>6. Fresh(r)'
  <2>1. \A n \in request[r].refused : n # 0 /\ n <= serial /\ n # tokens.access
    BY DEF AccessInv, TransportInv, Fresh
  <2>2. \A n \in request[r].refused : n <= serial' /\ n # tokens'.access
    BY <1>1, <1>4, <2>1 DEF Issuing
  <2>3. ask'[r].pc = "given" => ask'[r].access \notin request[r].refused
    BY <1>3, <1>4, <1>5, <2>1
  <2> QED BY <1>1, <2>1, <2>2, <2>3 DEF Fresh, At
<1>7. \A x \in Request : Fresh(x)'
  BY <1>1, <1>5, <1>6, FreshKept
<1> QED BY <1>2, <1>7 DEF TransportInv

LEMMA TakeTokenKeeps == ASSUME AccessInv, NEW r \in Request, TakeToken(r) PROVE TransportInv'
<1>1. /\ UNCHANGED <<tokens, serial, active, waiting>> /\ At(r, "asking")
      /\ request \in [Request -> Call] /\ ask \in [Request -> Ask]
      /\ Issuing
  BY DEF TakeToken, Keep, sessionRest, AccessInv, TransportInv, Queue, SessionInv,
         SessionTypeOK, Issuing
<1>2. ask'[r].pc = "none" /\ \A x \in Request \ {r} : ask'[x] = ask[x]
  BY <1>1, AnswersType DEF TakeToken, Answer
<1>3. ask[r].pc = "given" => /\ ask[r].access \in Nat /\ ask[r].access # 0
                             /\ ask[r].access <= serial
                             /\ ask[r].access \notin request[r].refused
  BY <1>1 DEF AccessInv, SessionInv, Renewing, TransportInv, Fresh, Ask
<1>4. PICK label \in {"ready", "leaving"} :
         /\ Advance(r, label)
         /\ request'[r].copies = request[r].copies /\ request'[r].refused = request[r].refused
         /\ label = "ready" => ask[r].pc = "given" /\ request'[r].token = ask[r].access
  <2>1. CASE ask[r].pc = "denied" /\ Move(r, "leaving")
    <3>1. Advance(r, "leaving") /\ request'[r].copies = request[r].copies
          /\ request'[r].refused = request[r].refused
      BY <1>1, <2>1 DEF Move, Become, Advance, Call
    <3> QED BY <3>1
  <2>2. CASE /\ ask[r].pc = "given"
             /\ Become(r, [request[r] EXCEPT !.pc = "ready", !.token = ask[r].access])
    <3>1. Advance(r, "ready") /\ request'[r].copies = request[r].copies
          /\ request'[r].refused = request[r].refused /\ request'[r].token = ask[r].access
      BY <1>1, <1>3, <2>2 DEF Become, Advance, Call
    <3> QED BY <2>2, <3>1
  <2> QED BY <2>1, <2>2 DEF TakeToken
<1>5. Queue' /\ Slots'
  BY <1>1, <1>4, WorkKept DEF At, Outside
<1>6. Replay'
  BY <1>1, <1>4 DEF AccessInv, TransportInv, Replay, At, Advance
<1>7. Fresh(r)'
  BY <1>1, <1>2, <1>3, <1>4 DEF AccessInv, TransportInv, Fresh, At, Advance
<1>8. \A x \in Request : Fresh(x)'
  BY <1>1, <1>2, <1>4, <1>7, FreshKept DEF Advance
<1> QED BY <1>5, <1>6, <1>8 DEF TransportInv

LEMMA SendKeeps == ASSUME AccessInv, NEW r \in Request, Send(r) PROVE TransportInv'
<1>1. /\ UNCHANGED <<tokens, serial, ask, active, waiting>> /\ At(r, "ready")
      /\ request \in [Request -> Call]
      /\ Issuing
  BY DEF Send, sessionVars, AccessInv, TransportInv, Queue, SessionInv, SessionTypeOK, Issuing
<1>2. /\ Advance(r, "sent") /\ request'[r].copies = request[r].copies + 1
      /\ request'[r].refused = request[r].refused /\ request'[r].token = request[r].token
  <2>1. request[r] \in Call /\ request[r].copies + 1 \in Nat
    BY <1>1 DEF Call
  <2>2. request' = [request EXCEPT ![r] = [request[r] EXCEPT !.pc = "sent",
                                                !.copies = request[r].copies + 1]]
    BY <2>1 DEF Send, Become, Call
  <2> QED BY <1>1, <2>1, <2>2 DEF Advance, Call
<1>3. Queue' /\ Slots'
  BY <1>1, <1>2, WorkKept DEF At, Outside
<1>4. Replay'
  BY <1>1, <1>2 DEF AccessInv, TransportInv, Replay, At, Advance
<1>5. Fresh(r)'
  BY <1>1, <1>2 DEF AccessInv, TransportInv, Fresh, At, Advance
<1>6. \A x \in Request : Fresh(x)'
  BY <1>1, <1>2, <1>5, FreshKept DEF Advance
<1> QED BY <1>3, <1>4, <1>6 DEF TransportInv

\* the answers of Google, and the end of a backoff
LEMMA AnsweredKeeps ==
    ASSUME AccessInv, NEW r \in Request, Concluded(r) \/ Failed(r) \/ Slept(r)
    PROVE  TransportInv'
<1>1. /\ UNCHANGED <<tokens, serial, ask, active, waiting>>
      /\ request[r].pc \in {"sent", "backoff"}
      /\ request \in [Request -> Call]
      /\ Issuing
  BY DEF Concluded, Failed, Slept, Keep, sessionRest, sessionVars, At, AccessInv,
         TransportInv, Queue, SessionInv, SessionTypeOK, Issuing
<1>2. PICK label \in {"leaving", "backoff", "asking"} :
         /\ Advance(r, label) /\ (label = "leaving" \/ request[r].safe)
         /\ request'[r].copies = request[r].copies /\ request'[r].refused = request[r].refused
  <2>1. CASE Concluded(r)
    <3>1. Advance(r, "leaving") /\ request'[r].copies = request[r].copies
          /\ request'[r].refused = request[r].refused
      BY <1>1, <2>1 DEF Concluded, Move, Become, Advance, Call
    <3> QED BY <3>1
  <2>2. CASE Failed(r)
    <3>1. CASE Retry(r)
      <4>1. request[r].attempt + 1 \in 0..MaxAttempts - 1
        BY <1>1, <3>1, TransportAssumption DEF Retry, Call
      <4>2. request' = [request EXCEPT ![r] = [request[r] EXCEPT !.pc = "backoff",
                                                    !.attempt = request[r].attempt + 1]]
        BY <2>2, <3>1 DEF Failed, Again, Become
      <4>3. Advance(r, "backoff") /\ request'[r].copies = request[r].copies
            /\ request'[r].refused = request[r].refused
        BY <1>1, <4>1, <4>2 DEF Advance, Call
      <4> QED BY <3>1, <4>3 DEF Retry
    <3>2. CASE ~Retry(r)
      <4>1. request' = [request EXCEPT ![r] = [request[r] EXCEPT !.pc = "leaving",
                                                    !.attempt = request[r].attempt]]
        BY <2>2, <3>2 DEF Failed, Again, Become
      <4>2. Advance(r, "leaving") /\ request'[r].copies = request[r].copies
            /\ request'[r].refused = request[r].refused
        BY <1>1, <4>1 DEF Advance, Call
      <4> QED BY <4>2
    <3> QED BY <3>1, <3>2
  <2>3. CASE Slept(r)
    <3>1. Advance(r, "asking") /\ request'[r].copies = request[r].copies
          /\ request'[r].refused = request[r].refused
      BY <1>1, <2>3 DEF Slept, Move, Become, Advance, Call
    <3>2. request[r].safe
      BY <2>3 DEF Slept, AccessInv, TransportInv, Replay
    <3> QED BY <3>1, <3>2
  <2> QED BY <2>1, <2>2, <2>3
<1>3. Queue' /\ Slots'
  BY <1>1, <1>2, WorkKept DEF Outside
<1>4. Replay'
  BY <1>1, <1>2 DEF AccessInv, TransportInv, Replay, At, Advance
<1>5. Fresh(r)'
  BY <1>1, <1>2 DEF AccessInv, TransportInv, Fresh, At, Advance
<1>6. \A x \in Request : Fresh(x)'
  BY <1>1, <1>2, <1>5, FreshKept DEF Advance
<1> QED BY <1>3, <1>4, <1>6 DEF TransportInv

LEMMA UnauthorizedGood ==
    ASSUME AccessInv, NEW r \in Request, Unauthorized(r) PROVE SessionGood /\ TransportInv'
<1>1. /\ UNCHANGED <<authorization, begun, serial, floor, ask, active, waiting>>
      /\ At(r, "sent") /\ Invalidate /\ Drift /\ request \in [Request -> Call]
  BY DEF Unauthorized, sessionRest, AccessInv, TransportInv, Queue
<1>2. SessionGood /\ tokens'.access = 0 /\ Issuing
  BY <1>1, InvalidateGood DEF AccessInv, SessionGood
<1>3. /\ request[r].token \in Nat /\ request[r].token # 0 /\ request[r].token <= serial
      /\ request[r] \in Call /\ request[r].refused \cup {request[r].token} \in SUBSET Nat
  BY <1>1 DEF AccessInv, TransportInv, Fresh, At, Call
<1>4. PICK label \in {"asking", "leaving"} :
         /\ Advance(r, label) /\ (label = "leaving" \/ request[r].safe)
         /\ request'[r].copies = request[r].copies
         /\ request'[r].refused = request[r].refused \cup {request[r].token}
  <2>1. CASE Retry(r)
    <3>1. request[r].attempt + 1 \in 0..MaxAttempts - 1
      BY <1>3, <2>1, TransportAssumption DEF Retry, Call
    <3>2. request' = [request EXCEPT ![r] =
             [[request[r] EXCEPT !.refused = request[r].refused \cup {request[r].token}]
                 EXCEPT !.pc = "asking", !.attempt = request[r].attempt + 1]]
      BY <1>3, <2>1 DEF Unauthorized, Become, Call
    <3>3. /\ Advance(r, "asking") /\ request'[r].copies = request[r].copies
          /\ request'[r].refused = request[r].refused \cup {request[r].token}
      BY <1>1, <1>3, <3>1, <3>2 DEF Advance, Call
    <3> QED BY <2>1, <3>3 DEF Retry
  <2>2. CASE ~Retry(r)
    <3>1. request' = [request EXCEPT ![r] =
             [[request[r] EXCEPT !.refused = request[r].refused \cup {request[r].token}]
                 EXCEPT !.pc = "leaving", !.attempt = request[r].attempt]]
      BY <1>3, <2>2 DEF Unauthorized, Become, Call
    <3>2. /\ Advance(r, "leaving") /\ request'[r].copies = request[r].copies
          /\ request'[r].refused = request[r].refused \cup {request[r].token}
      BY <1>1, <1>3, <3>1 DEF Advance, Call
    <3> QED BY <3>2
  <2> QED BY <2>1, <2>2
<1>5. Queue' /\ Slots'
  BY <1>1, <1>4, WorkKept DEF At, Outside
<1>6. Replay'
  BY <1>1, <1>4 DEF AccessInv, TransportInv, Replay, At, Advance
<1>7. Fresh(r)'
  <2>1. \A n \in request[r].refused : n # 0 /\ n <= serial /\ n # tokens.access
    BY DEF AccessInv, TransportInv, Fresh
  <2>2. ask[r].pc = "none"
    BY <1>1 DEF AccessInv, TransportInv, Fresh, At
  <2> QED BY <1>1, <1>2, <1>3, <1>4, <2>1, <2>2 DEF Fresh, At, Advance
<1>8. \A x \in Request : Fresh(x)'
  BY <1>1, <1>2, <1>4, <1>7, FreshKept DEF Advance
<1> QED BY <1>2, <1>5, <1>6, <1>8 DEF TransportInv
----------------------------------------------------------------------------
(* The theorems *)

LEMMA AccessStarts == ASSUME AccessInit PROVE AccessInv
<1>1. SessionInv /\ SessionInit
  BY SessionStarts DEF AccessInit
<1>2. /\ active = 0 /\ waiting = <<>> /\ request \in [Request -> Call]
      /\ \A r \in Request : request[r] = NoCall /\ ask[r] = Unasked
  BY <1>1, NoCallType DEF AccessInit, SessionInit
<1>3. /\ NoCall.pc = "idle" /\ NoCall.safe /\ NoCall.refused = {}
      /\ Unasked.pc = "none"
  BY DEF NoCall, Unasked
<1>4. Queue
  BY <1>2, <1>3 DEF Queue, At
<1>5. Slots
  <2>1. AtWork = {}
    BY <1>2, <1>3 DEF AtWork
  <2> QED BY <1>2, <2>1, FS_EmptySet DEF Slots, SlotsAreUsed
<1>6. Replay /\ \A r \in Request : Fresh(r)
  BY <1>2, <1>3 DEF Replay, Fresh, At
<1> QED BY <1>1, <1>4, <1>5, <1>6 DEF AccessInv, TransportInv

\* one step of the session and the transport together
LEMMA AccessStep ==
    ASSUME AccessInv, [AccessNext]_accessVars PROVE AccessInv' /\ Forward
<1>1. ASSUME NEW r \in Request, Issue(r) PROVE SessionGood /\ TransportInv'
  BY <1>1, IssueGood, SessionStutters DEF Issue, AccessInv
<1>2. ASSUME NEW r \in Request, Enter(r) PROVE SessionGood /\ TransportInv'
  BY <1>2, EnterGood, SessionStutters DEF Enter, AccessInv
<1>3. ASSUME NEW r \in Request, Exit(r) PROVE SessionGood /\ TransportInv'
  BY <1>3, ExitGood, SessionStutters DEF Exit, AccessInv
<1>4. ASSUME NEW r \in Request, AskForToken(r) PROVE SessionGood /\ TransportInv'
  BY <1>4, TokenStepKeeps, AskTokenGood DEF AskForToken, AccessInv
<1>5. ASSUME NEW r \in Request, TokenRefreshed(r) PROVE SessionGood /\ TransportInv'
  BY <1>5, TokenStepKeeps, RefreshAnsweredGood DEF TokenRefreshed, AccessInv
<1>6. ASSUME NEW r \in Request, TakeToken(r) PROVE SessionGood /\ TransportInv'
  BY <1>6, TakeTokenKeeps, TakenGood DEF TakeToken, AccessInv, sessionRest
<1>7. ASSUME NEW r \in Request, Send(r) PROVE SessionGood /\ TransportInv'
  BY <1>7, SendKeeps, SessionStutters DEF Send, AccessInv
<1>8. ASSUME NEW r \in Request, Concluded(r) PROVE SessionGood /\ TransportInv'
  BY <1>8, AnsweredKeeps, SessionStutters DEF Concluded, AccessInv
<1>9. ASSUME NEW r \in Request, Failed(r) PROVE SessionGood /\ TransportInv'
  <2>1. UNCHANGED <<tokens, generation, transaction, authorization, begun, serial, floor, ask>>
        /\ Drift
    BY <1>9 DEF Failed, Keep, sessionRest
  <2>2. SessionTypeOK' /\ Stored' /\ LastOne' /\ Renewing' /\ Issuing /\ Forward
    BY <2>1, Counted DEF AccessInv, SessionInv, SessionTypeOK, Stored, LastOne, Renewing,
       Issuing, Forward, Held, NothingRevived, ScopeNeverBroadens, Tokens
  <2> QED BY <1>9, <2>2, AnsweredKeeps DEF SessionGood, SessionInv
<1>10. ASSUME NEW r \in Request, Slept(r) PROVE SessionGood /\ TransportInv'
  BY <1>10, AnsweredKeeps, SessionStutters DEF Slept, AccessInv
<1>11. ASSUME NEW r \in Request, Unauthorized(r) PROVE SessionGood /\ TransportInv'
  BY <1>11, UnauthorizedGood
<1>12. CASE SessionEvent /\ UNCHANGED transportVars
  BY <1>12, SessionEventKeeps, SessionEventGood DEF AccessInv, SessionGood
<1>13. CASE UNCHANGED accessVars
  BY <1>13, StutterKeeps, SessionStutters DEF AccessInv, SessionGood, accessVars
<1>14. ASSUME NEW r \in Request, Issue(r) \/ Progress(r) PROVE SessionGood /\ TransportInv'
  BY <1>14, <1>1, <1>2, <1>3, <1>4, <1>5, <1>6, <1>7, <1>8, <1>9, <1>10, <1>11 DEF Progress
<1> QED BY <1>12, <1>13, <1>14 DEF AccessNext, AccessInv, SessionGood

\* AccessInv is an invariant of every behaviour.
THEOREM AccessAlways == AccessSpec => []AccessInv
<1>1. AccessInit => AccessInv
  BY AccessStarts
<1>2. AccessInv /\ [AccessNext]_accessVars => AccessInv'
  BY AccessStep
<1> QED BY <1>1, <1>2, PTL DEF AccessSpec

\* Every variable of the session and of the transport keeps its type, and the
\* queue holds exactly the requests that wait.
THEOREM AccessTypeCorrect == AccessSpec => []AccessTypeOK
<1>1. AccessInv => AccessTypeOK
  BY DEF AccessInv, SessionInv, TransportInv, Queue, AccessTypeOK
<1> QED BY <1>1, AccessAlways, PTL

\* No exchange and no refresh that was under way when the user deauthorized
\* brings tokens of that time back, whatever overlaps (revocationGeneration).
THEOREM DeauthorizedStaysGone == AccessSpec => []NothingRevived
<1>1. AccessInv => NothingRevived
  BY DEF AccessInv, SessionInv, Stored
<1> QED BY <1>1, AccessAlways, PTL

\* Tokens of exact scope never keep a refresh token of a broader grant.
THEOREM ScopeIsKept == AccessSpec => []ScopeNeverBroadens
<1>1. AccessInv => ScopeNeverBroadens
  BY DEF AccessInv, SessionInv, Stored
<1> QED BY <1>1, AccessAlways, PTL

\* A refresh of an older grant never replaces the tokens of a newer one.
THEOREM GrantsMoveForward == AccessSpec => NewerGrantWins
<1>1. AccessInv /\ [AccessNext]_accessVars
         => [Held(tokens) /\ Held(tokens') => tokens'.grant >= tokens.grant]_sessionVars
  BY AccessStep DEF Forward
<1> QED BY <1>1, AccessAlways, PTL DEF AccessSpec, NewerGrantWins

\* A request that must not be replayed leaves at most once, whatever fails.
THEOREM UnsafeIsSentOnce == AccessSpec => []UnsafeSentOnce
<1>1. AccessInv => UnsafeSentOnce
  BY DEF AccessInv, TransportInv, Replay, UnsafeSentOnce
<1> QED BY <1>1, AccessAlways, PTL

\* As long as somebody waits, the requests at work and those already woken take
\* up the whole limit, for any limit and any number of requests.
THEOREM NoSlotIsLost == AccessSpec => []SlotsAreUsed
<1>1. AccessInv => SlotsAreUsed
  BY DEF AccessInv, TransportInv, Slots
<1> QED BY <1>1, AccessAlways, PTL

\* only Send counts a copy
LEMMA CopiesKept ==
    ASSUME AccessInv, [AccessNext]_accessVars, NEW r \in Request, ~At(r, "ready"),
           request'[r].copies > request[r].copies
    PROVE  FALSE
<1>1. request \in [Request -> Call] /\ request[r].copies \in Nat /\ NoCall.copies = 0
  BY DEF AccessInv, TransportInv, Queue, Call, NoCall
<1>2. SUFFICES ASSUME NEW x \in Request, Issue(x) \/ Progress(x) PROVE FALSE
  BY <1>1 DEF AccessNext, accessVars, transportVars
<1>3. CASE Issue(x)
  <2>1. request'[r].copies \in {0, request[r].copies}
    BY <1>1, <1>3 DEF Issue, Become, NoCall
  <2> QED BY <1>1, <2>1
<1>4. CASE Exit(x)
  <2>1. request'[r].copies \in {0, request[r].copies}
    <3>1. CASE waiting = <<>>
      BY <1>1, <1>4, <3>1 DEF Exit, WakeFirst, Become
    <3>2. CASE waiting # <<>>
      <4>1. PICK h \in Request : h = Head(waiting)
        BY <3>2 DEF AccessInv, TransportInv, Queue
      <4>2. request' = [request EXCEPT ![x] = NoCall, ![h].pc = "woken"]
        BY <1>4, <3>2, <4>1 DEF Exit, WakeFirst
      <4>3. request[h] \in Call /\ h # x
        <5>1. At(h, "waiting")
          BY <3>2, <4>1 DEF AccessInv, TransportInv, Queue
        <5> QED BY <1>1, <1>4, <5>1 DEF Exit, At
      <4>4. request'[r] = IF r = x THEN NoCall
                          ELSE IF r = h THEN [request[h] EXCEPT !.pc = "woken"]
                          ELSE request[r]
        BY <1>1, <4>2, <4>3
      <4> QED BY <1>1, <4>3, <4>4 DEF Call
    <3> QED BY <3>1, <3>2
  <2> QED BY <1>1, <2>1
<1>5. CASE Send(x)
  <2>1. x # r
    BY <1>5 DEF Send, At
  <2> QED BY <1>1, <1>5, <2>1 DEF Send, Become
<1>6. CASE \/ Enter(x) \/ TakeToken(x) \/ Concluded(x) \/ Slept(x)
           \/ Failed(x) \/ Unauthorized(x)
  <2>1. request'[r].copies = request[r].copies
    <3>1. PICK c : /\ request' = [request EXCEPT ![x] = c]
                   /\ c.copies = request[x].copies
      <4>0. request[x] \in Call
        BY <1>1
      <4>1. CASE Enter(x) \/ Concluded(x) \/ Slept(x)
        BY <4>0, <4>1 DEF Enter, Concluded, Slept, Move, Become, Call
      <4>2. CASE TakeToken(x)
        BY <4>0, <4>2 DEF TakeToken, Move, Become, Call
      <4>3. CASE Failed(x)
        <5> DEFINE d == [request[x] EXCEPT
                            !.pc = IF Retry(x) THEN "backoff" ELSE "leaving",
                            !.attempt = IF Retry(x) THEN request[x].attempt + 1
                                                    ELSE request[x].attempt]
        <5>1. request' = [request EXCEPT ![x] = d]
          BY <4>0, <4>3 DEF Failed, Again, Become, Call
        <5>2. d.copies = request[x].copies
          BY <4>0 DEF Call
        <5> QED BY <5>1, <5>2
      <4>4. CASE Unauthorized(x)
        <5> DEFINE u == [request[x] EXCEPT
                            !.refused = request[x].refused \cup {request[x].token}]
            d == [u EXCEPT !.pc = IF Retry(x) THEN "asking" ELSE "leaving",
                           !.attempt = IF Retry(x) THEN request[x].attempt + 1
                                                   ELSE request[x].attempt]
        <5>1. request' = [request EXCEPT ![x] = d]
          BY <4>0, <4>4 DEF Unauthorized, Become, Call
        <5>2. d.copies = request[x].copies
          BY <4>0 DEF Call
        <5> QED BY <5>1, <5>2
      <4> QED BY <1>6, <4>1, <4>2, <4>3, <4>4
    <3> QED BY <1>1, <3>1
  <2> QED BY <1>1, <2>1
<1>7. CASE AskForToken(x) \/ TokenRefreshed(x)
  BY <1>1, <1>7 DEF AskForToken, TokenRefreshed, transportVars
<1> QED BY <1>2, <1>3, <1>4, <1>5, <1>6, <1>7 DEF Progress

\* A request is never sent again with a token that Google refused to it.
THEOREM RefusedStaysRefused == AccessSpec => RefusedNotResent
<1>1. AccessInv /\ [AccessNext]_accessVars
         => [\A r \in Request : request'[r].copies > request[r].copies
                => request[r].token \notin request[r].refused]_accessVars
  <2> SUFFICES ASSUME AccessInv, [AccessNext]_accessVars, NEW r \in Request,
                      request'[r].copies > request[r].copies
               PROVE  request[r].token \notin request[r].refused
    OBVIOUS
  <2>1. CASE At(r, "ready")
    BY <2>1 DEF AccessInv, TransportInv, Fresh
  <2>2. CASE ~At(r, "ready")
    BY <2>2, CopiesKept
  <2> QED BY <2>1, <2>2
<1> QED BY <1>1, AccessAlways, PTL DEF AccessSpec, RefusedNotResent

=============================================================================
