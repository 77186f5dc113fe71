--------------------------- MODULE ServerPartsProofs ---------------------------
(***************************************************************************)
(* The server's smaller parts, proved for every safety margin, lifetime,   *)
(* number of processes and secrets, set of environments, number of rows    *)
(* and page size: the senders' verdicts and the cached Firebase token, the *)
(* lifetime of an OAuth state, the settings of a deployment, and the       *)
(* queries of the notifications service.                                   *)
(***************************************************************************)
EXTENDS ProviderCalls, OAuthState, Configuration, NotificationList,
        FiniteSetTheorems, FunctionTheorems, TLAPS


-----------------------------------------------------------------------------
(* Providers                                                               *)

\* A token that is in use was good for longer than the margin when the send
\* began, if it came from the cache; one that is issued is so after the send began.
TokenInUse ==
    /\ call.pc = "issued" => call.began <= call.issuedAt
    /\ call.pc \in {"token", "issued"} => ~call.reused
    /\ call.reused => call.token.expiresAt > call.began + Margin
    /\ call.token.expiresAt <= call.token.validUntil

CallsIndInv == CallsTypeOK /\ RetriesAreLimited /\ TokenInUse

\* The status of an answer is one of these numbers.
LEMMA AnswerStatus ==
    ASSUME NEW a \in Answer PROVE a.status \in {0, 200, 400, 408, 429, 500}
  BY ZenonT(40) DEF Answer

\* Of those, the policy takes the time-out and the server's own error as passing.
LEMMA RetryableStatus ==
    ASSUME NEW a \in Answer PROVE Retryable(a.status) <=> a.status \in {408, 500}
  BY AnswerStatus DEF Retryable

\* An outcome is "sent" for an intact answer only, and a retry only where the
\* provider failed on its side, timed out, never answered, or was not understood by
\* the Resend client.
LEMMA Verdicts ==
    ASSUME NEW provider \in Providers, NEW a \in Answer
    PROVE  /\ OutcomeOf(provider, a) \in {"sent", "retry", "permanent"}
           /\ OutcomeOf(provider, a) = "sent" <=> Intact(a)
           /\ OutcomeOf(provider, a) = "retry" => MayPass(provider, a)
  <1>1. ByPolicy(a.status) = "retry" \/ ByPolicy(a.status) = "permanent"
    BY DEF ByPolicy
  <1>2. ByPolicy(a.status) = "retry" => a.status \in {0, 408, 500}
    <2>1. Retryable(a.status) => a.status \in {408, 500}
      BY RetryableStatus
    <2> QED
      BY <2>1 DEF ByPolicy
  <1>3. CASE provider = "firebase"
    <2>1. a.status = 200 => ByPolicy(a.status) = "permanent"
      BY DEF ByPolicy, Retryable
    <2> QED
      BY <1>1, <1>2, <1>3, <2>1 DEF OutcomeOf, FirebaseOutcome, Intact, MayPass
  <1>4. CASE provider = "resend"
    BY <1>4 DEF OutcomeOf, ResendOutcome, Intact, MayPass
  <1>5. CASE provider \notin {"firebase", "resend"}
    BY <1>1, <1>2, <1>5 DEF OutcomeOf, TwilioOutcome, Intact, MayPass
  <1> QED
    BY <1>3, <1>4, <1>5

\* The end of a send leaves the invariant, whatever it reports within its policy.
LEMMA ReportStep ==
    ASSUME CallsIndInv, now' = now, cached' = cached, NEW a \in Answer,
           NEW provider \in Providers,
           NEW reported \in {"sent", "retry", "permanent"}, NEW accepted \in BOOLEAN,
           Report(provider, reported, accepted, a),
           Intact(a) => reported = "sent",
           reported = "sent" => accepted,
           reported = "retry" => MayPass(provider, a)
    PROVE  CallsIndInv'
  <1>1. /\ call' = NoCall
        /\ result' = [reported |-> reported, accepted |-> accepted, provider |-> provider,
                      answer |-> a]
    BY DEF Report
  <1>2. result' \in Result
    BY <1>1 DEF Result
  <1>3. NoCall \in Call /\ NoCall.began = 0 /\ NoCall.issuedAt = 0
    BY CallsAssumption DEF NoCall, Call, Providers, Time, Token, NoToken
  <1>4. CallsTypeOK'
    BY <1>1, <1>2, <1>3 DEF CallsIndInv, CallsTypeOK, Time
  <1>5. RetriesAreLimited'
    BY <1>1 DEF RetriesAreLimited, Intact, MayPass
  <1>6. TokenInUse'
    BY <1>1 DEF TokenInUse, NoCall, NoToken
  <1> QED
    BY <1>4, <1>5, <1>6 DEF CallsIndInv

\* A send begins; a cached token is taken while it is good for more than the margin.
LEMMA SendStep ==
    ASSUME CallsIndInv, NEW provider \in Providers, Send(provider)
    PROVE  CallsIndInv'
  <1> DEFINE c == [NoCall EXCEPT !.provider = provider, !.began = now,
                    !.pc = IF provider = "firebase" /\ ~Reusable THEN "token" ELSE "request",
                    !.token = IF provider = "firebase" /\ Reusable THEN cached ELSE NoToken,
                    !.reused = (provider = "firebase" /\ Reusable)]
  <1>1. now \in Time /\ now \in Nat /\ cached \in Token /\ cached.expiresAt <= cached.validUntil
    BY CallsAssumption DEF CallsIndInv, CallsTypeOK, Time
  <1>2. c \in Call
    <2>1. NoCall \in Call /\ NoToken \in Token
      BY CallsAssumption DEF NoCall, Call, Time, Token, NoToken, Providers
    <2> QED
      BY <1>1, <2>1 DEF Call
  <1>3. /\ c.began = now /\ c.issuedAt = 0
        /\ c.pc = IF provider = "firebase" /\ ~Reusable THEN "token" ELSE "request"
        /\ c.reused = (provider = "firebase" /\ Reusable)
        /\ c.token = IF provider = "firebase" /\ Reusable THEN cached ELSE NoToken
    BY DEF NoCall
  <1>4. call' = c /\ now' = now /\ cached' = cached /\ result' = result
    BY DEF Send
  <1> HIDE DEF c
  <1>5. CallsTypeOK'
    BY <1>1, <1>2, <1>3, <1>4 DEF CallsIndInv, CallsTypeOK
  <1>6. TokenInUse'
    <2>1. c.reused => c.token = cached /\ cached.expiresAt > c.began + Margin
      BY <1>3 DEF Reusable
    <2>2. c.token.expiresAt <= c.token.validUntil
      BY <1>1, <1>3 DEF NoToken
    <2>3. ~(c.pc \in {"token", "issued"} /\ c.reused)
      BY <1>3
    <2> QED
      BY <1>3, <1>4, <2>1, <2>2, <2>3 DEF TokenInUse
  <1> QED
    BY <1>4, <1>5, <1>6 DEF CallsIndInv, RetriesAreLimited

\* Google issues a token at some time after it was asked for one.
LEMMA IssueStep ==
    ASSUME CallsIndInv, NEW lifetime \in Lifetimes, IssueToken(lifetime)
    PROVE  CallsIndInv'
  <1> DEFINE c == [call EXCEPT !.pc = "issued", !.lifetime = lifetime, !.issuedAt = now]
  <1>1. now \in Time /\ call \in Call /\ call.began <= now /\ now \in Nat
    BY DEF CallsIndInv, CallsTypeOK, Time
  <1>2. /\ c \in Call /\ c.began = call.began /\ c.issuedAt = now
        /\ c.reused = call.reused /\ c.token = call.token
    BY <1>1 DEF Call
  <1>3. call' = c /\ now' = now /\ cached' = cached /\ result' = result
    BY DEF IssueToken
  <1> HIDE DEF c
  <1>4. CallsTypeOK'
    BY <1>1, <1>2, <1>3 DEF CallsIndInv, CallsTypeOK
  <1>5. TokenInUse'
    <2>1. TokenInUse /\ ~call.reused
      BY DEF CallsIndInv, TokenInUse, IssueToken
    <2> QED
      BY <1>1, <1>2, <1>3, <2>1 DEF TokenInUse
  <1> QED
    BY <1>3, <1>4, <1>5 DEF CallsIndInv, RetriesAreLimited

\* The process counts the lifetime from before it asked, and so never too long.
LEMMA ReceiveStep ==
    ASSUME CallsIndInv, ReceiveToken
    PROVE  CallsIndInv'
  <1> DEFINE a == [status |-> 200, body |-> "no id"]
             c == [call EXCEPT !.pc = "request", !.token = IssuedToken]
  <1>1. CASE Report("firebase", "permanent", FALSE, a) /\ UNCHANGED cached
    <2>1. a \in Answer /\ ~Intact(a) /\ now' = now /\ "firebase" \in Providers
      BY DEF Answer, Intact, ReceiveToken, Providers
    <2> QED
      BY <1>1, <2>1, ReportStep
  <1>2. CASE cached' = IssuedToken /\ call' = c /\ UNCHANGED result
    <2>1. /\ call \in Call /\ call.began <= call.issuedAt /\ now \in Time
          /\ call.began <= now /\ call.issuedAt <= now
      BY DEF CallsIndInv, CallsTypeOK, TokenInUse, ReceiveToken
    <2>2. /\ IssuedToken \in Token
          /\ IssuedToken.expiresAt <= IssuedToken.validUntil
      <3>1. call.began \in Nat /\ call.issuedAt \in Nat /\ call.lifetime \in Nat
        <4>1. call.began \in Time /\ call.issuedAt \in Time /\ call.lifetime \in Lifetimes \cup {0}
          BY <2>1 DEF Call
        <4>2. 0 \in Nat /\ Lifetimes \subseteq Nat
          BY CallsAssumption
        <4>3. call.lifetime \in Nat
          BY <4>1, <4>2, Zenon
        <4> QED
          BY <4>1, <4>3 DEF Time
      <3> QED
        BY <2>1, <3>1 DEF Token, IssuedToken
    <2>3. c \in Call /\ c.began = call.began /\ c.issuedAt = call.issuedAt
          /\ c.token = IssuedToken /\ c.reused = call.reused /\ c.pc = "request"
      BY <2>1, <2>2 DEF Call
    <2>4. now' = now
      BY DEF ReceiveToken
    <2> HIDE DEF c
    <2>5. CallsTypeOK'
      BY <1>2, <2>1, <2>2, <2>3, <2>4 DEF CallsIndInv, CallsTypeOK
    <2>6. ~call.reused
      BY DEF CallsIndInv, TokenInUse, ReceiveToken
    <2>7. TokenInUse'
      BY <1>2, <2>2, <2>3, <2>6 DEF TokenInUse
    <2> QED
      BY <1>2, <2>5, <2>7 DEF CallsIndInv, RetriesAreLimited
  <1> QED
    BY <1>1, <1>2 DEF ReceiveToken

\* Whatever happens to a send, and whenever.
THEOREM CallsInvariance == CallsSpec => []CallsIndInv
  <1>1. CallsInit => CallsIndInv
    BY CallsAssumption DEF CallsInit, CallsIndInv, CallsTypeOK, RetriesAreLimited, TokenInUse,
       NoCall, NoToken, Call, Token, Time, Result, Providers, NoAnswer, Answer, Intact
  <1>2. CallsIndInv /\ [CallsNext]_callVars => CallsIndInv'
    <2> SUFFICES ASSUME CallsIndInv, [CallsNext]_callVars PROVE CallsIndInv'
      OBVIOUS
    <2>1. CASE UNCHANGED callVars
      BY <2>1 DEF callVars, CallsIndInv, CallsTypeOK, RetriesAreLimited, TokenInUse, MayPass
    <2>2. CASE SendToConsole
      <3> DEFINE a == [status |-> 200, body |-> "id"]
      <3>1. /\ a \in Answer /\ "console" \in Providers
            /\ Report("console", "sent", TRUE, a) /\ now' = now /\ cached' = cached
        BY <2>2 DEF Answer, SendToConsole, Providers
      <3> QED
        BY <3>1, ReportStep
    <2>3. ASSUME NEW a \in Answer, TokenFails(a)
          PROVE  CallsIndInv'
      <3>1. "firebase" \in Providers /\ OutcomeOf("firebase", a) = FirebaseOutcome(a)
        BY DEF Providers, OutcomeOf
      <3>2. /\ FirebaseOutcome(a) \in {"sent", "retry", "permanent"}
            /\ FirebaseOutcome(a) = "sent" <=> Intact(a)
            /\ FirebaseOutcome(a) = "retry" => MayPass("firebase", a)
        BY <3>1, Verdicts
      <3>3. ~Intact(a) /\ Report("firebase", FirebaseOutcome(a), FALSE, a) /\ now' = now /\ cached' = cached
        BY <2>3 DEF TokenFails
      <3> QED
        BY <3>1, <3>2, <3>3, ReportStep
    <2>4. ASSUME NEW a \in Answer, NEW accepted \in BOOLEAN, ProviderAnswers(a, accepted)
          PROVE  CallsIndInv'
      <3>1. call.provider \in Providers
        BY DEF CallsIndInv, CallsTypeOK, Call
      <3>2. /\ OutcomeOf(call.provider, a) \in {"sent", "retry", "permanent"}
            /\ OutcomeOf(call.provider, a) = "sent" <=> Intact(a)
            /\ OutcomeOf(call.provider, a) = "retry" => MayPass(call.provider, a)
        BY <3>1, Verdicts
      <3>3. Intact(a) => accepted
        BY <2>4 DEF ProviderAnswers, Accepted, Intact
      <3>4. /\ Report(call.provider, OutcomeOf(call.provider, a), accepted, a)
            /\ now' = now /\ cached' = cached
        BY <2>4 DEF ProviderAnswers
      <3> QED
        BY <3>1, <3>2, <3>3, <3>4, ReportStep
    <2>5. CASE Tick
      <3>1. now \in Nat /\ now' = now + 1 /\ now' \in Time
        BY <2>5, CallsAssumption DEF Tick, CallsIndInv, CallsTypeOK, Time
      <3>2. CallsTypeOK'
        BY <2>5, <3>1 DEF Tick, CallsIndInv, CallsTypeOK, Call, Time
      <3> QED
        BY <2>5, <3>2 DEF Tick, CallsIndInv, RetriesAreLimited, TokenInUse
    <2> QED
      BY <2>1, <2>2, <2>3, <2>4, <2>5, SendStep, IssueStep, ReceiveStep DEF CallsNext
  <1> QED
    BY <1>1, <1>2, PTL DEF CallsSpec

\* The types, the limits on retries, and the safety margin of the cached token
\* (comment of FirebasePushProvider: "reuses it until shortly before expiration")
\* hold for every margin and every lifetime, however long a send takes.
THEOREM CallsAreSound == CallsSpec => []CallsInv
  <1>1. CallsIndInv => CachedTokenOutlastsMargin
    BY CallsAssumption
       DEF CallsIndInv, TokenInUse, CallsTypeOK, Call, Token, Time, CachedTokenOutlastsMargin
  <1>2. CallsIndInv => CallsInv
    BY <1>1 DEF CallsIndInv, CallsInv
  <1> QED
    BY <1>2, CallsInvariance, PTL

-----------------------------------------------------------------------------
(* OAuth state                                                             *)

\* By whichever clocks a state is dated and judged, the age that is computed is
\* off by no more than twice their error.
LEMMA AgeByTwoClocks ==
    ASSUME StateTypeOK, NEW p \in Processes, NEW l \in logins
    PROVE  /\ time \in Int /\ l.began \in Int /\ l.began <= time
           /\ Now(p) \in Int /\ l.issuedAt \in Int
           /\ time - l.began <= Now(p) - l.issuedAt + 2 * Skew
           /\ Now(p) - l.issuedAt <= time - l.began + 2 * Skew
           /\ l.issuedAt <= Now(p) + 2 * Skew
  <1>1. Skew \in Nat /\ MaxAge \in Nat /\ Ahead \in Nat /\ LastMoment \in Nat
    BY StateAssumption
  <1>2. /\ time \in 0 .. LastMoment /\ clock[p] \in Errors
        /\ l \in Login /\ l.began <= time /\ l.issuedAt - l.began \in Errors
    BY DEF StateTypeOK
  <1>3. /\ l.began \in 0 .. LastMoment
        /\ l.issuedAt \in (0 - Skew) .. (LastMoment + Skew)
    BY <1>2 DEF Login
  <1>4. /\ clock[p] \in Int /\ 0 - Skew <= clock[p] /\ clock[p] <= Skew
        /\ 0 - Skew <= l.issuedAt - l.began /\ l.issuedAt - l.began <= Skew
    BY <1>1, <1>2 DEF Errors
  <1> QED
    BY <1>1, <1>2, <1>3, <1>4 DEF Now

\* The redirect: a state is dated by the clock of the process that makes it.
LEMMA StoreStep ==
    ASSUME StateTypeOK, NEW p \in Processes, Store(p)
    PROVE  StateTypeOK'
  <1> DEFINE l == [issuedAt |-> Now(p), signedWith |-> secret[p], began |-> time]
  <1>1. Skew \in Nat /\ LastMoment \in Nat
    BY StateAssumption
  <1>2. time \in 0 .. LastMoment /\ clock[p] \in Errors /\ secret[p] \in Secrets
    BY DEF StateTypeOK
  <1>3. Now(p) - time \in Errors /\ Now(p) \in (0 - Skew) .. (LastMoment + Skew)
    BY <1>1, <1>2 DEF Now, Errors
  <1>4. l \in Login /\ l.began = time /\ l.issuedAt = Now(p)
    BY <1>2, <1>3 DEF Login
  <1>5. logins' = {l} /\ UNCHANGED <<time, clock, secret, verdict>>
    BY DEF Store
  <1> HIDE DEF l
  <1>6. time <= time
    BY <1>1, <1>2
  <1> QED
    BY <1>3, <1>4, <1>5, <1>6 DEF StateTypeOK

\* The callback of a login.
LEMMA VerifyStep ==
    ASSUME StateTypeOK, StatesLiveAsLong, NEW p \in Processes, NEW l \in logins, Verify(p, l)
    PROVE  StateTypeOK' /\ StatesLiveAsLong'
  <1>1. /\ time \in Int /\ l.began \in Int /\ l.began <= time
        /\ Now(p) \in Int /\ l.issuedAt \in Int
        /\ time - l.began <= Now(p) - l.issuedAt + 2 * Skew
        /\ Now(p) - l.issuedAt <= time - l.began + 2 * Skew
        /\ l.issuedAt <= Now(p) + 2 * Skew
    BY AgeByTwoClocks
  <1>2. Skew \in Nat /\ MaxAge \in Nat /\ Ahead \in Nat /\ LastMoment \in Nat
    BY StateAssumption
  <1>3. /\ UNCHANGED <<time, clock, secret, logins>>
        /\ verdict'.age = time - l.began
        /\ verdict'.ours = Signed(p, l)
        /\ verdict'.answer = IF ~Signed(p, l) THEN "invalid"
                             ELSE IF Timely(p, l) THEN "accepted" ELSE "expired"
    BY DEF Verify
  <1>4. verdict' \in Verdict
    <2>1. l.began \in 0 .. LastMoment /\ time \in 0 .. LastMoment
      BY DEF StateTypeOK, Login
    <2>2. time - l.began \in 0 .. LastMoment
      BY <1>1, <1>2, <2>1
    <2>3. Signed(p, l) \in BOOLEAN
      BY DEF Signed
    <2> QED
      BY <2>2, <2>3 DEF Verify, Verdict
  <1>5. ASSUME Signed(p, l) /\ Timely(p, l)
        PROVE  StatesLiveAsLong'
    <2>1. verdict'.answer = "accepted" /\ verdict'.ours = TRUE
      BY <1>3, <1>5 DEF Signed
    <2>2. verdict'.age <= MaxAge + 2 * Skew
      BY <1>1, <1>2, <1>3, <1>5 DEF Timely
    <2> QED
      BY <2>1, <2>2 DEF StatesLiveAsLong
  <1>6. ASSUME Signed(p, l) /\ ~Timely(p, l)
        PROVE  StatesLiveAsLong'
    <2>1. Now(p) - l.issuedAt > MaxAge \/ l.issuedAt > Now(p) + Ahead
      BY <1>1, <1>2, <1>6 DEF Timely
    <2>2. time - l.began > MaxAge - 2 * Skew \/ 2 * Skew > Ahead
      BY <1>1, <1>2, <2>1
    <2> QED
      <3>1. verdict'.answer = "expired"
        BY <1>3, <1>6
      <3>2. verdict'.age > MaxAge - 2 * Skew \/ 2 * Skew > Ahead
        BY <1>3, <2>2
      <3> QED
        BY <3>1, <3>2 DEF StatesLiveAsLong
  <1>7. ASSUME ~Signed(p, l)
        PROVE  StatesLiveAsLong'
    <2>1. verdict'.answer = "invalid"
      BY <1>3, <1>7
    <2> QED
      BY <2>1 DEF StatesLiveAsLong
  <1>8. StateTypeOK'
    BY <1>3, <1>4 DEF StateTypeOK
  <1> QED
    BY <1>5, <1>6, <1>7, <1>8

\* A state lives for its limit, give or take twice the error of the clocks, through
\* restarts and whichever process answers the callback (GoogleOAuthStateStore).
THEOREM StatesAreTimely == StateSpec => []StateInv
  <1>1. StateInit => StateInv
    <2>1. 0 \in 0 .. LastMoment
      BY StateAssumption
    <2> QED
      BY <2>1 DEF StateInit, StateInv, StateTypeOK, StatesLiveAsLong, Verdict
  <1>2. StateInv /\ [StateNext]_stateVars => StateInv'
    <2> SUFFICES ASSUME StateTypeOK, StatesLiveAsLong, [StateNext]_stateVars
                 PROVE  StateTypeOK' /\ StatesLiveAsLong'
      BY DEF StateInv
    <2>1. CASE UNCHANGED stateVars
      BY <2>1 DEF stateVars, StateTypeOK, StatesLiveAsLong
    <2>2. CASE TimePasses
      <3>1. /\ time' = time + 1 /\ time' \in 0 .. LastMoment
            /\ UNCHANGED <<clock, secret, logins, verdict>>
        BY <2>2, StateAssumption DEF TimePasses, StateTypeOK
      <3>2. \A l \in logins : l.began <= time'
        <4> SUFFICES ASSUME NEW l \in logins PROVE l.began <= time'
          OBVIOUS
        <4>1. l.began \in 0 .. LastMoment /\ l.began <= time /\ time \in 0 .. LastMoment
          BY DEF StateTypeOK, Login
        <4> QED
          BY <3>1, <4>1, StateAssumption
      <3> QED
        BY <3>1, <3>2 DEF StateTypeOK, StatesLiveAsLong
    <2>3. CASE VerifyForeign
      <3>1. 0 \in 0 .. LastMoment
        BY StateAssumption
      <3> QED
        BY <2>3, <3>1 DEF VerifyForeign, StateTypeOK, StatesLiveAsLong, Verdict
    <2>4. ASSUME NEW p \in Processes, Store(p)
          PROVE  StateTypeOK' /\ StatesLiveAsLong'
      <3>1. verdict' = verdict
        BY <2>4 DEF Store
      <3> QED
        BY <2>4, <3>1, StoreStep DEF StatesLiveAsLong
    <2>5. ASSUME NEW p \in Processes, Restart(p)
          PROVE  StateTypeOK' /\ StatesLiveAsLong'
      BY <2>5 DEF Restart, StateTypeOK, StatesLiveAsLong
    <2>6. ASSUME NEW l \in logins, Abandon(l)
          PROVE  StateTypeOK' /\ StatesLiveAsLong'
      BY <2>6 DEF Abandon, StateTypeOK, StatesLiveAsLong
    <2> QED
      BY <2>1, <2>2, <2>3, <2>4, <2>5, <2>6, VerifyStep DEF StateNext
  <1> QED
    BY <1>1, <1>2, PTL DEF StateSpec

-----------------------------------------------------------------------------
(* Settings and callbacks                                                  *)

\* What is up is valid and has a base URL without slashes, and a message that this
\* deployment has sent came from the provider that is switched on, with the URL
\* that is checked.
ConfigIndInv ==
    /\ ConfigInv
    /\ state = "up" => Valid(env) /\ env.base.slashes = 0
    /\ message.current =>
        /\ state = "up"
        /\ message.provider = "resend" => env.email = "resend"
        /\ message.provider = "twilio" => env.sms = "twilio" /\ message.url = env.base

\* Taking the slashes off a URL leaves it one, and leaves none where there was none.
LEMMA TrimmedURL ==
    ASSUME NEW url \in URL
    PROVE  /\ Trimmed(url) \in URL /\ Trimmed(url).slashes = 0
           /\ Trimmed(url) = NoURL <=> url = NoURL
           /\ url.slashes = 0 => Trimmed(url) = url
  <1>1. None \notin Hosts
    BY ConfigurationAssumption
  <1>2. CASE url = NoURL
    BY <1>2 DEF Trimmed, NoURL, URL
  <1>3. CASE url \in [host : Hosts, slashes : 0 .. 2]
    <2>1. /\ Trimmed(url) \in [host : Hosts, slashes : 0 .. 2]
          /\ Trimmed(url).slashes = 0 /\ Trimmed(url).host = url.host
      BY <1>3 DEF Trimmed
    <2>2. url # NoURL /\ Trimmed(url) # NoURL
      BY <1>1, <1>3, <2>1 DEF NoURL
    <2>3. url.slashes = 0 => Trimmed(url) = url
      BY <1>3 DEF Trimmed
    <2> QED
      BY <2>1, <2>2, <2>3 DEF URL
  <1> QED
    BY <1>2, <1>3 DEF URL

\* The environment as validateEnv returns it: valid as it was.
LEMMA NormalisedEnvironment ==
    ASSUME NEW e \in Environment
    PROVE  /\ Normalised(e) \in Environment /\ Normalised(e).base.slashes = 0
           /\ Valid(e) => Valid(Normalised(e))
  <1>1. /\ e.base \in URL
        /\ Normalised(e) \in Environment
        /\ Normalised(e).base = Trimmed(e.base)
        /\ Normalised(e).given = e.given /\ Normalised(e).google = e.google
        /\ Normalised(e).email = e.email /\ Normalised(e).sms = e.sms
        /\ Normalised(e).push = e.push
    <2>1. e.base \in URL
      BY DEF Environment
    <2>2. Trimmed(e.base) \in URL
      BY <2>1, TrimmedURL
    <2> QED
      BY <2>1, <2>2 DEF Normalised, Environment
  <1>2. Trimmed(e.base).slashes = 0 /\ (Trimmed(e.base) = NoURL <=> e.base = NoURL)
    BY <1>1, TrimmedURL
  <1> QED
    BY <1>1, <1>2 DEF Valid, Needs

\* A deployment that is up has what its providers read.
LEMMA UpIsComplete ==
    ASSUME ConfigIndInv, state = "up"
    PROVE  /\ env \in Environment /\ env.base \in URL /\ env.base.slashes = 0
           /\ env.email = "resend" => Resend \subseteq env.given
           /\ env.sms = "twilio" => Twilio \subseteq env.given /\ env.base # NoURL
           /\ env.push = "firebase" => Firebase \subseteq env.given
           /\ env.google => Google \subseteq env.given
  BY DEF ConfigIndInv, ConfigInv, ConfigTypeOK, Valid, Needs, Environment

\* Something is sent, or somebody logs in: what is read is there.
LEMMA SendKeeps ==
    ASSUME ConfigIndInv, SendEmail \/ SendSms \/ SendPush \/ GoogleLogin
    PROVE  ConfigIndInv'
  <1>1. /\ state = "up" /\ UNCHANGED <<state, env, heard>> /\ missing = FALSE
    BY DEF SendEmail, SendSms, SendPush, GoogleLogin, ConfigIndInv, ConfigInv, NeverMissing,
       ConfigTypeOK
  <1>2. /\ env.base \in URL /\ env.base.slashes = 0
        /\ env.email = "resend" => Resend \subseteq env.given
        /\ env.sms = "twilio" => Twilio \subseteq env.given /\ env.base # NoURL
        /\ env.push = "firebase" => Firebase \subseteq env.given
        /\ env.google => Google \subseteq env.given
    BY <1>1, UpIsComplete
  <1>3. ASSUME missing' = FALSE, message' \in Message,
               message' # message =>
                   /\ message'.provider = "resend" => env.email = "resend"
                   /\ message'.provider = "twilio" =>
                        env.sms = "twilio" /\ message'.url = env.base
        PROVE  ConfigIndInv'
    <2>1. Valid(env)' = Valid(env)
      BY <1>1 DEF Valid, Needs
    <2> QED
      BY <1>1, <1>3, <2>1 DEF ConfigIndInv, ConfigInv, ConfigTypeOK, NeverMissing,
         OwnCallbacksAreHeard
  <1>4. message \in Message
    BY DEF ConfigIndInv, ConfigInv, ConfigTypeOK
  <1>5. CASE SendEmail
    <2>1. CASE env.email = "resend"
      <3>1. message' = [provider |-> "resend", url |-> NoURL, current |-> TRUE]
        BY <1>5, <2>1 DEF SendEmail
      <3>2. missing' = FALSE
        BY <1>1, <1>2, <1>5, <2>1 DEF SendEmail, Reads, Resend
      <3>3. message' \in Message /\ message'.provider = "resend"
        BY <3>1 DEF Message, URL
      <3> QED
        BY <1>3, <2>1, <3>2, <3>3
    <2>2. CASE env.email # "resend"
      BY <1>1, <1>3, <1>4, <1>5, <2>2 DEF SendEmail
    <2> QED
      BY <2>1, <2>2
  <1>6. CASE SendSms
    <2>1. CASE env.sms = "twilio"
      <3>1. message' = [provider |-> "twilio", url |-> Trimmed(env.base), current |-> TRUE]
        BY <1>6, <2>1 DEF SendSms
      <3>2. missing' = FALSE
        BY <1>1, <1>2, <1>6, <2>1 DEF SendSms, Twilio
      <3>3. Trimmed(env.base) = env.base
        BY <1>2, TrimmedURL
      <3>4. message' \in Message /\ message'.provider = "twilio" /\ message'.url = env.base
        BY <1>2, <3>1, <3>3 DEF Message
      <3> QED
        BY <1>3, <2>1, <3>2, <3>4
    <2>2. CASE env.sms # "twilio"
      BY <1>1, <1>3, <1>4, <1>6, <2>2 DEF SendSms
    <2> QED
      BY <2>1, <2>2
  <1>7. CASE SendPush
    BY <1>1, <1>2, <1>3, <1>4, <1>7 DEF SendPush, Reads
  <1>8. CASE GoogleLogin
    BY <1>1, <1>2, <1>3, <1>4, <1>8 DEF GoogleLogin, Reads
  <1> QED
    BY <1>5, <1>6, <1>7, <1>8

\* A callback is answered: that of a message of this deployment is handled.
LEMMA CallbackKeeps ==
    ASSUME ConfigIndInv,
           ResendWebhook \/ (\E host \in Hosts : TwilioCallback(host)) \/ Forged
    PROVE  ConfigIndInv'
  <1>1. /\ state = "up" /\ UNCHANGED <<state, env, message, missing>>
        /\ message \in Message
    BY DEF ResendWebhook, TwilioCallback, Forged, Hear, ConfigIndInv, ConfigInv, ConfigTypeOK
  <1>2. /\ env.base \in URL /\ env.base.slashes = 0
        /\ env.email = "resend" => Resend \subseteq env.given
        /\ env.sms = "twilio" => Twilio \subseteq env.given /\ env.base # NoURL
    BY <1>1, UpIsComplete
  <1>3. ASSUME NEW answer \in Answers, NEW current \in BOOLEAN,
               heard' = [answer |-> answer, current |-> current],
               current => answer = "handled"
        PROVE  ConfigIndInv'
    <2>1. Valid(env)' = Valid(env)
      BY <1>1 DEF Valid, Needs
    <2> QED
      BY <1>1, <1>3, <2>1 DEF ConfigIndInv, ConfigInv, ConfigTypeOK, NeverMissing,
         OwnCallbacksAreHeard
  <1>4. message.current \in BOOLEAN
    BY <1>1 DEF Message
  <1>5. CASE ResendWebhook
    <2>1. message.current =>
              "RESEND_WEBHOOK_SECRET" \in env.given /\ "RESEND_API_KEY" \in env.given
      BY <1>2, <1>5 DEF ResendWebhook, ConfigIndInv, Resend
    <2> QED
      BY <1>3, <1>4, <1>5, <2>1 DEF ResendWebhook, Hear, Answers
  <1>6. ASSUME NEW host \in Hosts, TwilioCallback(host)
        PROVE  ConfigIndInv'
    <2>1. message.current =>
              "TWILIO_AUTH_TOKEN" \in env.given /\ env.base # NoURL /\ message.url = env.base
      BY <1>2, <1>6 DEF TwilioCallback, ConfigIndInv, Twilio
    <2>2. env.base # NoURL => SignedURL(host) = env.base
      <3>1. env.base # NoURL => env.base \in [host : Hosts, slashes : 0 .. 2]
        BY <1>2 DEF URL
      <3> QED
        BY <1>2, <3>1 DEF SignedURL
    <2> QED
      BY <1>3, <1>4, <1>6, <2>1, <2>2 DEF TwilioCallback, Hear, Answers
  <1>7. CASE Forged
    BY <1>3, <1>7 DEF Forged, Answers
  <1> QED
    BY <1>5, <1>6, <1>7

\* Whatever is deployed, sent and called back, what has started lacks no setting,
\* and hears the callbacks of its own messages (validateEnv, resolveSignatureUrl).
THEOREM SettingsAreComplete == ConfigSpec => []ConfigInv
  <1>1. ConfigInit => ConfigIndInv
    <2> SUFFICES ASSUME ConfigInit PROVE ConfigIndInv
      OBVIOUS
    <2>1. message \in Message /\ message.current = FALSE
      BY DEF ConfigInit, NoMessage, Message, URL
    <2>2. heard \in [answer : Answers, current : BOOLEAN] /\ heard.current = FALSE
      BY DEF ConfigInit, Answers
    <2>3. state = "down" /\ env \in Environment /\ missing = FALSE
      BY ConfigurationAssumption DEF ConfigInit
    <2> QED
      BY <2>1, <2>2, <2>3 DEF ConfigIndInv, ConfigInv, ConfigTypeOK, NeverMissing,
         OwnCallbacksAreHeard
  <1>2. ConfigIndInv /\ [ConfigNext]_configVars => ConfigIndInv'
    <2> SUFFICES ASSUME ConfigIndInv, [ConfigNext]_configVars PROVE ConfigIndInv'
      OBVIOUS
    <2>1. CASE UNCHANGED configVars
      BY <2>1 DEF configVars, ConfigIndInv, ConfigInv, ConfigTypeOK, NeverMissing,
         OwnCallbacksAreHeard, Valid, Needs
    <2>2. CASE Start
      <3>1. env \in Environment /\ message.current = FALSE /\ state = "down"
        BY <2>2 DEF Start, ConfigIndInv, ConfigInv, ConfigTypeOK, Message
      <3>2. CASE Valid(env)
        <4>1. env' = Normalised(env) /\ state' = "up" /\ UNCHANGED <<message, heard, missing>>
          BY <2>2, <3>2 DEF Start
        <4>2. \A e : e = Normalised(env) =>
                  e \in Environment /\ e.base.slashes = 0 /\ Valid(e)
          BY <3>1, <3>2, NormalisedEnvironment
        <4>3. Valid(env)'
          BY <4>1, <4>2 DEF Valid, Needs
        <4> QED
          BY <3>1, <4>1, <4>2, <4>3 DEF ConfigIndInv, ConfigInv, ConfigTypeOK, NeverMissing,
             OwnCallbacksAreHeard
      <3>3. CASE ~Valid(env)
        BY <2>2, <3>1, <3>3 DEF Start, ConfigIndInv, ConfigInv, ConfigTypeOK, NeverMissing,
           OwnCallbacksAreHeard
      <3> QED
        BY <3>2, <3>3
    <2>3. ASSUME NEW e \in Environments, Deploy(e)
          PROVE  ConfigIndInv'
      <3>1. message' \in Message /\ message'.current = FALSE
        BY <2>3 DEF Deploy, ConfigIndInv, ConfigInv, ConfigTypeOK, Message
      <3>2. heard' \in [answer : Answers, current : BOOLEAN] /\ heard'.current = FALSE
        BY <2>3 DEF Deploy, ConfigIndInv, ConfigInv, ConfigTypeOK
      <3> QED
        BY <2>3, <3>1, <3>2, ConfigurationAssumption DEF Deploy, ConfigIndInv, ConfigInv,
           ConfigTypeOK, NeverMissing, OwnCallbacksAreHeard
    <2> QED
      BY <2>1, <2>2, <2>3, SendKeeps, CallbackKeeps DEF ConfigNext
  <1>3. ConfigIndInv => ConfigInv
    BY DEF ConfigIndInv
  <1> QED
    BY <1>1, <1>2, <1>3, PTL DEF ConfigSpec

-----------------------------------------------------------------------------
(* Lists, dashboard and history                                            *)

\* The rows before a row in the order of creation, and their number.
Before(ascending, j, i) == IF ascending THEN j < i ELSE i < j

Earlier(S, ascending, i) == {j \in S : Before(ascending, j, i)}

Position(S, ascending, i) == Cardinality(Earlier(S, ascending, i))

\* What a client has not seen of the rows it began with is still in the list, and
\* not before the page that it reads next.
PassOnItsWay ==
    pass.sort = "createdAt" /\ ~pass.shrunk =>
        /\ pass.pc = "ask" => \A i \in pass.begin :
            /\ i \in Matching(pass.filter)
            /\ \/ i \in pass.seen
               \/ (pass.page - 1) * PageSize
                    <= Position(Matching(pass.filter), pass.ascending, i)
        /\ pass.pc = "count" => \A i \in pass.begin :
            /\ i \in Matching(pass.filter)
            /\ \/ i \in pass.seen \cup pass.items
               \/ pass.page * PageSize
                    <= Position(Matching(pass.filter), pass.ascending, i)
        /\ pass.pc = "ended" => pass.begin \subseteq pass.seen

\* While nothing is written, what the queries of a dashboard have found is so.
DashboardIsCurrent ==
    dashboard.quiet =>
        /\ dashboard.pc \in {"counts", "answered"} => dashboard.count = CountOf(There)
        /\ dashboard.pc \in {"recent", "answered"} =>
                dashboard.recent = Newest /\ dashboard.of = CountOf(Newest)

\* A notification that was attempted when it was looked up is so, or gone.
HistoryIsOfItem ==
    /\ history.pc # "idle" => history.item \in Items
    /\ history.pc # "idle" /\ history.attempted =>
            row[history.item] \in {"SENT", "FAILED", "gone"}
    /\ HistoryIsHonest

ListIndInv == ListTypeOK /\ PassOnItsWay /\ DashboardIsCurrent /\ HistoryIsOfItem

-----------------------------------------------------------------------------

\* Sets of rows are finite.
LEMMA FiniteRows ==
    ASSUME NEW S \in SUBSET Items
    PROVE  IsFiniteSet(S) /\ Cardinality(S) \in Nat
  BY ListAssumption, FS_Subset, FS_CardinalityType

\* Some of the rows are no more than all.
LEMMA FewerRows ==
    ASSUME NEW S \in SUBSET Items, NEW T \in SUBSET S
    PROVE  /\ Cardinality(T) <= Cardinality(S) /\ T \in SUBSET Items
           /\ Cardinality(T) \in Nat /\ Cardinality(S) \in Nat
           /\ T # S => Cardinality(T) < Cardinality(S)
  <1>1. IsFiniteSet(S) /\ Cardinality(S) \in Nat
    BY FiniteRows
  <1>2. T \in SUBSET Items
    OBVIOUS
  <1>3. Cardinality(T) \in Nat
    BY <1>2, FiniteRows
  <1>4. Cardinality(T) <= Cardinality(S) /\ (Cardinality(S) = Cardinality(T) => S = T)
    BY <1>1, FS_Subset
  <1> QED
    BY <1>1, <1>2, <1>3, <1>4

\* A function that takes rows to different numbers below n takes at most n.
LEMMA NumbersBelow ==
    ASSUME NEW S \in SUBSET Items, NEW o, NEW m \in Nat, NEW n \in Int,
           \A i \in S : o[i] \in m .. n, \A i, j \in S : o[i] = o[j] => i = j
    PROVE  Cardinality(S) <= IF m > n THEN 0 ELSE n - m + 1
  <1> DEFINE f == [i \in S |-> o[i]]
  <1>1. f \in [S -> m .. n] /\ \A i, j \in S : f[i] = f[j] => i = j
    OBVIOUS
  <1>2. f \in Injection(S, m .. n)
    BY <1>1, Fun_IsInj
  <1>3. IsFiniteSet(m .. n) /\ Cardinality(m .. n) = IF m > n THEN 0 ELSE n - m + 1
    BY FS_Interval
  <1> QED
    BY <1>2, <1>3, FS_Injection

\* The rows before one, those after it, and itself are all of them.
LEMMA RowsAround ==
    ASSUME NEW S \in SUBSET Items, NEW ascending \in BOOLEAN, NEW i \in S
    PROVE  /\ Earlier(S, ascending, i) \in SUBSET S
           /\ Earlier(S, ~ascending, i) \in SUBSET S
           /\ Position(S, ascending, i) \in Nat /\ Position(S, ~ascending, i) \in Nat
           /\ Position(S, ascending, i) + Position(S, ~ascending, i) + 1 = Cardinality(S)
           /\ Position(S, ascending, i) < Cardinality(S)
  <1> DEFINE A == Earlier(S, ascending, i)
             B == Earlier(S, ~ascending, i)
  <1>1. S \subseteq Nat /\ A \in SUBSET Items /\ B \in SUBSET Items
    BY ListAssumption DEF Earlier
  <1>2. A \cap B = {} /\ (A \cup B) \cup {i} = S /\ i \notin A \cup B
    <2>1. \A j \in S : j \in Int /\ i \in Int
      BY <1>1
    <2>2. \A j \in S : j \in A \/ j \in B \/ j = i
      BY <2>1 DEF Earlier, Before
    <2>3. \A j \in S : ~(j \in A /\ j \in B)
      BY <2>1 DEF Earlier, Before
    <2>4. i \notin A /\ i \notin B
      BY <2>1 DEF Earlier, Before
    <2>5. A \subseteq S /\ B \subseteq S
      BY DEF Earlier
    <2> HIDE DEF A, B
    <2> QED
      BY <2>2, <2>3, <2>4, <2>5
  <1>3. /\ IsFiniteSet(A) /\ IsFiniteSet(B)
        /\ Cardinality(A) \in Nat /\ Cardinality(B) \in Nat
    BY <1>1, FiniteRows
  <1>4. A \in SUBSET S /\ B \in SUBSET S
    BY DEF Earlier
  <1> HIDE DEF A, B
  <1>5. IsFiniteSet(A \cup B) /\ Cardinality(A \cup B) = Cardinality(A) + Cardinality(B)
    <2>1. Cardinality(A \cap B) = 0
      BY <1>2, FS_EmptySet
    <2>2. /\ IsFiniteSet(A \cup B)
          /\ Cardinality(A \cup B) = Cardinality(A) + Cardinality(B) - Cardinality(A \cap B)
      BY <1>3, FS_Union
    <2> QED
      BY <1>3, <2>1, <2>2
  <1>6. Cardinality(S) = Cardinality(A) + Cardinality(B) + 1
    BY <1>2, <1>5, FS_AddElement
  <1> QED
    BY <1>3, <1>4, <1>6 DEF Position, A, B

\* In the order of creation there is one position for each row.
LEMMA OrderIsPosition ==
    ASSUME NEW S \in SUBSET Items, NEW ascending \in BOOLEAN,
           NEW o \in Orders(S, "createdAt", ascending), NEW i \in S
    PROVE  o[i] = Position(S, ascending, i) /\ DOMAIN o = S
  <1> DEFINE n == Cardinality(S)
             A == Earlier(S, ascending, i)
             B == Earlier(S, ~ascending, i)
  <1>1. /\ S \subseteq Nat /\ n \in Nat
        /\ A \in SUBSET S /\ B \in SUBSET S
        /\ Cardinality(A) \in Nat /\ Cardinality(B) \in Nat
        /\ Cardinality(A) + Cardinality(B) + 1 = n
    BY RowsAround, FiniteRows, ListAssumption DEF Position
  <1>2. /\ o \in [S -> 0 .. n - 1]
        /\ \A j, k \in S : o[j] = o[k] => j = k
        /\ \A j, k \in S : j < k => IF ascending THEN o[j] < o[k] ELSE o[k] < o[j]
    BY DEF Orders, Key
  <1>3. \A j \in A : o[j] \in 0 .. o[i] - 1
    BY <1>1, <1>2 DEF Earlier, Before
  <1>4. \A j \in B : o[j] \in o[i] + 1 .. n - 1
    BY <1>1, <1>2 DEF Earlier, Before
  <1>5. o[i] \in Nat /\ o[i] <= n - 1
    BY <1>1, <1>2
  <1> HIDE DEF n, A, B
  <1>6. Cardinality(A) <= o[i]
    <2>1. Cardinality(A) <= IF 0 > o[i] - 1 THEN 0 ELSE (o[i] - 1) - 0 + 1
      <3>1. 0 \in Nat /\ o[i] - 1 \in Int /\ A \in SUBSET Items
        BY <1>1, <1>5
      <3>2. \A j, k \in A : o[j] = o[k] => j = k
        BY <1>1, <1>2
      <3> QED
        BY <1>3, <3>1, <3>2, NumbersBelow
    <2> QED
      BY <1>1, <1>5, <2>1
  <1>7. Cardinality(B) <= n - 1 - o[i]
    <2>1. Cardinality(B) <= IF o[i] + 1 > n - 1 THEN 0 ELSE (n - 1) - (o[i] + 1) + 1
      <3>1. o[i] + 1 \in Nat /\ n - 1 \in Int /\ B \in SUBSET Items
        BY <1>1, <1>5
      <3>2. \A j, k \in B : o[j] = o[k] => j = k
        BY <1>1, <1>2
      <3> QED
        BY <1>4, <3>1, <3>2, NumbersBelow
    <2> QED
      BY <1>1, <1>5, <2>1
  <1>8. o[i] = Cardinality(A)
    BY <1>1, <1>5, <1>6, <1>7
  <1> QED
    BY <1>2, <1>8 DEF A, Position

\* More rows before it move a row back.
LEMMA PositionsGrow ==
    ASSUME NEW S \in SUBSET Items, NEW T \in SUBSET S, NEW ascending \in BOOLEAN, NEW i
    PROVE  Position(T, ascending, i) <= Position(S, ascending, i)
  <1>1. /\ Earlier(S, ascending, i) \in SUBSET Items
        /\ Earlier(T, ascending, i) \in SUBSET Earlier(S, ascending, i)
    BY DEF Earlier
  <1> QED
    BY <1>1, FewerRows DEF Position

\* The pages up to the last hold all the rows.
LEMMA PagesHoldAll ==
    ASSUME NEW total \in Nat, NEW page \in Nat, ~HasNextPage(page, total)
    PROVE  total <= page * PageSize
  <1> DEFINE x == total + PageSize - 1
             d == x \div PageSize
  <1>1. PageSize \in Nat \ {0} /\ x \in Nat
    BY ListAssumption
  <1>2. ASSUME NEW a \in Nat, NEW r \in Nat \ {0}
        PROVE  a \div r \in Nat /\ a < r * (a \div r) + r
    OBVIOUS
  <1>3. d \in Nat /\ x < PageSize * d + PageSize
    BY <1>1, <1>2
  <1>4. d <= page
    BY <1>3 DEF HasNextPage, TotalPages
  <1> HIDE DEF x, d
  <1>5. PageSize * d <= page * PageSize
    BY <1>1, <1>3, <1>4
  <1>6. x = total + PageSize - 1
    BY DEF x
  <1>7. PageSize * d \in Nat /\ page * PageSize \in Nat
    BY <1>1, <1>3
  <1> QED
    BY <1>1, <1>3, <1>5, <1>6, <1>7

-----------------------------------------------------------------------------

\* A row that is written: while the list loses none, nobody is overtaken by more
\* than the rows that were there; what was attempted is not pending again.
LEMMA WriteStep ==
    ASSUME ListIndInv, NEW i \in Items, NEW status \in Statuses \cup {"gone"},
           Write(i, status), row[i] \in Statuses \cup {"none"},
           status = "PENDING" => row[i] = "none"
    PROVE  ListIndInv'
  <1> DEFINE M == Matching(pass.filter)
             lost == /\ i \in M /\ status # pass.filter
                     /\ pass.filter # "all" \/ status = "gone"
  <1>1. /\ row \in [Items -> Statuses \cup {"none", "gone"}]
        /\ pass \in PassRecord /\ dashboard \in Dashboard /\ history \in History
    BY DEF ListIndInv, ListTypeOK
  <1>2. /\ row' \in [Items -> Statuses \cup {"none", "gone"}] /\ row'[i] = status
        /\ \A j \in Items \ {i} : row'[j] = row[j]
        /\ history' = history
    BY <1>1 DEF Write
  <1>3. /\ pass' \in PassRecord
        /\ pass'.pc = pass.pc /\ pass'.filter = pass.filter /\ pass'.sort = pass.sort
        /\ pass'.ascending = pass.ascending /\ pass'.page = pass.page
        /\ pass'.items = pass.items /\ pass'.begin = pass.begin /\ pass'.seen = pass.seen
        /\ pass'.shrunk <=> pass.shrunk \/ lost
    <2>1. pass' = [pass EXCEPT !.shrunk = pass.shrunk \/ lost]
      BY DEF Write
    <2>2. (pass.shrunk \/ lost) \in BOOLEAN
      BY <1>1 DEF PassRecord
    <2> HIDE DEF lost
    <2> QED
      BY <1>1, <2>1, <2>2 DEF PassRecord
  <1>4. dashboard' \in Dashboard /\ dashboard'.quiet = FALSE
    BY <1>1 DEF Write, Dashboard
  <1>5. ListTypeOK'
    BY <1>1, <1>2, <1>3, <1>4 DEF ListTypeOK
  <1>6. DashboardIsCurrent'
    BY <1>4 DEF DashboardIsCurrent
  <1>7. HistoryIsOfItem'
    <2>1. ASSUME history.pc # "idle", history.attempted
          PROVE  row'[history.item] \in {"SENT", "FAILED", "gone"}
      <3>1. history.item \in Items /\ row[history.item] \in {"SENT", "FAILED", "gone"}
        BY <2>1 DEF ListIndInv, HistoryIsOfItem
      <3>2. history.item = i => status # "PENDING"
        BY <3>1
      <3> QED
        BY <1>2, <3>1, <3>2 DEF Statuses
    <2>2. HistoryIsHonest'
      <3> SUFFICES ASSUME history.pc = "answered", history.answer = "empty",
                          history.attempted
                   PROVE  row'[history.item] = "gone"
        BY <1>2 DEF HistoryIsHonest
      <3>1. history.item \in Items /\ row[history.item] = "gone"
        BY DEF ListIndInv, HistoryIsOfItem, HistoryIsHonest
      <3>2. history.item # i
        BY <3>1 DEF Statuses
      <3> QED
        BY <1>2, <3>1, <3>2
    <2> QED
      BY <1>2, <2>1, <2>2 DEF ListIndInv, HistoryIsOfItem
  <1>8. PassOnItsWay'
    <2> SUFFICES ASSUME pass.sort = "createdAt", ~pass'.shrunk
                 PROVE  PassOnItsWay'
      BY <1>3 DEF PassOnItsWay
    <2> DEFINE N == Matching(pass.filter)'
    <2>1. M \in SUBSET N /\ N \in SUBSET Items
      BY <1>1, <1>2, <1>3 DEF Matching, There, Statuses
    <2>2. \A j \in Items : Position(M, pass.ascending, j) \in Nat
                             /\ Position(N, pass.ascending, j) \in Nat
      <3>1. ASSUME NEW S \in SUBSET Items, NEW j \in Items
            PROVE  Position(S, pass.ascending, j) \in Nat
        <4>1. Earlier(S, pass.ascending, j) \in SUBSET Items
          BY DEF Earlier
        <4> QED
          BY <4>1, FiniteRows DEF Position
      <3> QED
        BY <2>1, <3>1
    <2>3. \A j \in Items :
            Position(M, pass.ascending, j) <= Position(N, pass.ascending, j)
      BY <1>1, <2>1, PositionsGrow DEF PassRecord
    <2>4. pass.begin \subseteq Items /\ pass.page \in Nat /\ PageSize \in Nat
      BY <1>1, ListAssumption DEF PassRecord
    <2>5. /\ pass.page * PageSize \in Int /\ (pass.page - 1) * PageSize \in Int
      BY <2>4
    <2>6. ASSUME NEW j \in pass.begin, NEW b \in Int, b <= Position(M, pass.ascending, j)
          PROVE  b <= Position(N, pass.ascending, j)
      BY <2>2, <2>3, <2>4, <2>6
    <2> HIDE DEF M
    <2>7. /\ pass.pc = "ask" => \A j \in pass.begin :
            /\ j \in N
            /\ \/ j \in pass.seen
               \/ (pass.page - 1) * PageSize <= Position(N, pass.ascending, j)
          /\ pass.pc = "count" => \A j \in pass.begin :
            /\ j \in N
            /\ \/ j \in pass.seen \cup pass.items
               \/ pass.page * PageSize <= Position(N, pass.ascending, j)
          /\ pass.pc = "ended" => pass.begin \subseteq pass.seen
      BY <1>3, <2>1, <2>5, <2>6 DEF ListIndInv, PassOnItsWay, M
    <2> QED
      BY <1>3, <2>7 DEF PassOnItsWay
  <1> QED
    BY <1>5, <1>6, <1>7, <1>8 DEF ListIndInv

\* The rows that match are some of the rows.
LEMMA MatchingRows == \A f : Matching(f) \in SUBSET Items
  BY DEF Matching, There

\* A step of the pass alone.
LEMMA PassStep ==
    ASSUME ListIndInv, NEW p \in PassRecord, SetPass(p),
           PassOnItsWay'
    PROVE  ListIndInv'
  <1>1. pass' = p /\ UNCHANGED <<row, dashboard, history>>
    BY DEF SetPass
  <1>2. ListTypeOK'
    BY <1>1 DEF ListIndInv, ListTypeOK
  <1>3. DashboardIsCurrent'
    BY <1>1 DEF ListIndInv, DashboardIsCurrent, CountOf, Newest, There
  <1>4. HistoryIsOfItem'
    BY <1>1 DEF ListIndInv, HistoryIsOfItem, HistoryIsHonest
  <1> QED
    BY <1>2, <1>3, <1>4 DEF ListIndInv

\* A pass begins with the rows that match.
LEMMA StartPassStep ==
    ASSUME ListIndInv, NEW f \in StatusFilters, NEW s \in {"createdAt", "channel"},
           NEW a \in BOOLEAN, StartPass(f, s, a)
    PROVE  ListIndInv'
  <1> DEFINE p == [NoPass EXCEPT !.pc = "ask", !.filter = f, !.sort = s,
                       !.ascending = a, !.page = 1, !.begin = Matching(f)]
  <1>1. Matching(f) \in SUBSET Items /\ SetPass(p) /\ row' = row
    BY MatchingRows DEF StartPass, SetPass
  <1>2. /\ p \in PassRecord /\ p.pc = "ask" /\ p.filter = f /\ p.page = 1
        /\ p.ascending = a /\ p.begin = Matching(f)
    BY <1>1 DEF NoPass, PassRecord, StatusFilters
  <1> HIDE DEF p
  <1>3. pass' = p
    BY <1>1 DEF SetPass
  <1>4. Matching(f)' = Matching(f) /\ Matching(pass.filter)' = Matching(f)
    BY <1>1, <1>2, <1>3 DEF Matching, There
  <1>5. \A i \in Matching(f) : (1 - 1) * PageSize <= Position(Matching(f), a, i)
    <2>1. PageSize \in Nat
      BY ListAssumption
    <2>2. ASSUME NEW i \in Matching(f)
          PROVE  Position(Matching(f), a, i) \in Nat
      BY <1>1, RowsAround
    <2> QED
      BY <2>1, <2>2
  <1>6. PassOnItsWay'
    BY <1>2, <1>3, <1>4, <1>5 DEF PassOnItsWay
  <1> QED
    BY <1>1, <1>2, <1>6, PassStep

\* A page is read: what it does not hold lies before it or behind it.
LEMMA FindPageStep ==
    ASSUME ListIndInv, FindPage
    PROVE  ListIndInv'
  <1> DEFINE M == Matching(pass.filter)
  <1>1. pass \in PassRecord /\ pass.pc = "ask" /\ M \in SUBSET Items
    BY MatchingRows DEF FindPage, ListIndInv, ListTypeOK
  <1>2. PICK o \in Orders(M, pass.sort, pass.ascending) :
            SetPass([pass EXCEPT !.pc = "count", !.items = Page(o, pass.page)])
    BY DEF FindPage
  <1> DEFINE p == [pass EXCEPT !.pc = "count", !.items = Page(o, pass.page)]
  <1>3. Page(o, pass.page) \in SUBSET Items
    BY <1>1 DEF Page, Orders
  <1>4. /\ p \in PassRecord /\ p.pc = "count" /\ p.items = Page(o, pass.page)
        /\ p.filter = pass.filter /\ p.sort = pass.sort /\ p.ascending = pass.ascending
        /\ p.page = pass.page /\ p.begin = pass.begin /\ p.seen = pass.seen
        /\ p.shrunk = pass.shrunk
    BY <1>1, <1>3 DEF PassRecord
  <1>5. SetPass(p)
    BY <1>2
  <1> HIDE DEF p
  <1>6. pass' = p /\ row' = row
    BY <1>5 DEF SetPass
  <1>7. Matching(pass.filter)' = M
    BY <1>4, <1>6 DEF Matching, There
  <1>8. PassOnItsWay'
    <2> SUFFICES ASSUME pass.sort = "createdAt", ~pass.shrunk, NEW i \in pass.begin
                 PROVE  /\ i \in M
                        /\ \/ i \in pass.seen \cup Page(o, pass.page)
                           \/ pass.page * PageSize <= Position(M, pass.ascending, i)
      BY <1>4, <1>6, <1>7 DEF PassOnItsWay
    <2>1. /\ i \in M
          /\ \/ i \in pass.seen
             \/ (pass.page - 1) * PageSize <= Position(M, pass.ascending, i)
      BY <1>1 DEF ListIndInv, PassOnItsWay
    <2>2. o[i] = Position(M, pass.ascending, i) /\ DOMAIN o = M
      <3>1. o \in Orders(M, "createdAt", pass.ascending) /\ pass.ascending \in BOOLEAN
        BY <1>1, <1>2 DEF PassRecord
      <3> QED
        BY <1>1, <2>1, <3>1, OrderIsPosition
    <2>3. Position(M, pass.ascending, i) \in Nat
      BY <1>1, <2>1, RowsAround DEF PassRecord
    <2>4. pass.page * PageSize \in Int
      BY <1>1, ListAssumption DEF PassRecord
    <2>5. ASSUME (pass.page - 1) * PageSize <= o[i], o[i] < pass.page * PageSize
          PROVE  i \in Page(o, pass.page)
      BY <2>1, <2>2, <2>5 DEF Page
    <2> QED
      BY <2>1, <2>2, <2>3, <2>4, <2>5
  <1> QED
    BY <1>4, <1>5, <1>8, PassStep

\* The rows are counted: when there is no next page, none is behind this one.
LEMMA CountStep ==
    ASSUME ListIndInv, Count
    PROVE  ListIndInv'
  <1> DEFINE M == Matching(pass.filter)
             next == HasNextPage(pass.page, Cardinality(M))
             pc == IF next THEN "ask" ELSE "ended"
             page == IF next THEN pass.page + 1 ELSE pass.page
             p == [pass EXCEPT !.seen = pass.seen \cup pass.items, !.items = {},
                       !.pc = pc, !.page = page]
  <1>1. /\ pass \in PassRecord /\ pass.pc = "count" /\ M \in SUBSET Items
        /\ pass.page \in Nat /\ PageSize \in Nat
    BY MatchingRows, ListAssumption DEF Count, ListIndInv, ListTypeOK, PassRecord
  <1>2. Cardinality(M) \in Nat
    BY <1>1, FiniteRows
  <1>3. SetPass(p)
    BY DEF Count
  <1>4. pc \in {"ask", "ended"} /\ page \in Nat
    BY <1>1
  <1> HIDE DEF next, pc, page
  <1>5. /\ p \in PassRecord /\ p.pc = pc /\ p.page = page
        /\ p.filter = pass.filter /\ p.sort = pass.sort /\ p.ascending = pass.ascending
        /\ p.begin = pass.begin /\ p.seen = pass.seen \cup pass.items
        /\ p.shrunk = pass.shrunk
    BY <1>1, <1>4 DEF PassRecord
  <1> HIDE DEF p
  <1>6. pass' = p /\ row' = row
    BY <1>3 DEF SetPass
  <1>7. Matching(pass.filter)' = M
    BY <1>5, <1>6 DEF Matching, There
  <1>8. PassOnItsWay'
    <2> SUFFICES ASSUME pass.sort = "createdAt", ~pass.shrunk
                 PROVE  PassOnItsWay'
      BY <1>5, <1>6 DEF PassOnItsWay
    <2>1. \A i \in pass.begin :
            /\ i \in M
            /\ \/ i \in pass.seen \cup pass.items
               \/ pass.page * PageSize <= Position(M, pass.ascending, i)
      BY <1>1 DEF ListIndInv, PassOnItsWay
    <2>2. CASE next
      <3>1. (pass.page + 1) - 1 = pass.page
        BY <1>1
      <3>2. p.pc = "ask" /\ p.page - 1 = pass.page
        BY <1>5, <2>2, <3>1 DEF pc, page
      <3> QED
        BY <1>5, <1>6, <1>7, <2>1, <3>2 DEF PassOnItsWay
    <2>3. CASE ~next
      <3>1. Cardinality(M) <= pass.page * PageSize
        BY <1>1, <1>2, <2>3, PagesHoldAll DEF next
      <3>2. ASSUME NEW i \in pass.begin
            PROVE  i \in pass.seen \cup pass.items
        <4>1. i \in M
          BY <2>1
        <4>2. /\ Position(M, pass.ascending, i) \in Nat
              /\ Position(M, pass.ascending, i) < Cardinality(M)
          BY <1>1, <4>1, RowsAround DEF PassRecord
        <4>3. pass.page * PageSize \in Int
          BY <1>1
        <4>4. ~(pass.page * PageSize <= Position(M, pass.ascending, i))
          BY <1>2, <3>1, <4>2, <4>3
        <4> QED
          BY <2>1, <4>4
      <3> QED
        BY <1>5, <1>6, <2>3, <3>2 DEF PassOnItsWay, pc
    <2> QED
      BY <2>2, <2>3
  <1> QED
    BY <1>3, <1>5, <1>8, PassStep

\* The client is done.
LEMMA EndPassStep ==
    ASSUME ListIndInv, EndPass
    PROVE  ListIndInv'
  <1>1. NoPass \in PassRecord /\ NoPass.pc = "idle" /\ SetPass(NoPass)
    BY DEF EndPass, NoPass, PassRecord, StatusFilters
  <1>2. PassOnItsWay'
    BY <1>1 DEF SetPass, PassOnItsWay
  <1> QED
    BY <1>1, <1>2, PassStep

-----------------------------------------------------------------------------

\* Counters of rows are numbers, and those of some rows no higher than of all.
LEMMA Counters ==
    ASSUME NEW S \in SUBSET Items, NEW T \in SUBSET S
    PROVE  /\ CountOf(S) \in [Statuses -> Nat]
           /\ \A s \in Statuses : CountOf(T)[s] <= CountOf(S)[s]
  <1>1. ASSUME NEW s \in Statuses
        PROVE  /\ Cardinality({i \in S : row[i] = s}) \in Nat
               /\ Cardinality({i \in T : row[i] = s}) <= Cardinality({i \in S : row[i] = s})
    <2>1. /\ {i \in S : row[i] = s} \in SUBSET Items
          /\ {i \in T : row[i] = s} \in SUBSET {i \in S : row[i] = s}
      OBVIOUS
    <2> QED
      BY <2>1, FewerRows
  <1> QED
    BY <1>1 DEF CountOf

\* A step of a dashboard.
LEMMA DashboardStep ==
    ASSUME ListIndInv, CountStatuses \/ FindRecent \/ EndDashboard
    PROVE  ListIndInv'
  <1>1. /\ dashboard \in Dashboard /\ UNCHANGED <<row, pass, history>>
        /\ There \in SUBSET Items /\ Newest \in SUBSET There
    BY DEF CountStatuses, FindRecent, EndDashboard, SetDashboard, ListIndInv, ListTypeOK,
       There, Newest
  <1>2. CountOf(There) \in [Statuses -> Nat] /\ CountOf(Newest) \in [Statuses -> Nat]
    <2>1. Newest \in SUBSET Items
      BY <1>1
    <2> QED
      BY <1>1, <2>1, Counters
  <1>3. PassOnItsWay' /\ HistoryIsOfItem'
    <2>1. Matching(pass.filter)' = Matching(pass.filter)
      BY <1>1 DEF Matching, There
    <2>2. PassOnItsWay'
      BY <1>1, <2>1 DEF ListIndInv, PassOnItsWay
    <2>3. HistoryIsOfItem'
      BY <1>1 DEF ListIndInv, HistoryIsOfItem, HistoryIsHonest
    <2> QED
      BY <2>2, <2>3
  <1>4. CountOf(There)' = CountOf(There) /\ Newest' = Newest /\ CountOf(Newest)' = CountOf(Newest)
    BY <1>1 DEF CountOf, Newest, There
  <1>5. ASSUME dashboard' \in Dashboard, DashboardIsCurrent'
        PROVE  ListIndInv'
    BY <1>1, <1>3, <1>5 DEF ListIndInv, ListTypeOK
  <1>6. NoDashboard \in Dashboard /\ NoDashboard.quiet = TRUE /\ NoDashboard.pc = "idle"
    BY DEF NoDashboard, NoCount, Dashboard
  <1>7. CASE CountStatuses
    <2>1. CASE dashboard' = [NoDashboard EXCEPT !.pc = "counts", !.count = CountOf(There)]
      <3>1. /\ dashboard' \in Dashboard /\ dashboard'.pc = "counts"
            /\ dashboard'.count = CountOf(There)
        BY <1>2, <1>6, <2>1 DEF Dashboard, NoDashboard
      <3>2. DashboardIsCurrent'
        BY <1>4, <3>1 DEF DashboardIsCurrent
      <3> QED
        BY <1>5, <3>1, <3>2
    <2>2. CASE /\ dashboard.pc = "recent"
               /\ dashboard' = [dashboard EXCEPT !.pc = "answered", !.count = CountOf(There)]
      <3>1. /\ dashboard' \in Dashboard /\ dashboard'.pc = "answered"
            /\ dashboard'.count = CountOf(There) /\ dashboard'.quiet = dashboard.quiet
            /\ dashboard'.recent = dashboard.recent /\ dashboard'.of = dashboard.of
        BY <1>1, <1>2, <2>2 DEF Dashboard
      <3>2. DashboardIsCurrent'
        BY <1>4, <2>2, <3>1 DEF ListIndInv, DashboardIsCurrent
      <3> QED
        BY <1>5, <3>1, <3>2
    <2> QED
      BY <1>7, <2>1, <2>2 DEF CountStatuses, SetDashboard
  <1>8. CASE FindRecent
    <2>1. CASE dashboard' = [NoDashboard EXCEPT !.pc = "recent", !.recent = Newest,
                                                !.of = CountOf(Newest)]
      <3>1. /\ dashboard' \in Dashboard /\ dashboard'.pc = "recent"
            /\ dashboard'.recent = Newest /\ dashboard'.of = CountOf(Newest)
        BY <1>1, <1>2, <1>6, <2>1 DEF Dashboard, NoDashboard
      <3>2. DashboardIsCurrent'
        BY <1>4, <3>1 DEF DashboardIsCurrent
      <3> QED
        BY <1>5, <3>1, <3>2
    <2>2. CASE /\ dashboard.pc = "counts"
               /\ dashboard' = [dashboard EXCEPT !.pc = "answered", !.recent = Newest,
                                                 !.of = CountOf(Newest)]
      <3>1. /\ dashboard' \in Dashboard /\ dashboard'.pc = "answered"
            /\ dashboard'.count = dashboard.count /\ dashboard'.quiet = dashboard.quiet
            /\ dashboard'.recent = Newest /\ dashboard'.of = CountOf(Newest)
        BY <1>1, <1>2, <2>2 DEF Dashboard
      <3>2. DashboardIsCurrent'
        BY <1>4, <2>2, <3>1 DEF ListIndInv, DashboardIsCurrent
      <3> QED
        BY <1>5, <3>1, <3>2
    <2> QED
      BY <1>8, <2>1, <2>2 DEF FindRecent, SetDashboard
  <1>9. CASE EndDashboard
    <2>1. dashboard' = NoDashboard
      BY <1>9 DEF EndDashboard, SetDashboard
    <2>2. DashboardIsCurrent'
      BY <1>6, <2>1 DEF DashboardIsCurrent
    <2> QED
      BY <1>5, <1>6, <2>1, <2>2
  <1> QED
    BY <1>7, <1>8, <1>9

\* A step of a request for the deliveries.
LEMMA HistoryStep ==
    ASSUME ListIndInv, (\E i \in Items : FindOwner(i)) \/ FindDeliveries \/ EndHistory
    PROVE  ListIndInv'
  <1>1. /\ history \in History /\ UNCHANGED <<row, pass, dashboard>>
        /\ row \in [Items -> Statuses \cup {"none", "gone"}] /\ Items \subseteq Nat
    BY ListAssumption DEF FindOwner, FindDeliveries, EndHistory, SetHistory, ListIndInv,
       ListTypeOK
  <1>2. PassOnItsWay' /\ DashboardIsCurrent'
    <2>1. Matching(pass.filter)' = Matching(pass.filter)
      BY <1>1 DEF Matching, There
    <2>2. PassOnItsWay'
      BY <1>1, <2>1 DEF ListIndInv, PassOnItsWay
    <2>3. DashboardIsCurrent'
      BY <1>1 DEF ListIndInv, DashboardIsCurrent, CountOf, Newest, There
    <2> QED
      BY <2>2, <2>3
  <1>3. ASSUME history' \in History, HistoryIsOfItem'
        PROVE  ListIndInv'
    BY <1>1, <1>2, <1>3 DEF ListIndInv, ListTypeOK
  <1>4. ASSUME NEW i \in Items, FindOwner(i)
        PROVE  ListIndInv'
    <2>1. /\ history' \in History /\ history'.item = i
          /\ history'.attempted <=> row[i] \in Statuses \ {"PENDING"}
          /\ history'.answer # "empty"
      <3>1. (row[i] \in Statuses \ {"PENDING"}) \in BOOLEAN
        OBVIOUS
      <3> QED
        BY <1>1, <1>4, <3>1 DEF FindOwner, SetHistory, History
    <2>2. HistoryIsOfItem'
      BY <1>1, <2>1 DEF HistoryIsOfItem, HistoryIsHonest, Statuses
    <2> QED
      BY <1>3, <2>1, <2>2
  <1>5. CASE FindDeliveries
    <2>1. /\ history' \in History /\ history'.item = history.item
          /\ history'.attempted = history.attempted
          /\ history'.answer = "empty" => row[history.item] \notin {"SENT", "FAILED"}
      BY <1>1, <1>5 DEF FindDeliveries, SetHistory, History, Statuses
    <2>2. /\ history.item \in Items
          /\ history.attempted => row[history.item] \in {"SENT", "FAILED", "gone"}
      BY <1>5 DEF FindDeliveries, ListIndInv, HistoryIsOfItem
    <2>3. HistoryIsOfItem'
      BY <1>1, <2>1, <2>2 DEF HistoryIsOfItem, HistoryIsHonest
    <2> QED
      BY <1>3, <2>1, <2>3
  <1>6. CASE EndHistory
    <2>1. history' \in History /\ history'.pc = "idle"
      BY <1>1, <1>6 DEF EndHistory, SetHistory, NoHistory, History
    <2>2. HistoryIsOfItem'
      BY <2>1 DEF HistoryIsOfItem, HistoryIsHonest
    <2> QED
      BY <1>3, <2>1, <2>2
  <1> QED
    BY <1>4, <1>5, <1>6

\* A dashboard whose queries have found what is there adds up.
LEMMA CurrentAddsUp ==
    ASSUME ListIndInv PROVE DashboardAddsUp
  <1> SUFFICES ASSUME dashboard.pc = "answered", dashboard.quiet
               PROVE  /\ \A s \in Statuses : dashboard.of[s] <= dashboard.count[s]
                      /\ Cardinality(There) <= Recent => dashboard.of = dashboard.count
                      /\ \A i \in dashboard.recent, j \in There \ dashboard.recent : j < i
    BY DEF DashboardAddsUp
  <1>1. /\ dashboard.count = CountOf(There) /\ dashboard.recent = Newest
        /\ dashboard.of = CountOf(Newest)
    BY DEF ListIndInv, DashboardIsCurrent
  <1>2. There \in SUBSET Items /\ Newest \in SUBSET There /\ Recent \in Nat /\ Items \subseteq Nat
    BY ListAssumption DEF There, Newest
  <1> DEFINE Later(i) == {j \in There : j > i}
  <1>3. \A i \in There : i \in Newest <=> Cardinality(Later(i)) < Recent
    BY DEF Newest
  <1>4. ASSUME Cardinality(There) <= Recent
        PROVE  Newest = There
    <2>1. ASSUME NEW i \in There
          PROVE  Cardinality(Later(i)) < Recent
      <3>1. Later(i) \in SUBSET There /\ i \notin Later(i)
        BY <1>2
      <3>2. /\ Cardinality(Later(i)) < Cardinality(There)
            /\ Cardinality(Later(i)) \in Nat /\ Cardinality(There) \in Nat
        BY <1>2, <3>1, FewerRows
      <3> QED
        BY <1>2, <1>4, <3>2
    <2> QED
      BY <1>2, <1>3, <2>1
  <1>5. ASSUME NEW i \in Newest, NEW j \in There \ Newest, i < j
        PROVE  FALSE
    <2>1. Later(i) \in SUBSET Items /\ Later(j) \in SUBSET Later(i)
      <3>1. i \in Nat /\ j \in Nat /\ \A k \in There : k \in Nat
        BY <1>2
      <3>2. \A k \in There : k > j => k > i
        BY <1>5, <3>1
      <3> QED
        BY <1>2, <3>2
    <2>2. /\ Cardinality(Later(j)) <= Cardinality(Later(i))
          /\ Cardinality(Later(j)) \in Nat /\ Cardinality(Later(i)) \in Nat
      BY <2>1, FewerRows
    <2>3. Cardinality(Later(i)) < Recent /\ ~(Cardinality(Later(j)) < Recent)
      BY <1>2, <1>3
    <2> QED
      BY <1>2, <2>2, <2>3
  <1>6. \A i \in Newest, j \in There \ Newest : j < i
    <2> SUFFICES ASSUME NEW i \in Newest, NEW j \in There \ Newest
                 PROVE  j < i
      OBVIOUS
    <2>1. i \in Nat /\ j \in Nat /\ i # j
      BY <1>2
    <2> QED
      BY <1>5, <2>1
  <1>7. \A s \in Statuses : CountOf(Newest)[s] <= CountOf(There)[s]
    BY <1>2, Counters
  <1> QED
    BY <1>1, <1>4, <1>6, <1>7

\* Offset pagination loses no row to rows that are added, a dashboard adds up when
\* nothing is written between its queries, and an empty history is honest, for
\* every number of rows, page size and length of the dashboard's list
\* (findAllByUser, getDashboardByUser, findForUser).
THEOREM QueriesAreSound == ListSpec => []ListInv
  <1>1. ListInit => ListIndInv
    <2> SUFFICES ASSUME ListInit PROVE ListIndInv
      OBVIOUS
    <2>1. row \in [Items -> Statuses \cup {"none", "gone"}]
      BY DEF ListInit
    <2>2. pass \in PassRecord /\ pass.pc = "idle"
      BY DEF ListInit, NoPass, PassRecord, StatusFilters
    <2>3. dashboard \in Dashboard /\ dashboard.pc = "idle"
      BY DEF ListInit, NoDashboard, NoCount, Dashboard
    <2>4. history \in History /\ history.pc = "idle"
      BY DEF ListInit, NoHistory, History
    <2> QED
      BY <2>1, <2>2, <2>3, <2>4 DEF ListIndInv, ListTypeOK, PassOnItsWay, DashboardIsCurrent,
         HistoryIsOfItem, HistoryIsHonest
  <1>2. ListIndInv /\ [ListNext]_listVars => ListIndInv'
    <2> SUFFICES ASSUME ListIndInv, [ListNext]_listVars PROVE ListIndInv'
      OBVIOUS
    <2>1. CASE UNCHANGED listVars
      <3>1. UNCHANGED <<row, pass, dashboard, history>>
        BY <2>1 DEF listVars
      <3>2. Matching(pass.filter)' = Matching(pass.filter)
        BY <3>1 DEF Matching, There
      <3> QED
        BY <3>1, <3>2 DEF ListIndInv, ListTypeOK, PassOnItsWay, DashboardIsCurrent, CountOf,
           Newest, There, HistoryIsOfItem, HistoryIsHonest
    <2>2. ASSUME NEW i \in Items, Insert(i) \/ Delete(i) \/ \E s \in Statuses : Deliver(i, s)
          PROVE  ListIndInv'
      <3>1. CASE Insert(i)
        BY <3>1, WriteStep DEF Insert, Statuses
      <3>2. CASE Delete(i)
        BY <3>2, WriteStep DEF Delete, There
      <3>3. ASSUME NEW s \in Statuses, Deliver(i, s)
            PROVE  ListIndInv'
        BY <3>3, WriteStep DEF Deliver, There
      <3> QED
        BY <2>2, <3>1, <3>2, <3>3
    <2> QED
      BY <2>1, <2>2, StartPassStep, FindPageStep, CountStep, EndPassStep, DashboardStep,
         HistoryStep DEF ListNext
  <1>3. ListIndInv => ListInv
    BY CurrentAddsUp DEF ListIndInv, ListInv, PassOnItsWay, PassSeesAll, HistoryIsOfItem
  <1> QED
    BY <1>1, <1>2, <1>3, PTL DEF ListSpec
=============================================================================
