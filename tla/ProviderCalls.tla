---------------------------- MODULE ProviderCalls ----------------------------
(***************************************************************************)
(* How the senders turn the answers of Resend, Twilio and Firebase into    *)
(* success, a retryable or a permanent error, and the access token that    *)
(* the Firebase provider caches.  The worker sends one message at a time.  *)
(* Time is counted in units that the constants share.                      *)
(***************************************************************************)
EXTENDS Naturals

CONSTANTS
    Margin,         \* TOKEN_EXPIRY_SAFETY_MS
    Lifetimes,      \* the expires_in Google may answer, 0 for none or a bad one
    MaxTime         \* bound: the clock

ASSUME CallsAssumption ==
    Margin \in Nat /\ Lifetimes \subseteq Nat /\ MaxTime \in Nat

VARIABLES
    now,            \* the clock
    cached,         \* cachedAccessToken, as the process believes it
    call,           \* the send under way
    result          \* of the last send: what the sender reported, and the truth

callVars == <<now, cached, call, result>>

Providers == {"console", "resend", "twilio", "firebase"}

Time == 0 .. MaxTime

\* What the process believes of a token, and how long Google accepts it.
Token == [expiresAt : Nat, validUntil : Nat]

NoToken == [expiresAt |-> 0, validUntil |-> 0]

Call == [pc : {"idle", "token", "issued", "request"}, provider : Providers,
         began : Time, lifetime : Lifetimes \cup {0}, issuedAt : Time,
         token : Token, reused : BOOLEAN]

NoCall == [pc |-> "idle", provider |-> "console", began |-> 0, lifetime |-> 0,
           issuedAt |-> 0, token |-> NoToken, reused |-> FALSE]

\* Of an HTTP answer the status and the body matter; 0 is the status of a request
\* that was never answered.
Answer == [status : {0, 200, 400, 408, 429, 500}, body : {"id", "no id", "unreadable"}]

NoAnswer == [status |-> 0, body |-> "unreadable"]

Result == [reported : {"none", "sent", "retry", "permanent"}, accepted : BOOLEAN,
           provider : Providers, answer : Answer]

CallsInit ==
    /\ now = 0
    /\ cached = NoToken
    /\ call = NoCall
    /\ result = [reported |-> "none", accepted |-> FALSE, provider |-> "console",
                 answer |-> NoAnswer]

-----------------------------------------------------------------------------
(* What a provider makes of an answer                                      *)

Intact(a) == a.status = 200 /\ a.body = "id"

Retryable(status) == status = 408 \/ status >= 500

ByPolicy(status) == IF Retryable(status) THEN "retry" ELSE "permanent"

FirebaseOutcome(a) ==
    IF a.status = 0 THEN "retry"
    ELSE IF a.status # 200 \/ a.body = "unreadable" THEN ByPolicy(a.status)
    ELSE IF a.body = "id" THEN "sent" ELSE "permanent"

\* The error of the Twilio client has no status when there was no answer; it
\* is not retried.
TwilioOutcome(a) ==
    IF Intact(a) THEN "sent" ELSE ByPolicy(a.status)

AnyErrorIsTransient(a) ==
    IF Intact(a) THEN "sent" ELSE "retry"

\* The Resend client names the errors of the API, and gives the name of a server's
\* error to whatever it cannot read, an accepted message's answer included: these
\* are retried, as is what the client throws.
ResendOutcome(a) ==
    IF a.body = "unreadable" \/ a.status \in {0, 500} THEN "retry"
    ELSE IF Intact(a) THEN "sent" ELSE "permanent"

OutcomeOf(provider, a) ==
    IF provider = "firebase" THEN FirebaseOutcome(a)
    ELSE IF provider = "resend" THEN ResendOutcome(a)
    ELSE TwilioOutcome(a)

\* The send is over; accepted is what became of the message.
Report(provider, reported, accepted, a) ==
    /\ call' = NoCall
    /\ result' = [reported |-> reported, accepted |-> accepted, provider |-> provider,
                  answer |-> a]

-----------------------------------------------------------------------------
(* Steps of a send                                                         *)

\* The token is reused while it is good for more than the safety margin.
Reusable == cached.expiresAt > now + Margin

\* The strategy of the channel calls its provider; the console accepts at once.
\* Firebase needs an access token first.
Send(provider) ==
    /\ call.pc = "idle"
    /\ provider # "console"
    /\ call' = [NoCall EXCEPT !.provider = provider, !.began = now,
            !.pc = IF provider = "firebase" /\ ~Reusable THEN "token" ELSE "request",
            !.token = IF provider = "firebase" /\ Reusable THEN cached ELSE NoToken,
            !.reused = (provider = "firebase" /\ Reusable)]
    /\ UNCHANGED <<now, cached, result>>

SendToConsole ==
    /\ call.pc = "idle"
    /\ Report("console", "sent", TRUE, [status |-> 200, body |-> "id"])
    /\ UNCHANGED <<now, cached>>

\* Google answers the assertion: the lifetime counts from here.
IssueToken(lifetime) ==
    /\ call.pc = "token"
    /\ call' = [call EXCEPT !.pc = "issued", !.lifetime = lifetime, !.issuedAt = now]
    /\ UNCHANGED <<now, cached, result>>

CountFromReceipt == [expiresAt |-> now + call.lifetime,
                     validUntil |-> call.issuedAt + call.lifetime]

\* The process counts the lifetime from the time it read before it asked.
IssuedToken == [expiresAt |-> call.began + call.lifetime,
                validUntil |-> call.issuedAt + call.lifetime]

\* getAccessToken ends: the token is cached and used, whatever is left of it; an
\* answer without a token or a lifetime is a permanent error.
ReceiveToken ==
    /\ call.pc = "issued"
    /\ IF call.lifetime = 0
       THEN /\ Report("firebase", "permanent", FALSE, [status |-> 200, body |-> "no id"])
            /\ UNCHANGED cached
       ELSE /\ cached' = IssuedToken
            /\ call' = [call EXCEPT !.pc = "request", !.token = IssuedToken]
            /\ UNCHANGED result
    /\ UNCHANGED now

\* The token request fails; the token that is cached stays.
TokenFails(a) ==
    /\ call.pc = "token"
    /\ ~Intact(a)
    /\ Report("firebase", FirebaseOutcome(a), FALSE, a)
    /\ UNCHANGED <<now, cached>>

Accepted(a) == a.status = 200

\* The provider handles the request; whether it accepted the message is open when
\* it fails on its side or its answer is lost. An expired token is refused: 401 is
\* as permanent as the other errors of the client, and the cache stays as it is.
ProviderAnswers(a, accepted) ==
    LET expired == call.provider = "firebase" /\ now >= call.token.validUntil IN
    /\ call.pc = "request"
    /\ accepted => ~expired /\ a.status \in {0, 200, 408, 500}
    /\ Accepted(a) => accepted
    /\ a.body = "id" => a.status = 200
    /\ call.provider = "twilio" => a.body # "no id" \/ a.status # 200
    /\ Report(call.provider, OutcomeOf(call.provider, a), accepted, a)
    /\ UNCHANGED <<now, cached>>

Tick == now < MaxTime /\ now' = now + 1 /\ UNCHANGED <<cached, call, result>>

CallsNext ==
    \/ \E provider \in Providers : Send(provider)
    \/ SendToConsole
    \/ \E lifetime \in Lifetimes : IssueToken(lifetime)
    \/ ReceiveToken
    \/ \E a \in Answer : TokenFails(a) \/ \E accepted \in BOOLEAN : ProviderAnswers(a, accepted)
    \/ Tick

CallsSpec == CallsInit /\ [][CallsNext]_callVars

-----------------------------------------------------------------------------
(* Properties                                                              *)

\* Clock, cache, send and result have their types, and the process never believes
\* in a token for longer than Google does.
CallsTypeOK ==
    /\ now \in Time
    /\ cached \in Token /\ cached.expiresAt <= cached.validUntil
    /\ call \in Call /\ call.began <= now /\ call.issuedAt <= now
    /\ result \in Result

\* The same request may succeed later: the failure was not the client's. Resend's
\* client cannot tell when it cannot read the answer.
MayPass(provider, a) ==
    \/ a.status \in {0, 408, 500}
    \/ provider = "resend" /\ a.body = "unreadable"

\* An accepted message whose answer arrives intact is recorded as sent and never
\* sent again. A message is tried again only after a timeout or a failure of the
\* server (comment of TwilioSmsProvider: "Retries are limited to request timeouts and
\* server-side failures"), or, with Resend, after an answer nobody could read: a
\* refusal that was understood is final.
RetriesAreLimited ==
    /\ Intact(result.answer) => result.reported = "sent"
    /\ result.reported = "sent" => result.accepted
    /\ result.reported = "retry" => MayPass(result.provider, result.answer)

\* Through expiry, slow answers and tokens issued for a short time: a push with a
\* cached token is refused for the token's age only if the send has taken longer
\* than the safety margin (comment of FirebasePushProvider: "reuses it until
\* shortly before expiration").
CachedTokenOutlastsMargin ==
    call.pc = "request" /\ call.reused /\ now <= call.began + Margin =>
        now < call.token.validUntil

\* What holds of a send and of the token it uses.
CallsInv == CallsTypeOK /\ RetriesAreLimited /\ CachedTokenOutlastsMargin
=============================================================================
