---------------------------- MODULE ClientSession ----------------------------
(***************************************************************************)
(* The session of the web client in one browser tab, with a bearer token:  *)
(* the token in the session storage, the user in the store, the requests   *)
(* under way and what their answers do.  A request carries the token that  *)
(* is stored when it is sent, and may be answered when another is.         *)
(***************************************************************************)
EXTENDS Naturals, Sequences

CONSTANTS
    Users,
    None,
    MaxLogins,      \* bound: tokens issued
    Patient         \* whether nobody logs in while the start-up is under way

ASSUME SessionAssumption ==
    None \notin Users /\ MaxLogins \in Nat /\ Patient \in BOOLEAN

VARIABLES
    holder,         \* the user of each token, in the order of issue
    revoked,        \* the tokens that are no longer accepted
    stored,         \* sessionStorage: a token, or 0
    shown,          \* auth.user
    initialized,    \* auth.initialized
    call,           \* the request of each kind that is under way
    lists           \* whose notifications are in the query cache

sessionVars == <<holder, revoked, stored, shown, initialized, call, lists>>

Kinds == {"me", "login", "list"}

Tokens == 1 .. MaxLogins

Call == [state : {"idle", "sent", "ok", "unauthorized", "error"}, token : 0 .. MaxLogins,
         user : Users \cup {None}]

NoCall == [state |-> "idle", token |-> 0, user |-> None]

SendCall(kind, user) ==
    call' = [call EXCEPT ![kind] = [state |-> "sent", token |-> stored, user |-> user]]

End(kind) == call' = [call EXCEPT ![kind] = NoCall]

SessionInit ==
    /\ holder = <<>> /\ revoked = {}
    /\ stored = 0 /\ shown = None /\ initialized = TRUE
    /\ call = [kind \in Kinds |-> NoCall]
    /\ lists = None

-----------------------------------------------------------------------------
(* The browser                                                             *)

\* The page is loaded: only the token survives. AuthBootstrap asks for the
\* user of the token, or is done at once without one.
Load ==
    /\ shown' = None /\ lists' = None
    /\ initialized' = (stored = 0)
    /\ call' = [kind \in Kinds |->
            IF kind = "me" /\ stored # 0 THEN [NoCall EXCEPT !.state = "sent", !.token = stored]
            ELSE NoCall]
    /\ UNCHANGED <<holder, revoked, stored>>

\* The login page is outside of the protected routes: it is there as long as
\* no user is shown, during the start-up too. One submission at a time.
SubmitLogin(u) ==
    /\ shown = None
    /\ Patient => initialized
    /\ call["login"].state = "idle"
    /\ SendCall("login", u)
    /\ UNCHANGED <<holder, revoked, stored, shown, initialized, lists>>

\* A page behind ProtectedRoute asks for a list; one request of a query runs
\* at a time, and goes on when the page is left.
AskList ==
    /\ initialized /\ shown # None
    /\ call["list"].state = "idle"
    /\ SendCall("list", None)
    /\ UNCHANGED <<holder, revoked, stored, shown, initialized, lists>>

\* logout of AppHeader; the query cache stays.
Logout ==
    /\ shown # None
    /\ stored' = 0 /\ shown' = None
    /\ UNCHANGED <<holder, revoked, initialized, call, lists>>

\* setAuthenticatedUser.
SetUser(u) == shown' = u /\ initialized' = TRUE

DropTokenOnly == stored' = 0 /\ UNCHANGED <<shown, initialized>>

\* The response interceptor on 401, and the listener of AuthBootstrap: whatever
\* request it answers, the token now stored goes.
Unauthorized == stored' = 0 /\ shown' = None /\ initialized' = TRUE

FailedQuietly(kind) == UNCHANGED <<stored, shown, initialized>>

\* Anything else that fails: the start-up ends without a user, but the token
\* stays stored; a login or a list only reports the error.
Failed(kind) ==
    /\ UNCHANGED stored
    /\ IF kind = "me" THEN shown' = None /\ initialized' = TRUE
       ELSE UNCHANGED <<shown, initialized>>

Succeeded(kind) ==
    LET c == call[kind] IN
    \/ kind = "me" /\ SetUser(c.user) /\ UNCHANGED <<stored, lists>>
    \/ kind = "login" /\ stored' = c.token /\ SetUser(c.user) /\ UNCHANGED lists
    \/ kind = "list" /\ lists' = c.user /\ UNCHANGED <<stored, shown, initialized>>

Receive(kind) ==
    /\ \/ call[kind].state = "ok" /\ Succeeded(kind)
       \/ call[kind].state = "unauthorized" /\ Unauthorized /\ UNCHANGED lists
       \/ call[kind].state = "error" /\ Failed(kind) /\ UNCHANGED lists
    /\ End(kind)
    /\ UNCHANGED <<holder, revoked>>

-----------------------------------------------------------------------------
(* The server and the network                                              *)

Reply(kind, state, token, user) ==
    call' = [call EXCEPT ![kind] = [state |-> state, token |-> token, user |-> user]]

\* JwtAuthGuard on the token of the request: the user, or 401.
AnswerWithToken(kind) ==
    LET k == call[kind].token IN
    /\ kind # "login" /\ call[kind].state = "sent"
    /\ IF k # 0 /\ k \notin revoked
       THEN Reply(kind, "ok", k, holder[k])
       ELSE Reply(kind, "unauthorized", k, None)
    /\ UNCHANGED <<holder, revoked, stored, shown, initialized, lists>>

\* The login is refused with 401, or answered with a new token.
AnswerLogin ==
    /\ call["login"].state = "sent"
    /\ \/ /\ Reply("login", "unauthorized", 0, None)
          /\ UNCHANGED holder
       \/ /\ Len(holder) < MaxLogins
          /\ holder' = Append(holder, call["login"].user)
          /\ Reply("login", "ok", Len(holder) + 1, call["login"].user)
    /\ UNCHANGED <<revoked, stored, shown, initialized, lists>>

\* No answer within the client's 10 seconds, or another error.
Break(kind) ==
    /\ call[kind].state = "sent"
    /\ Reply(kind, "error", call[kind].token, None)
    /\ UNCHANGED <<holder, revoked, stored, shown, initialized, lists>>

\* A token expires, or its account is disabled or removed.
Revoke(k) ==
    /\ revoked' = revoked \cup {k}
    /\ UNCHANGED <<holder, stored, shown, initialized, call, lists>>

Answer(kind) == AnswerWithToken(kind) \/ (kind = "login" /\ AnswerLogin) \/ Break(kind)

SessionNext ==
    \/ Load \/ AskList \/ Logout
    \/ \E u \in Users : SubmitLogin(u)
    \/ \E kind \in Kinds : Answer(kind) \/ Receive(kind)
    \/ \E k \in Tokens \ revoked : k <= Len(holder) /\ Revoke(k)

\* A request is answered or times out, and the browser handles the answer.
SessionFairness ==
    \A kind \in Kinds : WF_sessionVars(Answer(kind)) /\ WF_sessionVars(Receive(kind))

SessionSpec == SessionInit /\ [][SessionNext]_sessionVars

SessionFairSpec == SessionSpec /\ SessionFairness

-----------------------------------------------------------------------------
(* Properties                                                              *)

\* Tokens, requests and the store have their types.
SessionTypeOK ==
    /\ holder \in Seq(Users) /\ Len(holder) <= MaxLogins
    /\ revoked \subseteq 1 .. Len(holder)
    /\ stored \in 0 .. Len(holder)
    /\ shown \in Users \cup {None} /\ initialized \in BOOLEAN
    /\ call \in [Kinds -> Call]
    /\ lists \in Users \cup {None}

\* The user on the screen is the one the stored token acts for, so that what is
\* written is written for the user who is shown: through reloads, late answers,
\* timeouts and tokens that end, when nobody logs in during the start-up.
ShownIsHolder ==
    shown # None => stored # 0 /\ holder[stored] = shown

\* When a 401 has removed the token no user is shown
\* (frontend_notifications/README.md: "`AuthBootstrap` restores the user through
\* `/auth/me`; a `401` clears authentication").
ShownIsSignedIn == shown # None => stored # 0

\* The notifications on the screen are those of the user on the screen.
ListsAreOwn == shown # None /\ lists # None => lists = shown

\* What holds of the session.
SessionInv == SessionTypeOK /\ (Patient => ShownIsHolder)

\* No page waits behind the loading indicator for ever, unless it is loaded
\* again and again.
LoadingEnds == []<><<Load>>_sessionVars \/ (~initialized ~> initialized)
=============================================================================
