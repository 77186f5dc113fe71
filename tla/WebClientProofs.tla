---------------------------- MODULE WebClientProofs ----------------------------
(***************************************************************************)
(* The parts of the web client, proved for every number of users, logins,  *)
(* registrations, mounts, changes and rows: the user on the screen and the *)
(* token that is stored, what the pages show of a notification, the push   *)
(* registration, and the controls of the list.                             *)
(***************************************************************************)
EXTENDS ClientSession, NotificationViews, PushRegistration, ListPage, Integers, TLAPS


-----------------------------------------------------------------------------
(* The session                                                             *)

\* A token that was issued, for this user.
Holds(k, u) == k \in 1 .. Len(holder) /\ holder[k] = u /\ u \in Users

\* An answer that brings a user brings the holder of its token.
AnswersAreTrue ==
    /\ \A kind \in Kinds : call[kind].token \in 0 .. Len(holder)
    /\ \A kind \in Kinds : call[kind].state = "ok" => Holds(call[kind].token, call[kind].user)
    /\ call["login"].state = "sent" => call["login"].user \in Users

\* While the start-up asks for its user, the token it asks for stays stored.
StartUpAlone ==
    Patient /\ call["me"].state # "idle" =>
        /\ ~initialized /\ shown = None
        /\ call["login"].state = "idle" /\ call["list"].state = "idle"
        /\ stored = call["me"].token

SessionIndInv ==
    /\ SessionTypeOK /\ AnswersAreTrue /\ StartUpAlone
    /\ Patient => ShownIsHolder

-----------------------------------------------------------------------------

\* The calls' types, taken apart.
LEMMA CallTypes ==
    ASSUME SessionIndInv, NEW kind \in Kinds
    PROVE  /\ call[kind] \in Call /\ call[kind].token \in 0 .. Len(holder)
           /\ call[kind].state \in {"idle", "sent", "ok", "unauthorized", "error"}
           /\ call[kind].user \in Users \cup {None}
           /\ Len(holder) \in Nat /\ Len(holder) <= MaxLogins
           /\ MaxLogins \in Nat
  BY SessionAssumption DEF SessionIndInv, SessionTypeOK, AnswersAreTrue, Call

\* A record of a call has its type.
LEMMA NewCall ==
    ASSUME SessionTypeOK, NEW k \in 0 .. Len(holder), NEW u \in Users \cup {None},
           NEW state \in {"idle", "sent", "ok", "unauthorized", "error"}
    PROVE  [state |-> state, token |-> k, user |-> u] \in Call
  <1>1. Len(holder) \in Nat /\ Len(holder) <= MaxLogins /\ MaxLogins \in Nat
    BY SessionAssumption DEF SessionTypeOK
  <1>2. k \in 0 .. MaxLogins
    BY <1>1
  <1> QED
    BY <1>2 DEF Call

\* A step that changes one call and keeps the rest.
LEMMA CallStep ==
    ASSUME SessionIndInv, UNCHANGED <<holder, revoked, stored, shown, initialized, lists>>,
           NEW kind \in Kinds, NEW k \in 0 .. Len(holder), NEW u \in Users \cup {None},
           NEW state \in {"idle", "sent", "ok", "unauthorized", "error"},
           call' = [call EXCEPT ![kind] = [state |-> state, token |-> k, user |-> u]],
           state = "ok" => Holds(k, u),
           kind = "login" /\ state = "sent" => u \in Users,
           kind = "me" => call["me"].state # "idle" /\ k = call["me"].token,
           kind # "me" /\ Patient => initialized \/ call[kind].state # "idle"
    PROVE  SessionIndInv'
  <1> DEFINE c == [state |-> state, token |-> k, user |-> u]
  <1>1. c \in Call /\ c.state = state /\ c.token = k /\ c.user = u
    BY NewCall DEF SessionIndInv
  <1>2. call' = [call EXCEPT ![kind] = c]
    OBVIOUS
  <1> HIDE DEF c
  <1>3. /\ call' \in [Kinds -> Call] /\ call'[kind] = c
        /\ \A other \in Kinds \ {kind} : call'[other] = call[other]
    BY <1>1, <1>2 DEF SessionIndInv, SessionTypeOK
  <1>4. SessionTypeOK'
    BY <1>3 DEF SessionIndInv, SessionTypeOK
  <1>5. AnswersAreTrue'
    BY <1>1, <1>3 DEF SessionIndInv, AnswersAreTrue, Holds, Kinds
  <1>6. StartUpAlone'
    BY <1>1, <1>3 DEF SessionIndInv, StartUpAlone, Kinds
  <1>7. (Patient => ShownIsHolder)'
    BY DEF SessionIndInv, ShownIsHolder
  <1> QED
    BY <1>4, <1>5, <1>6, <1>7 DEF SessionIndInv

\* A request is sent with the token that is stored.
LEMMA SendStep ==
    ASSUME SessionIndInv, (\E u \in Users : SubmitLogin(u)) \/ AskList
    PROVE  SessionIndInv'
  <1>1. stored \in 0 .. Len(holder)
    BY DEF SessionIndInv, SessionTypeOK
  <1>2. ASSUME NEW u \in Users, SubmitLogin(u)
        PROVE  SessionIndInv'
    BY <1>1, <1>2, CallStep DEF SubmitLogin, SendCall, Kinds
  <1>3. CASE AskList
    BY <1>1, <1>3, CallStep DEF AskList, SendCall, Kinds
  <1> QED
    BY <1>2, <1>3

\* A request with a token is answered, or breaks.
LEMMA ReplyStep ==
    ASSUME SessionIndInv, NEW kind \in Kinds, AnswerWithToken(kind) \/ Break(kind)
    PROVE  SessionIndInv'
  <1>1. call[kind].token \in 0 .. Len(holder) /\ call[kind].state = "sent"
    BY CallTypes DEF AnswerWithToken, Break
  <1>2. CASE Break(kind)
    BY <1>1, <1>2, CallStep DEF Break, Reply
  <1>3. CASE AnswerWithToken(kind)
    <2> DEFINE k == call[kind].token
    <2>1. UNCHANGED <<holder, revoked, stored, shown, initialized, lists>> /\ kind # "login"
      BY <1>3 DEF AnswerWithToken
    <2>2. CASE Reply(kind, "unauthorized", k, None)
      BY <1>1, <2>1, <2>2, CallStep DEF Reply
    <2>3. CASE k # 0 /\ Reply(kind, "ok", k, holder[k])
      <3>1. k \in 1 .. Len(holder) /\ holder \in Seq(Users)
        BY <1>1, <2>3, CallTypes DEF SessionIndInv, SessionTypeOK
      <3>2. holder[k] \in Users
        BY <3>1
      <3>3. Holds(k, holder[k])
        BY <3>1, <3>2 DEF Holds
      <3> QED
        BY <1>1, <2>1, <2>3, <3>2, <3>3, CallStep DEF Reply
    <2> QED
      BY <1>3, <2>2, <2>3 DEF AnswerWithToken
  <1> QED
    BY <1>2, <1>3

\* A token is issued: the ones that were keep their holders.
LEMMA LoginStep ==
    ASSUME SessionIndInv, AnswerLogin
    PROVE  SessionIndInv'
  <1>1. /\ call["login"].state = "sent" /\ call["login"].user \in Users
        /\ "login" \in Kinds /\ "me" \in Kinds /\ Len(holder) \in Nat
        /\ UNCHANGED <<revoked, stored, shown, initialized, lists>>
    BY CallTypes DEF AnswerLogin, SessionIndInv, AnswersAreTrue, Kinds
  <1>2. CASE Reply("login", "unauthorized", 0, None) /\ UNCHANGED holder
    <2>1. 0 \in 0 .. Len(holder)
      BY <1>1
    <2> QED
      BY <1>1, <1>2, <2>1, CallStep DEF Reply
  <1>3. CASE /\ Len(holder) < MaxLogins
             /\ holder' = Append(holder, call["login"].user)
             /\ Reply("login", "ok", Len(holder) + 1, call["login"].user)
    <2> DEFINE u == call["login"].user
               c == [state |-> "ok", token |-> Len(holder) + 1, user |-> u]
    <2>1. /\ holder \in Seq(Users) /\ u \in Users /\ MaxLogins \in Nat
          /\ call \in [Kinds -> Call]
      BY <1>1, SessionAssumption DEF SessionIndInv, SessionTypeOK
    <2> HIDE DEF u
    <2>2. /\ holder' \in Seq(Users) /\ Len(holder') = Len(holder) + 1
          /\ \A k \in 1 .. Len(holder) : holder'[k] = holder[k]
          /\ holder'[Len(holder) + 1] = u
      BY <1>3, <2>1 DEF u
    <2>3. Len(holder') <= MaxLogins /\ Len(holder) + 1 \in 0 .. MaxLogins
      BY <1>1, <1>3, <2>1, <2>2
    <2>4. c \in Call /\ c.state = "ok" /\ c.token = Len(holder) + 1 /\ c.user = u
      BY <2>1, <2>3 DEF Call
    <2>5. call' = [call EXCEPT !["login"] = c]
      BY <1>3 DEF Reply, u
    <2> HIDE DEF c
    <2>6. /\ call' \in [Kinds -> Call] /\ call'["login"] = c
          /\ \A other \in Kinds \ {"login"} : call'[other] = call[other]
      BY <1>1, <2>1, <2>4, <2>5
    <2>7. \A k, v : Holds(k, v) => Holds(k, v)'
      BY <1>1, <2>2 DEF Holds
    <2>8. \A k, v : k = Len(holder) + 1 /\ v = u => Holds(k, v)'
      <3>1. Len(holder) + 1 \in 1 .. Len(holder')
        BY <1>1, <2>2
      <3> QED
        BY <2>1, <2>2, <3>1 DEF Holds
    <2>9. SessionTypeOK'
      BY <1>1, <2>2, <2>3, <2>6 DEF SessionIndInv, SessionTypeOK
    <2>10. \A kind \in Kinds : call'[kind].token \in 0 .. Len(holder')
      BY <1>1, <2>2, <2>4, <2>6 DEF SessionIndInv, AnswersAreTrue
    <2>11. ASSUME NEW kind \in Kinds, call'[kind].state = "ok"
           PROVE  Holds(call[kind].token, call[kind].user)'
      <3>1. CASE kind = "login"
        BY <2>2, <2>4, <2>6, <2>8, <3>1 DEF Holds
      <3>2. CASE kind # "login"
        BY <2>6, <2>7, <2>11, <3>2 DEF SessionIndInv, AnswersAreTrue, Holds
      <3> QED
        BY <3>1, <3>2
    <2>12. AnswersAreTrue'
      BY <2>4, <2>6, <2>10, <2>11 DEF AnswersAreTrue
    <2>13. StartUpAlone'
      BY <1>1, <2>6 DEF SessionIndInv, StartUpAlone
    <2>14. (Patient => ShownIsHolder)'
      <3>1. stored # 0 => stored \in 1 .. Len(holder)
        BY <1>1 DEF SessionIndInv, SessionTypeOK
      <3> QED
        BY <1>1, <2>2, <3>1 DEF SessionIndInv, ShownIsHolder
    <2> QED
      BY <2>9, <2>12, <2>13, <2>14 DEF SessionIndInv
  <1> QED
    BY <1>2, <1>3 DEF AnswerLogin

-----------------------------------------------------------------------------
(* The session: answers in the browser                                     *)

\* The store changes, and calls end: what the calls say stays true.
LEMMA BrowserStep ==
    ASSUME SessionIndInv, UNCHANGED <<holder, revoked>>,
           stored' \in 0 .. Len(holder), shown' \in Users \cup {None},
           initialized' \in BOOLEAN, lists' \in Users \cup {None},
           call' \in [Kinds -> Call],
           \A kind \in Kinds : call'[kind] = call[kind] \/ call'[kind] = NoCall,
           StartUpAlone',
           Patient => (shown' # None => stored' # 0 /\ holder[stored'] = shown')
    PROVE  SessionIndInv'
  <1>1. SessionTypeOK'
    BY DEF SessionIndInv, SessionTypeOK
  <1>2. AnswersAreTrue'
    <2>1. NoCall.token \in 0 .. Len(holder) /\ NoCall.state = "idle"
      BY DEF NoCall, SessionIndInv, SessionTypeOK
    <2> QED
      BY <2>1 DEF SessionIndInv, AnswersAreTrue, Holds, Kinds
  <1>3. (Patient => ShownIsHolder)'
    BY DEF ShownIsHolder
  <1> QED
    BY <1>1, <1>2, <1>3 DEF SessionIndInv

\* The page is loaded again; what it asked for before is forgotten.
LEMMA LoadStep ==
    ASSUME SessionIndInv, Load
    PROVE  SessionIndInv'
  <1> DEFINE me == [NoCall EXCEPT !.state = "sent", !.token = stored]
  <1>1. stored \in 0 .. Len(holder) /\ Len(holder) \in Nat /\ Len(holder) <= MaxLogins
    BY DEF SessionIndInv, SessionTypeOK
  <1>2. NoCall \in Call /\ NoCall.state = "idle" /\ NoCall.token = 0 /\ NoCall.user = None
    BY SessionAssumption DEF NoCall, Call
  <1>3. me \in Call /\ me.state = "sent" /\ me.token = stored
    <2>1. stored \in 0 .. MaxLogins
      BY <1>1, SessionAssumption
    <2> QED
      BY <1>2, <2>1 DEF NoCall, Call
  <1>4. call' = [kind \in Kinds |-> IF kind = "me" /\ stored # 0 THEN me ELSE NoCall]
    BY DEF Load
  <1> HIDE DEF me
  <1>5. /\ call' \in [Kinds -> Call] /\ call'["login"] = NoCall /\ call'["list"] = NoCall
        /\ call'["me"] = IF stored # 0 THEN me ELSE NoCall
    BY <1>2, <1>3, <1>4 DEF Kinds
  <1>6. /\ UNCHANGED <<holder, revoked, stored>> /\ shown' = None /\ lists' = None
        /\ initialized' = (stored = 0)
    BY DEF Load
  <1>7. SessionTypeOK'
    BY <1>5, <1>6 DEF SessionIndInv, SessionTypeOK
  <1>8. AnswersAreTrue'
    BY <1>1, <1>2, <1>3, <1>5, <1>6 DEF AnswersAreTrue, Kinds
  <1>9. StartUpAlone'
    BY <1>2, <1>3, <1>5, <1>6 DEF StartUpAlone
  <1>10. (Patient => ShownIsHolder)'
    BY <1>6 DEF ShownIsHolder
  <1> QED
    BY <1>7, <1>8, <1>9, <1>10 DEF SessionIndInv

\* A logout, also while requests are under way.
LEMMA LogoutStep ==
    ASSUME SessionIndInv, Logout
    PROVE  SessionIndInv'
  <1>1. /\ UNCHANGED <<holder, revoked, initialized, call, lists>>
        /\ stored' = 0 /\ shown' = None /\ shown # None
    BY DEF Logout
  <1>2. 0 \in 0 .. Len(holder) /\ None \in Users \cup {None}
    BY DEF SessionIndInv, SessionTypeOK
  <1>3. StartUpAlone'
    BY <1>1 DEF SessionIndInv, StartUpAlone
  <1> QED
    BY <1>1, <1>2, <1>3, BrowserStep DEF SessionIndInv, SessionTypeOK

\* An answer is handled: when nobody logs in during the start-up, a user is shown
\* with the token that brought that user.
LEMMA ReceiveStep ==
    ASSUME SessionIndInv, NEW kind \in Kinds, Receive(kind)
    PROVE  SessionIndInv'
  <1>1. /\ call[kind].state \in {"ok", "unauthorized", "error"}
        /\ UNCHANGED <<holder, revoked>> /\ call' = [call EXCEPT ![kind] = NoCall]
        /\ call \in [Kinds -> Call] /\ NoCall \in Call /\ NoCall.state = "idle"
        /\ stored \in 0 .. Len(holder) /\ 0 \in 0 .. Len(holder)
        /\ shown \in Users \cup {None} /\ initialized \in BOOLEAN
        /\ lists \in Users \cup {None}
    BY SessionAssumption DEF Receive, End, SessionIndInv, SessionTypeOK, NoCall, Call
  <1>2. /\ call' \in [Kinds -> Call] /\ call'[kind] = NoCall
        /\ \A other \in Kinds \ {kind} : call'[other] = call[other]
    BY <1>1
  <1>3. ASSUME stored' \in 0 .. Len(holder), shown' \in Users \cup {None},
               initialized' \in BOOLEAN, lists' \in Users \cup {None},
               StartUpAlone',
               Patient => (shown' # None => stored' # 0 /\ holder[stored'] = shown')
        PROVE  SessionIndInv'
    BY <1>1, <1>2, <1>3, BrowserStep
  <1>4. CASE kind = "me"
    <2>1. StartUpAlone'
      BY <1>1, <1>2, <1>4 DEF StartUpAlone
    <2>2. /\ Patient => stored = call["me"].token
          /\ call["me"].state = "ok" => Holds(call["me"].token, call["me"].user)
      BY <1>1, <1>4 DEF SessionIndInv, StartUpAlone, AnswersAreTrue
    <2>3. CASE call["me"].state = "ok"
      <3>1. /\ shown' = call["me"].user /\ initialized' = TRUE
            /\ UNCHANGED <<stored, lists>>
        BY <1>4, <2>3 DEF Receive, Succeeded, SetUser
      <3>2. stored' = stored /\ lists' = lists /\ shown' \in Users \cup {None}
        BY <2>2, <2>3, <3>1 DEF Holds
      <3>3. Patient => stored # 0 /\ holder[stored] = shown'
        BY <2>2, <2>3, <3>1 DEF Holds
      <3> QED
        BY <1>1, <1>3, <2>1, <3>1, <3>2, <3>3
    <2>4. CASE call["me"].state # "ok"
      <3>1. /\ shown' = None /\ initialized' = TRUE /\ lists' = lists
            /\ stored' \in {stored, 0}
        BY <1>4, <2>4 DEF Receive, Unauthorized, Failed
      <3> QED
        BY <1>1, <1>3, <2>1, <3>1
    <2> QED
      BY <2>3, <2>4
  <1>5. CASE kind = "login"
    <2>1. /\ call'["me"] = call["me"] /\ "me" \in Kinds
          /\ Patient => call["me"].state = "idle"
      BY <1>1, <1>2, <1>5 DEF SessionIndInv, StartUpAlone, Kinds
    <2>2. StartUpAlone'
      BY <2>1 DEF StartUpAlone
    <2>3. CASE call["login"].state = "ok"
      <3>1. /\ shown' = call["login"].user /\ initialized' = TRUE
            /\ stored' = call["login"].token /\ lists' = lists
        BY <1>5, <2>3 DEF Receive, Succeeded, SetUser
      <3>2. Holds(call["login"].token, call["login"].user)
        BY <1>5, <2>3 DEF SessionIndInv, AnswersAreTrue
      <3>3. /\ stored' \in 0 .. Len(holder) /\ stored' # 0
            /\ holder[stored'] = shown' /\ shown' \in Users
        BY <1>1, <3>1, <3>2 DEF Holds
      <3> QED
        BY <1>1, <1>3, <2>2, <3>1, <3>3
    <2>4. CASE call["login"].state = "unauthorized"
      <3>1. stored' = 0 /\ shown' = None /\ initialized' = TRUE /\ lists' = lists
        BY <1>5, <2>4 DEF Receive, Unauthorized
      <3> QED
        BY <1>1, <1>3, <2>2, <3>1
    <2>5. CASE call["login"].state = "error"
      <3>1. UNCHANGED <<stored, shown, initialized, lists>>
        BY <1>5, <2>5 DEF Receive, Failed
      <3> QED
        BY <1>1, <1>3, <2>2, <3>1 DEF SessionIndInv, ShownIsHolder
    <2> QED
      BY <1>1, <1>5, <2>3, <2>4, <2>5
  <1>6. CASE kind = "list"
    <2>1. /\ call'["me"] = call["me"] /\ call'["login"] = call["login"]
          /\ call'["list"].state = "idle"
      BY <1>1, <1>2, <1>6 DEF Kinds
    <2>2. CASE call["list"].state = "ok"
      <3>1. /\ lists' = call["list"].user /\ UNCHANGED <<stored, shown, initialized>>
        BY <1>6, <2>2 DEF Receive, Succeeded
      <3>2. lists' \in Users
        BY <1>6, <2>2, <3>1 DEF SessionIndInv, AnswersAreTrue, Holds
      <3>3. StartUpAlone'
        BY <2>1, <3>1 DEF SessionIndInv, StartUpAlone
      <3> QED
        BY <1>1, <1>3, <3>1, <3>2, <3>3 DEF SessionIndInv, ShownIsHolder
    <2>3. CASE call["list"].state = "unauthorized"
      <3>1. stored' = 0 /\ shown' = None /\ initialized' = TRUE /\ lists' = lists
        BY <1>6, <2>3 DEF Receive, Unauthorized
      <3>2. StartUpAlone'
        BY <2>1, <2>3 DEF SessionIndInv, StartUpAlone
      <3> QED
        BY <1>1, <1>3, <3>1, <3>2
    <2>4. CASE call["list"].state = "error"
      <3>1. UNCHANGED <<stored, shown, initialized, lists>>
        BY <1>6, <2>4 DEF Receive, Failed
      <3>2. StartUpAlone'
        BY <2>1, <3>1 DEF SessionIndInv, StartUpAlone
      <3> QED
        BY <1>1, <1>3, <3>1, <3>2 DEF SessionIndInv, ShownIsHolder
    <2> QED
      BY <1>1, <1>6, <2>2, <2>3, <2>4
  <1> QED
    BY <1>4, <1>5, <1>6 DEF Kinds

-----------------------------------------------------------------------------
(* The session: theorems                                                   *)

\* Whatever is answered, late or not at all, the inductive invariant holds.
THEOREM SessionInvariance == SessionSpec => []SessionIndInv
  <1>1. SessionInit => SessionIndInv
    <2> SUFFICES ASSUME SessionInit PROVE SessionIndInv
      OBVIOUS
    <2>1. holder = <<>> /\ holder \in Seq(Users) /\ Len(holder) = 0 /\ revoked = {}
      BY DEF SessionInit
    <2>2. NoCall \in Call /\ NoCall.state = "idle" /\ NoCall.token = 0
      BY SessionAssumption DEF NoCall, Call
    <2>3. call \in [Kinds -> Call] /\ \A kind \in Kinds : call[kind] = NoCall
      BY <2>2 DEF SessionInit
    <2>4. SessionTypeOK
      BY <2>1, <2>3, SessionAssumption DEF SessionInit, SessionTypeOK
    <2>5. AnswersAreTrue
      BY <2>1, <2>2, <2>3 DEF AnswersAreTrue, Kinds
    <2> QED
      BY <2>2, <2>3, <2>4, <2>5 DEF SessionInit, SessionIndInv, StartUpAlone, ShownIsHolder, Kinds
  <1>2. SessionIndInv /\ [SessionNext]_sessionVars => SessionIndInv'
    <2> SUFFICES ASSUME SessionIndInv, [SessionNext]_sessionVars PROVE SessionIndInv'
      OBVIOUS
    <2>1. CASE UNCHANGED sessionVars
      BY <2>1 DEF sessionVars, SessionIndInv, SessionTypeOK, AnswersAreTrue, Holds, StartUpAlone,
                  ShownIsHolder
    <2>2. ASSUME NEW kind \in Kinds, Answer(kind)
          PROVE  SessionIndInv'
      BY <2>2, ReplyStep, LoginStep DEF Answer
    <2>3. ASSUME NEW k \in Tokens \ revoked, k <= Len(holder), Revoke(k)
          PROVE  SessionIndInv'
      <3>1. k \in 1 .. Len(holder)
        BY <2>3 DEF Tokens, SessionIndInv, SessionTypeOK
      <3>2. SessionTypeOK'
        BY <2>3, <3>1 DEF Revoke, SessionIndInv, SessionTypeOK
      <3> QED
        BY <2>3, <3>2 DEF Revoke, SessionIndInv, AnswersAreTrue, Holds, StartUpAlone, ShownIsHolder
    <2> QED
      BY <2>1, <2>2, <2>3, LoadStep, SendStep, LogoutStep, ReceiveStep DEF SessionNext
  <1> QED
    BY <1>1, <1>2, PTL DEF SessionSpec

\* When nobody logs in during the start-up, the user on the screen is the holder
\* of the stored token, through reloads, late answers and tokens that end
\* (frontend_notifications/README.md: "`AuthBootstrap` restores the user").
THEOREM ShownUserActs == SessionSpec => []SessionInv
  <1>1. SessionIndInv => SessionInv
    BY DEF SessionIndInv, SessionInv
  <1> QED
    BY <1>1, SessionInvariance, PTL

-----------------------------------------------------------------------------
(* What the pages show of a notification                                   *)

\* What has been read or reported is not from the future, and an attempt that is
\* under way has a run left.
ViewsIndInv ==
    /\ ViewsInv
    /\ due <= server.version
    /\ cache.fetch = "answered" => cache.answer.version <= server.version
    /\ server.status = "PROCESSING" => server.runs > 0

\* The types of the parts.
LEMMA ViewsTypes ==
    ASSUME ViewsIndInv
    PROVE  /\ server.version \in Versions /\ server.status \in Statuses
           /\ server.runs \in 0 .. MaxRuns
           /\ cache \in Entry /\ cache.data \in Snapshot /\ cache.answer \in Snapshot
           /\ cache.data.version \in Versions /\ cache.answer.version \in Versions
           /\ cache.fetch \in {"idle", "asked", "answered"}
           /\ due \in Versions /\ MaxRuns \in Nat \ {0} /\ Versions \subseteq Nat
           /\ MaxVersion \in Nat
  BY ViewsAssumption DEF ViewsIndInv, ViewsInv, ViewsTypeOK, Entry, Snapshot, Versions

\* The server goes on; the screen and what is under way stay as they are.
LEMMA ServerStep ==
    ASSUME ViewsIndInv, UNCHANGED <<page, q, cache, due>>,
           server' \in [version : Versions, status : Statuses, runs : 0 .. MaxRuns],
           server'.version >= server.version,
           server'.status = "PROCESSING" => server'.runs > 0,
           mutation' \in [kind : Mutations, state : {"idle", "asked", "done"}]
    PROVE  ViewsIndInv'
  <1>1. server'.version \in Versions
    OBVIOUS
  <1> QED
    BY <1>1, ViewsTypes DEF ViewsIndInv, ViewsInv, ViewsTypeOK, NeverBackwards

\* A change of the notification is a later version of it.
LEMMA ChangeIsLater ==
    ASSUME ViewsIndInv, NEW status \in Statuses, NEW runs \in 0 .. MaxRuns,
           Change(status, runs)
    PROVE  /\ server' \in [version : Versions, status : Statuses, runs : 0 .. MaxRuns]
           /\ server'.version >= server.version
           /\ server'.status = status /\ server'.runs = runs
  <1>1. server.version + 1 \in Versions
    BY ViewsTypes DEF Change, Versions
  <1> QED
    BY <1>1, ViewsTypes DEF Change

\* The worker and the webhooks.
LEMMA DeliverStep ==
    ASSUME ViewsIndInv, Deliver
    PROVE  ViewsIndInv'
  <1>1. UNCHANGED <<page, q, cache, due>> /\ UNCHANGED mutation
    BY DEF Deliver
  <1>2. mutation \in [kind : Mutations, state : {"idle", "asked", "done"}]
    BY DEF ViewsIndInv, ViewsInv, ViewsTypeOK
  <1>3. ASSUME NEW status \in Statuses, NEW runs \in 0 .. MaxRuns, Change(status, runs),
               status = "PROCESSING" => runs > 0
        PROVE  ViewsIndInv'
    BY <1>1, <1>2, <1>3, ChangeIsLater, ServerStep
  <1>4. CASE server.runs > 0 /\ Change("PROCESSING", server.runs)
    BY <1>3, <1>4, ViewsTypes DEF Statuses
  <1>5. CASE Change("SENT", 0)
    BY <1>3, <1>5, ViewsTypes DEF Statuses
  <1>6. CASE server.status = "PROCESSING" /\ Change("FAILED", server.runs - 1)
    <2>1. server.runs - 1 \in 0 .. MaxRuns
      BY <1>6, ViewsTypes DEF ViewsIndInv
    <2> QED
      BY <1>3, <1>6, <2>1 DEF Statuses, Terminal
  <1>7. CASE \E s \in Terminal : Change(s, server.runs)
    <2>1. PICK s \in Terminal : Change(s, server.runs)
      BY <1>7
    <2>2. s \in Statuses /\ s # "PROCESSING"
      BY DEF Terminal, Statuses
    <2> QED
      BY <1>3, <2>1, <2>2, ViewsTypes
  <1> QED
    BY <1>4, <1>5, <1>6, <1>7 DEF Deliver

\* A mutation is served, or fails.
LEMMA ServeMutationStep ==
    ASSUME ViewsIndInv, ServeMutation
    PROVE  ViewsIndInv'
  <1>1. /\ UNCHANGED <<page, q, cache, due>>
        /\ server \in [version : Versions, status : Statuses, runs : 0 .. MaxRuns]
        /\ mutation \in [kind : Mutations, state : {"idle", "asked", "done"}]
        /\ server.status = "PROCESSING" => server.runs > 0
    BY DEF ServeMutation, ViewsIndInv, ViewsInv, ViewsTypeOK
  <1>2. mutation' \in [kind : Mutations, state : {"idle", "asked", "done"}]
    BY <1>1 DEF ServeMutation, Mutations
  <1>3. CASE server' = [server EXCEPT !.runs = IF server.runs > 0 THEN server.runs
                                               ELSE MaxRuns]
    <2> DEFINE runs == IF server.runs > 0 THEN server.runs ELSE MaxRuns
    <2>1. runs \in 0 .. MaxRuns /\ runs > 0
      BY ViewsTypes
    <2>2. server' = [server EXCEPT !.runs = runs]
      BY <1>3
    <2> HIDE DEF runs
    <2>3. /\ server' \in [version : Versions, status : Statuses, runs : 0 .. MaxRuns]
          /\ server'.version = server.version /\ server'.runs > 0
      BY <1>1, <2>1, <2>2
    <2> QED
      BY <1>1, <1>2, <2>3, ServerStep, ViewsTypes
  <1>4. CASE Change(server.status, server.runs)
    BY <1>1, <1>2, <1>4, ChangeIsLater, ServerStep, ViewsTypes
  <1>5. CASE Change("GONE", 0)
    <2>1. "GONE" \in Statuses /\ 0 \in 0 .. MaxRuns
      BY ViewsTypes DEF Statuses
    <2> QED
      BY <1>1, <1>2, <1>5, <2>1, ChangeIsLater, ServerStep
  <1>6. CASE UNCHANGED server
    BY <1>1, <1>2, <1>6, ServerStep, ViewsTypes
  <1> QED
    BY <1>3, <1>4, <1>5, <1>6 DEF ServeMutation

\* A step of the client.
LEMMA CacheStep ==
    ASSUME ViewsIndInv, UNCHANGED <<server, q>>, page' \in Pages,
           mutation' \in [kind : Mutations, state : {"idle", "asked", "done"}],
           due' \in Versions, due' <= server.version,
           cache' \in Entry, cache'.data.version <= server.version,
           cache'.fetch = "answered" =>
               /\ cache'.answer.version >= due'
               /\ cache'.answer.version >= cache'.data.version
               /\ cache'.answer.version <= server.version
    PROVE  ViewsIndInv'
  BY DEF ViewsIndInv, ViewsInv, ViewsTypeOK, NeverBackwards

\* The same, of a step that only asks or ages.
LEMMA NothingLands ==
    ASSUME ViewsIndInv, UNCHANGED <<server, q, due>>, page' \in Pages,
           mutation' \in [kind : Mutations, state : {"idle", "asked", "done"}],
           cache' \in Entry, cache'.data = cache.data,
           cache'.fetch = "answered" => cache.fetch = "answered" /\ cache'.answer = cache.answer
    PROVE  ViewsIndInv'
  <1>1. /\ due \in Versions /\ due <= server.version
        /\ cache.data.version <= server.version
        /\ cache.fetch = "answered" =>
               /\ cache.answer.version >= due
               /\ cache.answer.version >= cache.data.version
               /\ cache.answer.version <= server.version
    BY DEF ViewsIndInv, ViewsInv, ViewsTypeOK, NeverBackwards
  <1> QED
    BY <1>1, CacheStep

\* The fields of an entry that is changed.
LEMMA EntryChange ==
    ASSUME NEW c \in Entry
    PROVE  /\ [c EXCEPT !.fetch = "asked"] \in Entry
           /\ [c EXCEPT !.fetch = "asked"].data = c.data
           /\ [c EXCEPT !.fetch = "asked"].fetch = "asked"
           /\ [c EXCEPT !.stale = TRUE] \in Entry
           /\ [c EXCEPT !.stale = TRUE].data = c.data
           /\ [c EXCEPT !.stale = TRUE].fetch = c.fetch
           /\ [c EXCEPT !.stale = TRUE].answer = c.answer
  BY DEF Entry

\* A query is asked for, a page is opened, a mutation is sent.
LEMMA AskingStep ==
    ASSUME ViewsIndInv,
           \/ \E p \in Pages : Navigate(p)
           \/ \E kind \in Mutations \ {"none"} : Mutate(kind)
           \/ Ask \/ Age
    PROVE  ViewsIndInv'
  <1>1. /\ cache \in Entry /\ page \in Pages
        /\ mutation \in [kind : Mutations, state : {"idle", "asked", "done"}]
    BY DEF ViewsIndInv, ViewsInv, ViewsTypeOK
  <1>2. ASSUME NEW p \in Pages, Navigate(p)
        PROVE  ViewsIndInv'
    <2>1. UNCHANGED <<server, q, due>> /\ page' \in Pages /\ mutation' = mutation
      BY <1>2 DEF Navigate
    <2>2. cache' = cache \/ cache' = [cache EXCEPT !.fetch = "asked"]
      BY <1>2 DEF Navigate, Mounted
    <2> QED
      BY <1>1, <2>1, <2>2, EntryChange, NothingLands
  <1>3. ASSUME NEW kind \in Mutations, Mutate(kind)
        PROVE  ViewsIndInv'
    <2>1. /\ UNCHANGED <<server, q, due>> /\ page' = page /\ cache' = cache
          /\ mutation' \in [kind : Mutations, state : {"idle", "asked", "done"}]
      BY <1>3 DEF Mutate
    <2> QED
      BY <1>1, <2>1, NothingLands
  <1>4. CASE Ask
    <2>1. /\ UNCHANGED <<server, q, due>> /\ page' = page /\ mutation' = mutation
          /\ cache' = [cache EXCEPT !.fetch = "asked"]
      BY <1>4 DEF Ask
    <2> QED
      BY <1>1, <2>1, EntryChange, NothingLands
  <1>5. CASE Age
    <2>1. /\ UNCHANGED <<server, q, due>> /\ page' = page /\ mutation' = mutation
          /\ cache' = [cache EXCEPT !.stale = TRUE]
      BY <1>5 DEF Age
    <2> QED
      BY <1>1, <2>1, EntryChange, NothingLands
  <1> QED
    BY <1>2, <1>3, <1>4, <1>5

\* A request is served, lands or is lost: what is read is the latest version.
LEMMA AnswerStep ==
    ASSUME ViewsIndInv, Serve \/ Land \/ Lose
    PROVE  ViewsIndInv'
  <1>1. /\ cache \in Entry /\ cache.data \in Snapshot /\ cache.answer \in Snapshot
        /\ page' \in Pages /\ UNCHANGED <<server, q, due>>
        /\ mutation' \in [kind : Mutations, state : {"idle", "asked", "done"}]
        /\ due \in Versions /\ due <= server.version
        /\ cache.data.version <= server.version
    BY ViewsTypes DEF Serve, Land, Lose, ViewsIndInv, ViewsInv, ViewsTypeOK
  <1>2. CASE Serve
    <2> DEFINE lost == [cache EXCEPT !.fetch = "idle", !.error = TRUE]
               read == [cache EXCEPT !.fetch = "answered", !.answer = Current]
    <2>1. lost \in Entry /\ lost.data = cache.data /\ lost.fetch = "idle"
      BY <1>1 DEF Entry
    <2>2. Current \in Snapshot /\ Current.version = server.version
      BY ViewsTypes DEF Current, Snapshot
    <2>3. /\ read \in Entry /\ read.data = cache.data /\ read.answer = Current
          /\ read.fetch = "answered"
      BY <1>1, <2>2 DEF Entry
    <2>4. cache' = lost \/ cache' = read
      BY <1>2 DEF Serve
    <2> HIDE DEF lost, read
    <2>5. /\ cache' \in Entry /\ cache'.data = cache.data
          /\ cache'.fetch = "answered" => cache'.answer.version = server.version
      BY <2>1, <2>2, <2>3, <2>4
    <2> QED
      BY <1>1, <2>5, ViewsTypes, CacheStep
  <1>3. CASE Land
    <2> DEFINE landed == [Empty EXCEPT !.data = cache.answer]
    <2>1. landed \in Entry /\ landed.data = cache.answer /\ landed.fetch = "idle"
      <3>1. NoData \in Snapshot
        BY ViewsTypes DEF NoData, Snapshot, Versions
      <3> QED
        BY <1>1, <3>1 DEF Empty, Entry
    <2>2. cache' = landed /\ cache.answer.version <= server.version
      BY <1>3 DEF Land, ViewsIndInv
    <2> HIDE DEF landed
    <2> QED
      BY <1>1, <2>1, <2>2, CacheStep
  <1>4. CASE Lose
    <2> DEFINE lost == [cache EXCEPT !.fetch = "idle", !.answer = NoData, !.error = TRUE]
    <2>1. NoData \in Snapshot
      BY ViewsTypes DEF NoData, Snapshot, Versions
    <2>2. lost \in Entry /\ lost.data = cache.data /\ lost.fetch = "idle"
      BY <1>1, <2>1 DEF Entry
    <2>3. cache' = lost
      BY <1>4 DEF Lose
    <2> HIDE DEF lost
    <2> QED
      BY <1>1, <2>2, <2>3, NothingLands
  <1> QED
    BY <1>2, <1>3, <1>4

\* The end of a mutation: an answer that was read before it is dropped wherever
\* the page must show the mutation.
LEMMA SettleStep ==
    ASSUME ViewsIndInv, Settle
    PROVE  ViewsIndInv'
  <1>1. /\ cache \in Entry /\ NoData \in Snapshot
        /\ page' \in Pages /\ UNCHANGED <<server, q>>
        /\ mutation' \in [kind : Mutations, state : {"idle", "asked", "done"}]
        /\ cache.data.version <= server.version
        /\ cache.fetch = "answered" =>
               /\ cache.answer.version >= cache.data.version
               /\ cache.answer.version <= server.version
    BY ViewsTypes DEF Settle, ViewsIndInv, ViewsInv, ViewsTypeOK, NeverBackwards, Mutations,
       NoData, Snapshot, Versions
  <1>2. 0 \in Versions /\ 0 <= server.version /\ server.version \in Versions
    BY ViewsTypes DEF Versions
  <1> DEFINE anew == [cache EXCEPT !.stale = TRUE, !.fetch = "asked", !.answer = NoData]
             kept == [cache EXCEPT !.stale = TRUE]
  <1>3. anew \in Entry /\ anew.data = cache.data /\ anew.fetch = "asked"
    BY <1>1 DEF Entry
  <1>4. /\ kept \in Entry /\ kept.data = cache.data /\ kept.fetch = cache.fetch
        /\ kept.answer = cache.answer
    BY <1>1 DEF Entry
  <1>5. Empty \in Entry /\ Empty.data = NoData /\ Empty.fetch = "idle" /\ NoData.version = 0
    BY <1>1 DEF Empty, Entry, NoData
  <1>6. CASE q \in Invalidates(mutation.kind) /\ Active /\ cache.data # NoData
    <2>1. cache' = anew /\ due' = server.version
      BY <1>6 DEF Settle, Invalidated
    <2> HIDE DEF anew
    <2> QED
      BY <1>1, <1>2, <1>3, <2>1, ViewsTypes, CacheStep
  <1>7. CASE ~(q \in Invalidates(mutation.kind) /\ Active /\ cache.data # NoData)
    <2>1. (cache' = anew \/ cache' = kept \/ cache' = Empty) /\ due' = 0
      BY <1>7 DEF Settle, Invalidated
    <2> HIDE DEF anew, kept
    <2>2. cache' \in Entry /\ cache'.data.version <= server.version
      BY <1>1, <1>2, <1>3, <1>4, <1>5, <2>1
    <2>3. cache'.fetch = "answered" =>
              cache.fetch = "answered" /\ cache'.answer = cache.answer
                /\ cache'.data = cache.data
      BY <1>3, <1>4, <1>5, <2>1
    <2>4. cache.answer.version >= 0
      BY ViewsTypes
    <2> QED
      BY <1>1, <1>2, <2>1, <2>2, <2>3, <2>4, CacheStep
  <1> QED
    BY <1>6, <1>7

\* Whatever is polled, invalidated, lost or overtaken, no answer takes the screen
\* back to an older version, nor to one from before a mutation that was reported.
THEOREM ViewsGoForward == ViewsSpec => []ViewsInv
  <1>1. ViewsInit => ViewsIndInv
    <2> SUFFICES ASSUME ViewsInit PROVE ViewsIndInv
      OBVIOUS
    <2>1. NoData \in Snapshot /\ NoData.version = 0
      BY ViewsAssumption DEF NoData, Snapshot, Versions
    <2>2. Empty \in Entry /\ Empty.data = NoData /\ Empty.fetch = "idle"
      BY <2>1 DEF Empty, Entry
    <2>3. [Empty EXCEPT !.fetch = "asked"] \in Entry
          /\ [Empty EXCEPT !.fetch = "asked"].data = NoData
          /\ [Empty EXCEPT !.fetch = "asked"].fetch = "asked"
      BY <2>2, EntryChange
    <2>4. cache \in Entry /\ cache.data = NoData /\ cache.fetch # "answered"
      BY <2>2, <2>3 DEF ViewsInit
    <2>5. /\ server \in [version : Versions, status : Statuses, runs : 0 .. MaxRuns]
          /\ server.version = 1 /\ server.status = "PENDING"
      BY ViewsAssumption DEF ViewsInit, Versions, Statuses
    <2>6. page \in Pages
      BY DEF ViewsInit, Pages, QueriesOn
    <2>7. q \in Queries /\ due = 0 /\ due \in Versions
          /\ mutation \in [kind : Mutations, state : {"idle", "asked", "done"}]
      BY ViewsAssumption DEF ViewsInit, Mutations, Versions
    <2> QED
      BY <2>1, <2>4, <2>5, <2>6, <2>7 DEF ViewsIndInv, ViewsInv, ViewsTypeOK, NeverBackwards
  <1>2. ViewsIndInv /\ [ViewsNext]_viewVars => ViewsIndInv'
    <2> SUFFICES ASSUME ViewsIndInv, [ViewsNext]_viewVars PROVE ViewsIndInv'
      OBVIOUS
    <2>1. CASE UNCHANGED viewVars
      BY <2>1 DEF viewVars, ViewsIndInv, ViewsInv, ViewsTypeOK, NeverBackwards
    <2>2. Poll \/ Refetch => Ask
      BY DEF Poll, Refetch
    <2> QED
      BY <2>1, <2>2, DeliverStep, ServeMutationStep, SettleStep, AskingStep, AnswerStep
         DEF ViewsNext
  <1>3. ViewsIndInv => ViewsInv
    BY DEF ViewsIndInv
  <1> QED
    BY <1>1, <1>2, <1>3, PTL DEF ViewsSpec

-----------------------------------------------------------------------------
(* The push registration and its listener                                  *)

\* One mount is active at a time, and the subscription of a mount is live only
\* while the mount is active and keeps it, so that the cleanup ends it.
PushIndInv ==
    /\ PushInv
    /\ \A m \in Mounts : listening[m].live => listening[m].kept /\ listening[m].active
    /\ \A m, k \in Mounts : listening[m].active /\ listening[k].active => m = k

\* A step that changes one registration: it is settled without timer and listener.
LEMMA RegistrationStep ==
    ASSUME PushIndInv, NEW g \in Registrations, NEW r \in Registration,
           reg' = [reg EXCEPT ![g] = r], UNCHANGED listening,
           button' \subseteq Registrations, recipient' \in {"typed", "id"},
           r.state \in {"id", "error"} => ~r.timer /\ ~r.listener
    PROVE  PushIndInv'
  <1>1. /\ reg' \in [Registrations -> Registration] /\ reg'[g] = r
        /\ \A other \in Registrations \ {g} : reg'[other] = reg[other]
    BY DEF PushIndInv, PushInv, PushTypeOK
  <1>2. PushTypeOK'
    BY <1>1 DEF PushIndInv, PushInv, PushTypeOK
  <1>3. NothingLeftBehind'
    BY <1>1 DEF PushIndInv, PushInv, NothingLeftBehind, Settled
  <1> QED
    BY <1>2, <1>3 DEF PushIndInv, PushInv

\* A step that changes one mount.
LEMMA MountStep ==
    ASSUME PushIndInv, NEW m \in Mounts, NEW l \in Listening, SetMount(m, l),
           l.live => l.kept /\ l.active,
           l.active => listening[m].active \/ (\A k \in Mounts : ~listening[k].active)
    PROVE  PushIndInv'
  <1>1. /\ listening' \in [Mounts -> Listening] /\ listening'[m] = l
        /\ \A k \in Mounts \ {m} : listening'[k] = listening[k]
        /\ UNCHANGED <<reg, button, recipient>>
    BY DEF SetMount, PushIndInv, PushInv, PushTypeOK
  <1>2. PushTypeOK'
    BY <1>1 DEF PushIndInv, PushInv, PushTypeOK
  <1>3. \A k \in Mounts : listening'[k].live => listening'[k].kept /\ listening'[k].active
    BY <1>1 DEF PushIndInv
  <1>4. \A k, n \in Mounts : listening'[k].active /\ listening'[n].active => k = n
    BY <1>1 DEF PushIndInv
  <1>5. NothingLeftBehind'
    BY <1>1, <1>3, <1>4 DEF PushIndInv, PushInv, NothingLeftBehind, Settled
  <1> QED
    BY <1>2, <1>3, <1>4, <1>5 DEF PushIndInv, PushInv

\* What happens to a registration.
LEMMA RegistrationKept ==
    ASSUME PushIndInv, NEW g \in Registrations,
           \/ Press(g) \/ Refuse(g) \/ Start(g) \/ TimeOut(g) \/ Registered(g)
           \/ CallEnds(g) \/ Finish(g) \/ Forget(g)
    PROVE  PushIndInv'
  <1>1. /\ reg[g] \in Registration /\ reg \in [Registrations -> Registration]
        /\ button \subseteq Registrations /\ recipient \in {"typed", "id"}
        /\ Settled(g) => ~reg[g].timer /\ ~reg[g].listener
    BY DEF PushIndInv, PushInv, PushTypeOK, NothingLeftBehind
  <1>2. CASE Press(g)
    <2> DEFINE r == [reg[g] EXCEPT !.state = "preparing"]
    <2>1. r \in Registration /\ r.state = "preparing"
      BY <1>1 DEF Registration
    <2>2. /\ reg' = [reg EXCEPT ![g] = r] /\ button' = {g} /\ UNCHANGED <<recipient, listening>>
      BY <1>2 DEF Press
    <2> QED
      BY <1>1, <2>1, <2>2, RegistrationStep
  <1>3. ASSUME NEW r \in Registration, SetReg(g, r),
               r.state \in {"id", "error"} => ~r.timer /\ ~r.listener
        PROVE  PushIndInv'
    BY <1>1, <1>3, RegistrationStep DEF SetReg
  <1>4. CASE Refuse(g)
    <2>1. /\ [Fresh EXCEPT !.state = "error"] \in Registration
          /\ ~[Fresh EXCEPT !.state = "error"].timer
          /\ ~[Fresh EXCEPT !.state = "error"].listener
      BY DEF Fresh, Registration
    <2> QED
      BY <1>3, <1>4, <2>1 DEF Refuse
  <1>5. CASE Start(g)
    BY <1>3, <1>5 DEF Start, Registration
  <1>6. ASSUME NEW outcome \in {"id", "error"}
        PROVE  /\ Outcome(g, outcome) \in Registration
               /\ ~Outcome(g, outcome).timer /\ ~Outcome(g, outcome).listener
               /\ [Outcome(g, outcome) EXCEPT !.call = FALSE] \in Registration
               /\ ~[Outcome(g, outcome) EXCEPT !.call = FALSE].timer
               /\ ~[Outcome(g, outcome) EXCEPT !.call = FALSE].listener
    BY <1>1 DEF Outcome, Registration
  <1>7. CASE TimeOut(g)
    <2>1. CASE Settled(g)
      BY <1>1, <1>7, <2>1 DEF TimeOut
    <2>2. CASE ~Settled(g)
      BY <1>3, <1>6, <1>7, <2>2 DEF TimeOut
    <2> QED
      BY <2>1, <2>2
  <1>8. CASE Registered(g)
    BY <1>3, <1>6, <1>8 DEF Registered
  <1>9. CASE CallEnds(g)
    <2> DEFINE r == [reg[g] EXCEPT !.call = FALSE]
    <2>1. r \in Registration /\ (r.state \in {"id", "error"} => ~r.timer /\ ~r.listener)
      BY <1>1 DEF Registration, Settled
    <2>2. CASE SetReg(g, r)
      BY <1>3, <2>1, <2>2
    <2>3. CASE SetReg(g, [Outcome(g, "error") EXCEPT !.call = FALSE])
      BY <1>3, <1>6, <2>3
    <2> QED
      BY <1>9, <2>2, <2>3 DEF CallEnds
  <1>10. CASE Finish(g)
    <2>1. /\ UNCHANGED <<reg, listening>> /\ button' = {} /\ recipient' \in {"typed", "id"}
      BY <1>1, <1>10 DEF Finish
    <2> QED
      BY <2>1 DEF PushIndInv, PushInv, PushTypeOK, NothingLeftBehind, Settled
  <1>11. CASE Forget(g)
    <2>1. Fresh \in Registration /\ ~Fresh.timer /\ ~Fresh.listener
      BY DEF Fresh, Registration
    <2> QED
      BY <1>3, <1>11, <2>1 DEF Forget
  <1> QED
    BY <1>2, <1>4, <1>5, <1>7, <1>8, <1>9, <1>10, <1>11

\* What happens to a mount of the listener.
LEMMA MountKept ==
    ASSUME PushIndInv, NEW m \in Mounts, Mount(m) \/ Arrives(m) \/ Unmount(m)
    PROVE  PushIndInv'
  <1>1. /\ listening[m] \in Listening
        /\ listening[m].live => listening[m].kept /\ listening[m].active
    BY DEF PushIndInv, PushInv, PushTypeOK
  <1>2. CASE Mount(m)
    <2> DEFINE l == [NotListening EXCEPT !.active = TRUE, !.asking = TRUE]
    <2>1. l \in Listening /\ ~l.live
      BY DEF NotListening, Listening
    <2>2. SetMount(m, l) /\ \A k \in Mounts : ~listening[k].active
      BY <1>2 DEF Mount
    <2> HIDE DEF l
    <2> QED
      BY <2>1, <2>2, MountStep
  <1>3. CASE Arrives(m)
    <2> DEFINE l == [listening[m] EXCEPT !.asking = FALSE,
                         !.live = listening[m].active, !.kept = listening[m].active]
               gone == [listening[m] EXCEPT !.asking = FALSE]
    <2>1. /\ l \in Listening /\ l.live = listening[m].active
          /\ l.kept = listening[m].active /\ l.active = listening[m].active
      BY <1>1 DEF Listening
    <2>2. /\ gone \in Listening /\ gone.live = listening[m].live
          /\ gone.kept = listening[m].kept /\ gone.active = listening[m].active
      BY <1>1 DEF Listening
    <2>3. SetMount(m, l) \/ SetMount(m, gone)
      BY <1>3 DEF Arrives
    <2> HIDE DEF l, gone
    <2> QED
      BY <1>1, <2>1, <2>2, <2>3, MountStep
  <1>4. CASE Unmount(m)
    <2> DEFINE l == [listening[m] EXCEPT !.active = FALSE, !.kept = FALSE,
                         !.live = IF listening[m].kept THEN FALSE ELSE listening[m].live]
    <2>1. l \in Listening /\ ~l.live /\ ~l.active
      BY <1>1 DEF Listening
    <2>2. SetMount(m, l)
      BY <1>4 DEF Unmount
    <2> HIDE DEF l
    <2> QED
      BY <2>1, <2>2, MountStep
  <1> QED
    BY <1>2, <1>3, <1>4

\* Whichever callback settles a registration first, the timer and the listener
\* are gone, and the subscription of a mount ends with the mount
\* (registerForPushNotifications, PushForegroundListener).
THEOREM NothingCallsBack == PushSpec => []PushInv
  <1>1. PushInit => PushIndInv
    <2> SUFFICES ASSUME PushInit PROVE PushIndInv
      OBVIOUS
    <2>1. Fresh \in Registration /\ Fresh.state = "new"
      BY DEF Fresh, Registration
    <2>2. NotListening \in Listening /\ ~NotListening.live /\ ~NotListening.active
      BY DEF NotListening, Listening
    <2>3. PushTypeOK
      BY <2>1, <2>2 DEF PushInit, PushTypeOK
    <2> QED
      BY <2>1, <2>2, <2>3 DEF PushInit, PushIndInv, PushInv, NothingLeftBehind, Settled
  <1>2. PushIndInv /\ [PushNext]_pushVars => PushIndInv'
    <2> SUFFICES ASSUME PushIndInv, [PushNext]_pushVars PROVE PushIndInv'
      OBVIOUS
    <2>1. CASE UNCHANGED pushVars
      BY <2>1 DEF pushVars, PushIndInv, PushInv, PushTypeOK, NothingLeftBehind, Settled
    <2>2. CASE LeaveForm
      BY <2>2 DEF LeaveForm, PushIndInv, PushInv, PushTypeOK, NothingLeftBehind, Settled
    <2> QED
      BY <2>1, <2>2, RegistrationKept, MountKept DEF PushNext
  <1>3. PushIndInv => PushInv
    BY DEF PushIndInv
  <1> QED
    BY <1>1, <1>2, <1>3, PTL DEF PushSpec

-----------------------------------------------------------------------------
(* The controls of the list                                                *)

\* Without a running timer the typed text applies, and without a request or an
\* error the data on the screen is that of the choices in effect.
PageIndInv ==
    /\ PageTypeOK
    /\ ~pause => typed = search
    /\ ~loading /\ ~failed =>
        /\ view.shown
        /\ view.key = KeyOf(search, filter, gridPage)
        /\ gridPage <= LastPage(view.total)

\* Fewer rows have no more pages.
LEMMA LastPageGrows ==
    ASSUME NEW total \in Nat, NEW n \in Nat, total <= n
    PROVE  LastPage(total) \in Nat /\ LastPage(total) <= LastPage(n)
  <1>1. ASSUME NEW r \in Nat \ {0}, NEW a \in Nat, NEW b \in Nat, a <= b
        PROVE  a \div r \in Nat /\ a \div r <= b \div r
    <2>1. a \div r <= b \div r
      BY <1>1
    <2>2. a \div r \in Nat
      BY <1>1
    <2> QED
      BY <2>1, <2>2
  <1>2. RowsPerPage \in Nat \ {0}
    BY PageAssumption
  <1>3. CASE total = 0
    <2>1. n # 0 => n - 1 \in Nat
      OBVIOUS
    <2> QED
      BY <1>1, <1>2, <1>3, <2>1 DEF LastPage
  <1>4. CASE total # 0
    <2>1. total - 1 \in Nat /\ n - 1 \in Nat /\ total - 1 <= n - 1 /\ n # 0
      BY <1>4
    <2> QED
      BY <1>1, <1>2, <1>4, <2>1 DEF LastPage
  <1> QED
    BY <1>3, <1>4

\* The last page of any answer is a page.
LEMMA LastPageIsPage ==
    ASSUME NEW total \in 0 .. MaxRows
    PROVE  LastPage(total) \in GridPages
  <1>1. MaxRows \in Nat
    BY PageAssumption
  <1>2. total \in Nat /\ total <= MaxRows
    BY <1>1
  <1>3. LastPage(total) \in Nat /\ LastPage(total) <= LastPage(MaxRows)
    BY <1>1, <1>2, LastPageGrows
  <1>4. LastPage(MaxRows) \in Nat
    BY <1>1, LastPageGrows
  <1> QED
    BY <1>3, <1>4 DEF GridPages

\* There is a first page.
LEMMA FirstPage == 0 \in GridPages /\ 0 \in 0 .. MaxRows
  <1>1. MaxRows \in Nat
    BY PageAssumption
  <1>2. LastPage(0) = 0
    BY DEF LastPage
  <1> QED
    BY <1>1, <1>2, LastPageIsPage

\* What comes to the screen for a page is data of a page that its rows have.
LEMMA DisplayShows ==
    ASSUME NEW s \in Texts, NEW f \in Filters, NEW p \in GridPages, NEW total \in 0 .. MaxRows,
           NEW loads, loads \subseteq BOOLEAN, Display(s, f, p, total, loads)
    PROVE  /\ gridPage' \in GridPages /\ view' \in View /\ loading' \in BOOLEAN
           /\ ~loading' =>
                /\ view'.shown /\ view'.key = KeyOf(s, f, gridPage')
                /\ gridPage' <= LastPage(view'.total)
  <1>1. LastPage(total) \in GridPages /\ GridPages \subseteq Nat
    BY LastPageIsPage DEF GridPages
  <1>2. gridPage' \in GridPages
    BY <1>1 DEF Display
  <1>3. ASSUME NEW n \in 0 .. MaxRows, NEW m \in GridPages, Shown(KeyOf(s, f, m), n)
        PROVE  /\ view' \in View /\ view'.shown
               /\ view'.key = KeyOf(s, f, m) /\ view'.total = n
    <2>1. KeyOf(s, f, m) \in Key
      BY DEF KeyOf, Key
    <2> QED
      BY <1>3, <2>1 DEF Shown, View
  <1>4. CASE p <= LastPage(total) /\ Shown(KeyOf(s, f, p), total) /\ loading' \in loads
    <2>1. gridPage' = p
      BY <1>4 DEF Display
    <2> QED
      BY <1>2, <1>3, <1>4, <2>1
  <1>5. CASE p > LastPage(total) /\ Shown(KeyOf(s, f, p), total) /\ loading' = TRUE
    BY <1>2, <1>3, <1>5
  <1>6. ASSUME NEW n \in 0 .. MaxRows, gridPage' <= LastPage(n),
               Shown(KeyOf(s, f, gridPage'), n), loading' \in BOOLEAN
        PROVE  /\ view' \in View
               /\ view'.shown /\ view'.key = KeyOf(s, f, gridPage')
               /\ gridPage' <= LastPage(view'.total)
    BY <1>2, <1>3, <1>6
  <1> QED
    BY <1>2, <1>4, <1>5, <1>6 DEF Display

\* A choice is made: its own data is on the screen, or is loading.
LEMMA ChooseStep ==
    ASSUME PageIndInv, NEW s \in Texts, NEW f \in Filters, NEW p \in GridPages,
           Choose(s, f, p), typed' \in Texts, pause' \in BOOLEAN, ~pause' => typed' = s
    PROVE  PageIndInv'
  <1>1. search' = s /\ filter' = f
    BY DEF Choose
  <1>2. CASE KeyOf(s, f, p) = KeyOf(search, filter, gridPage)
    <2>1. s = search /\ f = filter /\ p = gridPage
      <3>1. \A a, b, c : KeyOf(a, b, c).search = a /\ KeyOf(a, b, c).filter = b
                            /\ KeyOf(a, b, c).page = c
        BY DEF KeyOf
      <3> QED
        BY <1>2, <3>1
    <2>2. UNCHANGED <<search, filter, gridPage, view, loading, failed>>
      BY <1>1, <1>2, <2>1 DEF Choose
    <2> QED
      BY <1>1, <2>1, <2>2 DEF PageIndInv, PageTypeOK
  <1>3. CASE KeyOf(s, f, p) # KeyOf(search, filter, gridPage)
    <2>1. failed' = FALSE
      BY <1>3 DEF Choose
    <2>2. CASE loading' = TRUE /\ gridPage' = p /\ UNCHANGED view
      BY <1>1, <2>1, <2>2 DEF PageIndInv, PageTypeOK
    <2>3. ASSUME NEW total \in 0 .. MaxRows, Display(s, f, p, total, BOOLEAN)
          PROVE  PageIndInv'
      <3>1. /\ gridPage' \in GridPages /\ view' \in View /\ loading' \in BOOLEAN
            /\ ~loading' =>
                /\ view'.shown /\ view'.key = KeyOf(s, f, gridPage')
                /\ gridPage' <= LastPage(view'.total)
        BY <2>3, DisplayShows
      <3> QED
        BY <1>1, <2>1, <3>1 DEF PageIndInv, PageTypeOK, KeyOf, LastPage
    <2> QED
      BY <1>3, <2>2, <2>3 DEF Choose
  <1> QED
    BY <1>2, <1>3

\* When the timer has run out and the data has come, the screen shows what was
\* chosen last, on a page that the list has, however the answers were overtaken.
THEOREM SettledPageIsRight == PageSpec => []PageInv
  <1>1. PageInit => PageIndInv
    <2> SUFFICES ASSUME PageInit PROVE PageIndInv
      OBVIOUS
    <2>1. 0 \in GridPages /\ 0 \in 0 .. MaxRows
      BY FirstPage
    <2>2. KeyOf(search, filter, 0) \in Key
      BY <2>1 DEF PageInit, KeyOf, Key
    <2>3. view \in View
      BY <2>1, <2>2 DEF PageInit, View
    <2> QED
      BY <2>1, <2>3 DEF PageInit, PageIndInv, PageTypeOK
  <1>2. PageIndInv /\ [PageNext]_pageVars => PageIndInv'
    <2> SUFFICES ASSUME PageIndInv, [PageNext]_pageVars PROVE PageIndInv'
      OBVIOUS
    <2>1. /\ typed \in Texts /\ search \in Texts /\ pause \in BOOLEAN
          /\ filter \in Filters /\ gridPage \in GridPages /\ 0 \in GridPages
          /\ loading \in BOOLEAN /\ failed \in BOOLEAN
          /\ "" \in Texts /\ "" \in Filters
      BY FirstPage, PageAssumption DEF PageIndInv, PageTypeOK
    <2>2. CASE UNCHANGED pageVars
      BY <2>2 DEF pageVars, PageIndInv, PageTypeOK, KeyOf, LastPage
    <2>3. ASSUME NEW text \in Texts, Type(text)
          PROVE  PageIndInv'
      BY <2>3 DEF Type, PageIndInv, PageTypeOK, KeyOf, LastPage
    <2>4. CASE ApplySearch
      BY <2>1, <2>4, ChooseStep DEF ApplySearch
    <2>5. ASSUME NEW f \in Filters, ChooseFilter(f)
          PROVE  PageIndInv'
      BY <2>1, <2>5, ChooseStep DEF ChooseFilter, PageIndInv
    <2>6. CASE ClearFilters
      <3>1. /\ typed' = "" /\ pause' \in BOOLEAN /\ Choose("", "", 0)
        BY <2>1, <2>6 DEF ClearFilters
      <3> QED
        BY <2>1, <3>1, ChooseStep
    <2>7. ASSUME NEW p \in GridPages, TurnPage(p)
          PROVE  PageIndInv'
      BY <2>1, <2>7, ChooseStep DEF TurnPage, PageIndInv
    <2>8. CASE Reload
      BY <2>8 DEF Reload, PageIndInv, PageTypeOK
    <2>9. CASE Data
      <3>1. /\ failed' = FALSE /\ UNCHANGED <<typed, pause, search, filter>>
            /\ \E total \in 0 .. MaxRows : Display(search, filter, gridPage, total, {FALSE})
        BY <2>9 DEF Data
      <3>2. /\ gridPage' \in GridPages /\ view' \in View /\ loading' \in BOOLEAN
            /\ ~loading' =>
                /\ view'.shown /\ view'.key = KeyOf(search, filter, gridPage')
                /\ gridPage' <= LastPage(view'.total)
        BY <2>1, <3>1, DisplayShows
      <3> QED
        BY <3>1, <3>2 DEF PageIndInv, PageTypeOK, KeyOf, LastPage
    <2>10. CASE DataFails
      BY <2>10 DEF DataFails, PageIndInv, PageTypeOK
    <2> QED
      BY <2>2, <2>3, <2>4, <2>5, <2>6, <2>7, <2>8, <2>9, <2>10 DEF PageNext
  <1>3. PageIndInv => PageInv
    BY DEF PageIndInv, PageInv, SettledShowsChoice
  <1> QED
    BY <1>1, <1>2, <1>3, PTL DEF PageSpec
=============================================================================
