------------------------------ MODULE Accounts ------------------------------
(***************************************************************************)
(* The users service and the authentication that is built on it, one       *)
(* database call of a request per step: registration, local and Google     *)
(* login, requests with a token, removal by an administrator.  Several     *)
(* requests run at a time; uncommitted inserts block the others, so that   *)
(* an insert and its commit are one step.                                  *)
(***************************************************************************)
CONSTANTS
    Ids,            \* user ids, each generated once
    Emails,         \* addresses, trimmed and in lower case
    Subjects,       \* Google account ids
    Requests,       \* bound: requests being handled at a time
    None

ASSUME NoneAssumption == None \notin Ids \cup Emails \cup Subjects

VARIABLES
    user,           \* the table users
    identity,       \* the table user_identities: the account of a Google id
    token,          \* the tokens issued and not expired
    req             \* the local state of each request

vars == <<user, identity, token, req>>

Directory == INSTANCE AccountDirectory

Live(i) == Directory!Live(i)

Token == [sub : Ids, email : Emails]

\* What a request has read of a row of users.
Read == [id : Ids \cup {None}, email : Emails \cup {None},
         status : {"ACTIVE", "DISABLED"}, role : {"USER", "ADMIN"}]

Nothing == [id |-> None, email |-> None, status |-> "ACTIVE", role |-> "USER"]

ReadRow(i) == [id |-> i, email |-> user[i].email, status |-> user[i].status,
               role |-> user[i].role]

Request == [pc : {"idle", "verify", "identity", "email", "link", "create", "again",
                  "sign", "handler", "token", "denied", "conflict", "failed"},
            email : Emails \cup {None}, subject : Subjects \cup {None},
            sub : Ids \cup {None}, row : Read]

Idle == [pc |-> "idle", email |-> None, subject |-> None, sub |-> None, row |-> Nothing]

AccountsInit ==
    /\ user = [i \in Ids |-> Directory!NoRow]
    /\ identity = [s \in Subjects |-> None]
    /\ token = {}
    /\ req = [r \in Requests |-> Idle]

Goto(r, pc) == req' = [req EXCEPT ![r] = [req[r] EXCEPT !.pc = pc]]

Keep(r, pc, i) == req' = [req EXCEPT ![r] = [req[r] EXCEPT !.pc = pc, !.row = ReadRow(i)]]

Rest == UNCHANGED <<user, identity, token>>

-----------------------------------------------------------------------------
(* Rows and their constraints                                              *)

ByEmail(e) == {i \in Ids : Live(i) /\ user[i].email = e}

SubjectTaken(i, s) == identity[s] # None

\* The unique keys of user_identities: on the Google id, and on the account.
IdentityTaken(i, s) == identity[s] # None \/ \E t \in Subjects : identity[t] = i

\* create: the address is unique (409 to the client otherwise, and no change).
Create(i, e) ==
    /\ user[i].state = "free"
    /\ ByEmail(e) = {}
    /\ user' = [user EXCEPT ![i] = Directory!NewRow(e, TRUE)]
    /\ UNCHANGED <<identity, token, req>>

RemoveUserOnly(i) ==
    /\ user' = [user EXCEPT ![i] = [Directory!NoRow EXCEPT !.state = "removed"]]
    /\ UNCHANGED identity

\* user.delete, and the cascade of the foreign key.
RemoveUser(i) ==
    /\ user' = [user EXCEPT ![i] = [Directory!NoRow EXCEPT !.state = "removed"]]
    /\ identity' = [s \in Subjects |-> IF identity[s] = i THEN None ELSE identity[s]]

\* No handler changes a status or a role: it is done in the database.
Administer(i) ==
    /\ Live(i)
    /\ \E status \in {"ACTIVE", "DISABLED"}, role \in {"USER", "ADMIN"} :
            user' = [user EXCEPT ![i] = [user[i] EXCEPT !.status = status, !.role = role]]
    /\ UNCHANGED <<identity, token, req>>

-----------------------------------------------------------------------------
(* Login                                                                   *)

\* The row is found by the address as it is typed (the guard reads the body
\* before any DTO would lower-case it); without it, or without a password, 401.
StartLocal(r, e, exact) ==
    /\ req[r].pc = "idle"
    /\ IF exact /\ \E i \in ByEmail(e) : user[i].password
       THEN \E i \in ByEmail(e) : Keep(r, "verify", i)
       ELSE Goto(r, "denied")
    /\ Rest

\* The password is compared with the hash read: a wrong one is 401.
Verify(r) ==
    /\ req[r].pc = "verify"
    /\ Goto(r, "sign") \/ Goto(r, "denied")
    /\ Rest

\* The callback of Google, with a profile; one without an address is refused.
StartGoogle(r, s, e) ==
    /\ req[r].pc = "idle"
    /\ req' = [req EXCEPT ![r] = [Idle EXCEPT !.subject = s, !.email = e,
                    !.pc = IF e = None THEN "denied" ELSE "identity"]]
    /\ Rest

\* The first lookup, before the transaction.
FindIdentity(r) ==
    /\ req[r].pc = "identity"
    /\ IF identity[req[r].subject] # None
       THEN Keep(r, "sign", identity[req[r].subject])
       ELSE Goto(r, "email")
    /\ Rest

\* In the transaction: the account with the address, if there is one.
FindByEmail(r) ==
    /\ req[r].pc = "email"
    /\ IF ByEmail(req[r].email) # {}
       THEN \E i \in ByEmail(req[r].email) : Keep(r, "link", i)
       ELSE Goto(r, "create")
    /\ Rest

\* The identity is inserted for the account read. A unique key leads to the
\* second lookup; the foreign key, when the account is gone, to an error.
LinkIdentity(r) ==
    LET i == req[r].row.id  s == req[r].subject IN
    /\ req[r].pc = "link"
    /\ \/ /\ IdentityTaken(i, s)
          /\ Goto(r, "again")
          /\ UNCHANGED identity
       \/ /\ ~IdentityTaken(i, s) /\ ~Live(i)
          /\ Goto(r, "failed")
          /\ UNCHANGED identity
       \/ /\ ~IdentityTaken(i, s) /\ Live(i)
          /\ identity' = [identity EXCEPT ![s] = i]
          /\ Goto(r, "sign")
    /\ UNCHANGED <<user, token>>

\* Account and identity are inserted together, or neither.
CreateWithIdentity(r) ==
    LET e == req[r].email  s == req[r].subject IN
    /\ req[r].pc = "create"
    /\ \/ /\ ByEmail(e) # {} \/ identity[s] # None
          /\ Goto(r, "again")
          /\ UNCHANGED <<user, identity>>
       \/ /\ ByEmail(e) = {} /\ identity[s] = None
          /\ \E i \in Ids :
                /\ user[i].state = "free"
                /\ user' = [user EXCEPT ![i] = Directory!NewRow(e, FALSE)]
                /\ identity' = [identity EXCEPT ![s] = i]
                /\ req' = [req EXCEPT ![r] = [req[r] EXCEPT !.pc = "sign",
                        !.row = [Nothing EXCEPT !.id = i, !.email = e]]]
    /\ UNCHANGED token

TrustEmail(r) ==
    /\ req[r].pc = "again"
    /\ IF ByEmail(req[r].email) # {}
       THEN \E i \in ByEmail(req[r].email) : Keep(r, "sign", i)
       ELSE Goto(r, "conflict")
    /\ Rest

\* After a unique key failed: the identity another request has created, or 409.
FindAgain(r) ==
    /\ req[r].pc = "again"
    /\ IF identity[req[r].subject] # None
       THEN Keep(r, "sign", identity[req[r].subject])
       ELSE Goto(r, "conflict")
    /\ Rest

SignUnchecked(r) ==
    LET row == req[r].row IN
    /\ req[r].pc = "sign"
    /\ token' = token \cup {[sub |-> row.id, email |-> row.email]}
    /\ Goto(r, "token")
    /\ UNCHANGED <<user, identity>>

\* assertActive on the row that was read, then login signs the token.
Sign(r) ==
    LET row == req[r].row IN
    /\ req[r].pc = "sign"
    /\ IF row.status = "ACTIVE"
       THEN /\ token' = token \cup {[sub |-> row.id, email |-> row.email]}
            /\ Goto(r, "token")
       ELSE /\ Goto(r, "denied")
            /\ UNCHANGED token
    /\ UNCHANGED <<user, identity>>

-----------------------------------------------------------------------------
(* Requests with a token                                                   *)

HolderByEmail(t) == {i \in Ids : Live(i) /\ user[i].email = t.email}

\* The row JwtStrategy.validate loads: that of the payload's subject.
Holder(t) == {i \in Ids : Live(i) /\ i = t.sub}

\* JwtAuthGuard: the account is loaded at every request, and must be active.
Admit(r, t) ==
    /\ req[r].pc = "idle"
    /\ \/ \E i \in Holder(t) :
            /\ user[i].status = "ACTIVE"
            /\ req' = [req EXCEPT ![r] = [Idle EXCEPT !.pc = "handler", !.sub = t.sub,
                                                      !.row = ReadRow(i)]]
       \/ /\ \A i \in Holder(t) : user[i].status # "ACTIVE"
          /\ Goto(r, "denied")
    /\ Rest

\* The handlers that only read: the profile, one user, all users.
ReadOnly(r) == req[r].pc = "handler" /\ req' = [req EXCEPT ![r] = Idle] /\ Rest

\* RolesGuard judges the row the first guard has read; remove deletes the row,
\* or finds none (404).
Remove(r, i) ==
    /\ req[r].pc = "handler"
    /\ req[r].row.role = "ADMIN"
    /\ req' = [req EXCEPT ![r] = Idle]
    /\ IF Live(i) THEN RemoveUser(i) ELSE UNCHANGED <<user, identity>>
    /\ UNCHANGED token

-----------------------------------------------------------------------------

\* A token's lifetime ends.
Expire(t) == token' = token \ {t} /\ UNCHANGED <<user, identity, req>>

\* A database error or the end of the process: the transaction is rolled back.
Fail(r) ==
    /\ req[r].pc \notin {"idle", "token", "denied", "conflict", "failed"}
    /\ Goto(r, "failed")
    /\ Rest

\* The client has its answer.
Answered(r) ==
    /\ req[r].pc \in {"token", "denied", "conflict", "failed"}
    /\ req' = [req EXCEPT ![r] = Idle]
    /\ Rest

GoogleStep(r) ==
    \/ \E s \in Subjects, e \in Emails \cup {None} : StartGoogle(r, s, e)
    \/ FindIdentity(r) \/ FindByEmail(r) \/ LinkIdentity(r)
    \/ CreateWithIdentity(r) \/ FindAgain(r)

AccountsNext ==
    \/ \E i \in Ids : Administer(i) \/ \E e \in Emails : Create(i, e)
    \/ \E t \in token : Expire(t)
    \/ \E r \in Requests :
        \/ GoogleStep(r)
        \/ \E e \in Emails, exact \in BOOLEAN : StartLocal(r, e, exact)
        \/ Verify(r) \/ Sign(r)
        \/ \E t \in token : Admit(r, t)
        \/ ReadOnly(r)
        \/ \E i \in Ids : Remove(r, i)
        \/ Fail(r) \/ Answered(r)

AccountsSpec == AccountsInit /\ [][AccountsNext]_vars

-----------------------------------------------------------------------------
(* Properties                                                              *)

\* Rows, tokens and requests have their types.
AccountsTypeOK ==
    /\ user \in [Ids -> Directory!UserRow]
    /\ identity \in [Subjects -> Ids \cup {None}]
    /\ token \subseteq Token
    /\ req \in [Requests -> Request]

\* The unique keys and the foreign key hold of the rows: an address has one
\* account, an account one identity, and an identity an account that exists.
RowsAreSound ==
    /\ \A i, j \in Ids : Live(i) /\ Live(j) /\ user[i].email = user[j].email => i = j
    /\ \A s, t \in Subjects : identity[s] # None /\ identity[s] = identity[t] => s = t
    /\ \A s \in Subjects : identity[s] # None => Live(identity[s])

\* What the database keeps through all interleavings.
AccountsInv == AccountsTypeOK /\ RowsAreSound

\* A Google login is answered with a token of the account its identity is
\* linked to, however many callbacks of how many identities race for the same
\* account (comment of findOrCreateByExternalIdentity: "Two OAuth callbacks can
\* arrive concurrently"); only the removal of that account cuts the link.
SignedInToOwn ==
    \A r \in Requests :
        req[r].pc \in {"sign", "token"} /\ req[r].subject # None =>
            \/ identity[req[r].subject] = req[r].row.id
            \/ user[req[r].row.id].state = "removed"

Active(i) == Live(i) /\ user[i].status = "ACTIVE"

\* A request has found the account active and is still at work: a login, or a
\* handler, for the holder of the token or with the row of another.
Underway(i) ==
    \E r \in Requests :
        \/ req[r].pc = "handler" /\ i \in {req[r].sub, req[r].row.id}
        \/ /\ req[r].pc \in {"verify", "link", "sign"}
           /\ req[r].row.id = i /\ req[r].row.status = "ACTIVE"

\* Who is banned or removed stays out: when the requests that had found the account
\* active before have ended, no handler runs with one of its tokens, not even for a
\* new account with the same address, and no login, by password or by an identity
\* linked to it, gets another token, until it is made active again (comment of
\* JwtStrategy: "deleted, banned or inactive users cannot continue").
BannedStaysOut ==
    [][\A i \in Ids : ~Active(i) /\ ~Underway(i) =>
            /\ Underway(i)' => Active(i)'
            /\ \A t \in token' \ token : t.sub # i]_vars

\* Concurrent requests change the tables only by the atomic operations of the
\* directory, in each of its steps.
ImplementsDirectory == Directory!DirectorySpec
=============================================================================
