-------------------------- MODULE AccountDirectory --------------------------
(***************************************************************************)
(* What the users service promises about the tables users and              *)
(* user_identities, each operation in one step: an e-mail address is that  *)
(* of one account at most, an external identity signs in to one account    *)
(* for as long as that account exists, and an account has at most one.     *)
(***************************************************************************)
CONSTANTS Ids, Emails, Subjects, None

VARIABLES user, identity

directoryVars == <<user, identity>>

UserRow == [state : {"free", "live", "removed"}, email : Emails \cup {None},
            password : BOOLEAN, status : {"ACTIVE", "DISABLED"},
            role : {"USER", "ADMIN"}]

NoRow == [state |-> "free", email |-> None, password |-> FALSE,
          status |-> "ACTIVE", role |-> "USER"]

DirectoryInit ==
    /\ user = [i \in Ids |-> NoRow]
    /\ identity = [s \in Subjects |-> None]

Live(i) == user[i].state = "live"

\* The accounts with this address: one at most, by the unique key on email.
WithEmail(e) == {i \in Ids : Live(i) /\ user[i].email = e}

Linked(i) == \E s \in Subjects : identity[s] = i

NewRow(e, password) == [NoRow EXCEPT !.state = "live", !.email = e, !.password = password]

InsertUser(i, e, password) ==
    /\ user[i].state = "free"
    /\ WithEmail(e) = {}
    /\ user' = [user EXCEPT ![i] = NewRow(e, password)]

\* A registration with a password.
Register(i, e) == InsertUser(i, e, TRUE) /\ UNCHANGED identity

\* The first sign-in with an identity whose address has an account.
Attach(i, e, s) ==
    /\ identity[s] = None
    /\ i \in WithEmail(e)
    /\ ~Linked(i)
    /\ identity' = [identity EXCEPT ![s] = i]
    /\ UNCHANGED user

\* The first sign-in with an identity whose address has none.
Open(i, e, s) ==
    /\ identity[s] = None
    /\ InsertUser(i, e, FALSE)
    /\ identity' = [identity EXCEPT ![s] = i]

\* The removal of an account takes its identity along.
Close(i) ==
    /\ Live(i)
    /\ user' = [user EXCEPT ![i] = [NoRow EXCEPT !.state = "removed"]]
    /\ identity' = [s \in Subjects |-> IF identity[s] = i THEN None ELSE identity[s]]

\* Status and role are set in the database, by no handler.
Administer(i) ==
    /\ Live(i)
    /\ \E status \in {"ACTIVE", "DISABLED"}, role \in {"USER", "ADMIN"} :
            user' = [user EXCEPT ![i] = [user[i] EXCEPT !.status = status, !.role = role]]
    /\ UNCHANGED identity

DirectoryNext ==
    \E i \in Ids :
        \/ Close(i) \/ Administer(i)
        \/ \E e \in Emails : Register(i, e)
        \/ \E e \in Emails, s \in Subjects : Attach(i, e, s) \/ Open(i, e, s)

DirectorySpec == DirectoryInit /\ [][DirectoryNext]_directoryVars
=============================================================================
