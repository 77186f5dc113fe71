---------------------------- MODULE AccountsProofs ----------------------------
(***************************************************************************)
(* The users service and its logins, proved for every number of accounts,  *)
(* addresses, Google ids and requests: what the tables keep, whom a login  *)
(* signs in, who stays out, and the refinement of the directory.           *)
(***************************************************************************)
EXTENDS Accounts, TLAPS

\* What a request knows at each point of its code. A request that answers a
\* Google login has the account id and the address of the profile; one that
\* holds a row has read it from an account.
Knows(q) ==
    /\ q.pc = "idle" => q = Idle
    /\ q.pc \in {"identity", "email", "link", "create", "again"} =>
            q.subject \in Subjects /\ q.email \in Emails
    /\ q.pc \in {"verify", "link", "sign", "token", "handler"} => q.row.id \in Ids
    /\ q.pc = "verify" => q.subject = None
    /\ q.pc \in {"verify", "link", "sign"} => q.row.email \in Emails

\* An account that exists has an address.
LiveHasEmail == \A i \in Ids : Live(i) => user[i].email \in Emails

\* The promise of SignedInToOwn, for one request.
SignedIn(q) ==
    q.pc \in {"sign", "token"} /\ q.subject # None =>
        \/ identity[q.subject] = q.row.id
        \/ user[q.row.id].state = "removed"

\* The inductive invariant.
IndInv ==
    /\ AccountsTypeOK
    /\ LiveHasEmail
    /\ RowsAreSound
    /\ \A r \in Requests : Knows(req[r]) /\ SignedIn(req[r])

-----------------------------------------------------------------------------
(* Rows and locals                                                         *)

\* The rows the operations write have the type of the table.
LEMMA RowTypes ==
    /\ Directory!NoRow \in Directory!UserRow
    /\ [Directory!NoRow EXCEPT !.state = "removed"] \in Directory!UserRow
    /\ [Directory!NoRow EXCEPT !.state = "removed"].state = "removed"
    /\ \A e \in Emails, p \in BOOLEAN :
            /\ Directory!NewRow(e, p) \in Directory!UserRow
            /\ Directory!NewRow(e, p).state = "live"
            /\ Directory!NewRow(e, p).email = e
  BY DEF Directory!NoRow, Directory!NewRow, Directory!UserRow

\* What is read of a row has the type of a local variable.
LEMMA ReadTypes ==
    ASSUME AccountsTypeOK, NEW i \in Ids
    PROVE  /\ ReadRow(i) \in Read
           /\ ReadRow(i).id = i
           /\ ReadRow(i).email = user[i].email
  BY DEF AccountsTypeOK, ReadRow, Read, Directory!UserRow

\* The constants of the locals have their types.
LEMMA IdleTypes == Idle \in Request /\ Nothing \in Read
  BY DEF Request, Idle, Nothing, Read

Points == {"verify", "identity", "email", "link", "create", "again", "sign", "handler",
           "token", "denied", "conflict", "failed"}

Moved(q, pc) == [q EXCEPT !.pc = pc]

Loaded(q, pc, row) == [q EXCEPT !.pc = pc, !.row = row]

\* Moving a request to another point of its code.
LEMMA MovedTypes ==
    ASSUME NEW q \in Request, NEW pc \in Points
    PROVE  /\ Moved(q, pc) \in Request
           /\ Moved(q, pc).pc = pc
           /\ Moved(q, pc).row = q.row
           /\ Moved(q, pc).subject = q.subject
           /\ Moved(q, pc).email = q.email
  BY DEF Request, Points, Moved

\* The same, with a row that has been read.
LEMMA LoadedTypes ==
    ASSUME NEW q \in Request, NEW pc \in Points, NEW row \in Read
    PROVE  /\ Loaded(q, pc, row) \in Request
           /\ Loaded(q, pc, row).pc = pc
           /\ Loaded(q, pc, row).row = row
           /\ Loaded(q, pc, row).subject = q.subject
           /\ Loaded(q, pc, row).email = q.email
  BY DEF Request, Points, Loaded

\* A step that leaves the tables alone and gives one request a new state that is
\* in order keeps the invariant.
LEMMA LocalStep ==
    ASSUME IndInv, UNCHANGED <<user, identity>>, token' \subseteq Token,
           NEW r \in Requests, NEW q \in Request, Knows(q), SignedIn(q),
           req' = [req EXCEPT ![r] = q]
    PROVE  IndInv'
  <1>1. AccountsTypeOK' /\ LiveHasEmail' /\ RowsAreSound'
    BY DEF IndInv, AccountsTypeOK, LiveHasEmail, RowsAreSound, Live, Directory!Live, Token
  <1>2. \A x \in Requests : Knows(req'[x]) /\ SignedIn(req'[x])
    BY DEF IndInv, AccountsTypeOK
  <1>3. \A x \in Requests : SignedIn(req[x])' /\ Knows(req[x])'
    BY <1>2 DEF SignedIn, Knows
  <1> QED
    BY <1>1, <1>3 DEF IndInv

\* The points of the code a request may go to without having a row.
Plain == {"identity", "email", "create", "again", "denied", "conflict", "failed"}

\* A step that only moves a request.
LEMMA GotoStep ==
    ASSUME IndInv, UNCHANGED <<user, identity, token>>, NEW r \in Requests,
           NEW pc \in Plain, Goto(r, pc),
           pc \in {"identity", "email", "create", "again"} =>
                req[r].pc \in {"identity", "email", "link", "create", "again"}
    PROVE  IndInv'
  <1> DEFINE q == Moved(req[r], pc)
  <1>1. Knows(req[r]) /\ req[r] \in Request /\ token \subseteq Token
    BY DEF IndInv, AccountsTypeOK
  <1>2. /\ q \in Request /\ q.pc = pc /\ q.row = req[r].row
        /\ q.subject = req[r].subject /\ q.email = req[r].email
    BY <1>1, MovedTypes DEF Plain, Points
  <1>3. req' = [req EXCEPT ![r] = q]
    BY DEF Goto, Moved
  <1> HIDE DEF q
  <1>4. Knows(q) /\ SignedIn(q)
    BY <1>1, <1>2 DEF Knows, SignedIn, Plain
  <1> QED
    BY <1>1, <1>2, <1>3, <1>4, LocalStep

\* A step that reads the row of an account.
LEMMA KeepStep ==
    ASSUME IndInv, UNCHANGED <<user, identity, token>>, NEW r \in Requests,
           NEW i \in Ids, Live(i), NEW pc \in {"verify", "link", "sign"}, Keep(r, pc, i),
           pc = "verify" => req[r].pc = "idle",
           pc = "link" => req[r].pc = "email",
           pc = "sign" => identity[req[r].subject] = i
    PROVE  IndInv'
  <1> DEFINE q == Loaded(req[r], pc, ReadRow(i))
  <1>1. /\ AccountsTypeOK /\ user[i].email \in Emails
        /\ Knows(req[r]) /\ req[r] \in Request /\ token \subseteq Token
    BY DEF IndInv, LiveHasEmail, AccountsTypeOK
  <1>2. /\ ReadRow(i) \in Read /\ ReadRow(i).id = i /\ ReadRow(i).email = user[i].email
        /\ pc \in Points
    BY <1>1, ReadTypes DEF Points
  <1>3. /\ q \in Request /\ q.pc = pc /\ q.row = ReadRow(i)
        /\ q.subject = req[r].subject /\ q.email = req[r].email
    BY <1>1, <1>2, LoadedTypes
  <1>4. req' = [req EXCEPT ![r] = q]
    BY DEF Keep, Loaded
  <1>5. pc = "verify" => req[r].subject = None
    BY <1>1 DEF Knows, Idle
  <1> HIDE DEF q
  <1>6. Knows(q) /\ SignedIn(q)
    BY <1>1, <1>2, <1>3, <1>5 DEF Knows, SignedIn
  <1> QED
    BY <1>1, <1>3, <1>4, <1>6, LocalStep

-----------------------------------------------------------------------------
(* Steps on the tables                                                     *)

\* One account changes, from a free or a live row to a row that keeps its
\* address, is new under an address nobody has, or is removed.
LEMMA UserStep ==
    ASSUME IndInv, NEW i \in Ids, NEW row \in Directory!UserRow,
           user' = [user EXCEPT ![i] = row], user[i].state # "removed",
           row.state = "live" => row.email \in Emails,
           row.state = "live" => \A j \in Ids \ {i} : Live(j) => user[j].email # row.email
    PROVE  /\ user' \in [Ids -> Directory!UserRow]
           /\ LiveHasEmail'
           /\ \A j, k \in Ids : Live(j)' /\ Live(k)' /\ user'[j].email = user'[k].email => j = k
           /\ \A j \in Ids : user[j].state = "removed" => user'[j].state = "removed"
           /\ \A j \in Ids \ {i} : user'[j] = user[j]
           /\ user'[i] = row
  <1>1. user \in [Ids -> Directory!UserRow]
    BY DEF IndInv, AccountsTypeOK
  <1>2. user' \in [Ids -> Directory!UserRow] /\ user'[i] = row
        /\ \A j \in Ids \ {i} : user'[j] = user[j]
    BY <1>1
  <1> QED
    BY <1>1, <1>2 DEF IndInv, LiveHasEmail, RowsAreSound, Live, Directory!Live

\* Registration.
LEMMA CreateStep ==
    ASSUME IndInv, NEW i \in Ids, NEW e \in Emails, Create(i, e)
    PROVE  IndInv'
  <1> DEFINE row == Directory!NewRow(e, TRUE)
  <1>1. row \in Directory!UserRow /\ row.state = "live" /\ row.email = e
    BY RowTypes
  <1>2. user' = [user EXCEPT ![i] = row] /\ user[i].state = "free"
    BY DEF Create
  <1>3. \A j \in Ids : Live(j) => user[j].email # e
    BY DEF Create, ByEmail
  <1> HIDE DEF row
  <1>4. /\ user' \in [Ids -> Directory!UserRow] /\ LiveHasEmail' /\ user'[i] = row
        /\ \A j, k \in Ids : Live(j)' /\ Live(k)' /\ user'[j].email = user'[k].email => j = k
        /\ \A j \in Ids : user[j].state = "removed" => user'[j].state = "removed"
        /\ \A j \in Ids \ {i} : user'[j] = user[j]
    BY <1>1, <1>2, <1>3, UserStep
  <1>5. AccountsTypeOK'
    BY <1>4 DEF Create, IndInv, AccountsTypeOK, Token
  <1>6. \A s \in Subjects : identity[s] # None => identity[s] \in Ids /\ Live(identity[s])
    BY DEF IndInv, AccountsTypeOK, RowsAreSound
  <1>7. RowsAreSound'
    <2>1. identity' = identity
      BY DEF Create
    <2>2. \A s \in Subjects : identity[s] # None => Live(identity[s])'
      <3>1. \A j \in Ids : Live(j) => Live(j)'
        BY <1>1, <1>4 DEF Live, Directory!Live
      <3> QED
        BY <1>6, <2>1, <3>1 DEF Live, Directory!Live
    <2> QED
      BY <1>4, <2>1, <2>2 DEF IndInv, RowsAreSound
  <1>8. \A r \in Requests : Knows(req[r])' /\ SignedIn(req[r])'
    BY <1>4 DEF Create, IndInv, Knows, SignedIn
  <1> QED
    BY <1>4, <1>5, <1>7, <1>8 DEF IndInv

\* A change of status or role in the database.
LEMMA AdministerStep ==
    ASSUME IndInv, NEW i \in Ids, Administer(i)
    PROVE  IndInv'
  <1>1. PICK status \in {"ACTIVE", "DISABLED"}, role \in {"USER", "ADMIN"} :
            user' = [user EXCEPT ![i] = [user[i] EXCEPT !.status = status, !.role = role]]
    BY DEF Administer
  <1> DEFINE row == [user[i] EXCEPT !.status = status, !.role = role]
  <1>2. user[i] \in Directory!UserRow /\ user[i].state = "live" /\ user[i].email \in Emails
    BY DEF Administer, IndInv, AccountsTypeOK, LiveHasEmail, Live, Directory!Live
  <1>3. row \in Directory!UserRow /\ row.state = "live" /\ row.email = user[i].email
    BY <1>2 DEF Directory!UserRow
  <1>4. user' = [user EXCEPT ![i] = row]
    BY <1>1
  <1>5. \A j \in Ids \ {i} : Live(j) => user[j].email # user[i].email
    BY DEF Administer, IndInv, RowsAreSound
  <1> HIDE DEF row
  <1>6. /\ user' \in [Ids -> Directory!UserRow] /\ LiveHasEmail' /\ user'[i] = row
        /\ \A j, k \in Ids : Live(j)' /\ Live(k)' /\ user'[j].email = user'[k].email => j = k
        /\ \A j \in Ids : user[j].state = "removed" => user'[j].state = "removed"
        /\ \A j \in Ids \ {i} : user'[j] = user[j]
    BY <1>2, <1>3, <1>4, <1>5, UserStep
  <1>7. AccountsTypeOK'
    BY <1>6 DEF Administer, IndInv, AccountsTypeOK, Token
  <1>8. \A s \in Subjects : identity[s] # None => identity[s] \in Ids /\ Live(identity[s])
    BY DEF IndInv, AccountsTypeOK, RowsAreSound
  <1>9. RowsAreSound'
    BY <1>3, <1>6, <1>8 DEF Administer, IndInv, RowsAreSound, Live, Directory!Live
  <1>10. \A r \in Requests : Knows(req[r])' /\ SignedIn(req[r])'
    BY <1>6 DEF Administer, IndInv, Knows, SignedIn
  <1> QED
    BY <1>6, <1>7, <1>9, <1>10 DEF IndInv

\* The removal of an account by an administrator, who is answered at once.
LEMMA RemoveStep ==
    ASSUME IndInv, NEW r \in Requests, NEW i \in Ids, Remove(r, i)
    PROVE  IndInv'
  <1>1. /\ req' = [req EXCEPT ![r] = Idle] /\ token' = token
        /\ Idle \in Request /\ Knows(Idle) /\ SignedIn(Idle)
    BY IdleTypes DEF Remove, Knows, SignedIn, Idle
  <1>2. CASE ~Live(i)
    BY <1>1, <1>2, LocalStep DEF Remove, IndInv, AccountsTypeOK
  <1>3. CASE Live(i)
    <2> DEFINE row == [Directory!NoRow EXCEPT !.state = "removed"]
    <2>1. row \in Directory!UserRow /\ row.state = "removed"
      BY RowTypes
    <2>2. /\ user' = [user EXCEPT ![i] = row] /\ user[i].state = "live"
          /\ identity' = [s \in Subjects |-> IF identity[s] = i THEN None ELSE identity[s]]
      BY <1>3 DEF Remove, RemoveUser, Live, Directory!Live
    <2> HIDE DEF row
    <2>3. /\ user' \in [Ids -> Directory!UserRow] /\ LiveHasEmail' /\ user'[i] = row
          /\ \A j, k \in Ids : Live(j)' /\ Live(k)' /\ user'[j].email = user'[k].email => j = k
          /\ \A j \in Ids : user[j].state = "removed" => user'[j].state = "removed"
          /\ \A j \in Ids \ {i} : user'[j] = user[j]
      BY <2>1, <2>2, UserStep
    <2>4. AccountsTypeOK'
      BY <1>1, <2>2, <2>3 DEF IndInv, AccountsTypeOK, Token
    <2>5. RowsAreSound'
      <3>1. \A j \in Ids : Live(j) /\ j # i => Live(j)'
        BY <2>3 DEF Live, Directory!Live
      <3>2. \A s \in Subjects : identity'[s] # None =>
                identity'[s] = identity[s] /\ identity[s] # i /\ identity[s] \in Ids
        BY <2>2 DEF IndInv, AccountsTypeOK
      <3>3. \A s \in Subjects : identity'[s] # None => Live(identity[s])'
        BY <3>1, <3>2 DEF IndInv, RowsAreSound
      <3>4. \A s, t \in Subjects : identity'[s] # None /\ identity'[s] = identity'[t] => s = t
        BY <3>2 DEF IndInv, RowsAreSound
      <3> QED
        BY <2>3, <3>3, <3>4 DEF RowsAreSound
    <2>6. \A q \in Request : Knows(q) /\ SignedIn(q) => SignedIn(q)'
      <3> SUFFICES ASSUME NEW q \in Request, Knows(q), SignedIn(q),
                          q.pc \in {"sign", "token"}, q.subject # None
                   PROVE  identity'[q.subject] = q.row.id \/ user'[q.row.id].state = "removed"
        BY DEF SignedIn
      <3>1. q.row.id \in Ids /\ q.subject \in Subjects
        BY DEF Knows, Request
      <3>2. CASE q.row.id = i
        BY <2>1, <2>3, <3>2
      <3>3. CASE q.row.id # i
        BY <2>2, <2>3, <3>1, <3>3 DEF SignedIn
      <3> QED
        BY <3>2, <3>3
    <2>7. \A x \in Requests : req[x] \in Request /\ Knows(req[x]) /\ SignedIn(req[x])
      BY DEF IndInv, AccountsTypeOK
    <2>8. \A x \in Requests : Knows(req'[x]) /\ SignedIn(req'[x])
      BY <1>1, <2>7 DEF IndInv, AccountsTypeOK
    <2>9. \A x \in Requests : req'[x] = req[x] \/ req'[x] = Idle
      BY <1>1 DEF IndInv, AccountsTypeOK
    <2>10. SignedIn(Idle)'
      BY DEF SignedIn, Idle
    <2>11. \A x \in Requests : SignedIn(req[x])'
      BY <2>6, <2>7, <2>9 DEF SignedIn, Idle
    <2> QED
      BY <2>3, <2>4, <2>5, <2>8, <2>11 DEF IndInv, Knows
  <1> QED
    BY <1>2, <1>3

\* An identity gets its account: nobody was signed in with it, but by accounts
\* that have been removed.
LEMMA LinkedKeepsSignedIn ==
    ASSUME IndInv, NEW s \in Subjects, identity[s] = None, NEW i \in Ids,
           identity' = [identity EXCEPT ![s] = i],
           \A j \in Ids : user[j].state = "removed" => user'[j].state = "removed",
           NEW q \in Request, Knows(q), SignedIn(q),
           q.pc \in {"sign", "token"}, q.subject # None
    PROVE  identity'[q.subject] = q.row.id \/ user'[q.row.id].state = "removed"
  <1>1. q.row.id \in Ids /\ q.subject \in Subjects /\ identity \in [Subjects -> Ids \cup {None}]
    BY DEF Knows, Request, IndInv, AccountsTypeOK
  <1>2. identity[q.subject] = q.row.id \/ user[q.row.id].state = "removed"
    BY DEF SignedIn
  <1> QED
    BY <1>1, <1>2, NoneAssumption

\* The identity of a first login is attached to the account with its address.
LEMMA LinkStep ==
    ASSUME IndInv, NEW r \in Requests, LinkIdentity(r)
    PROVE  IndInv'
  <1> DEFINE i == req[r].row.id
             s == req[r].subject
  <1>1. /\ i \in Ids /\ s \in Subjects /\ req[r] \in Request /\ Knows(req[r])
        /\ req[r].pc = "link"
    BY DEF IndInv, AccountsTypeOK, Knows, LinkIdentity
  <1>2. CASE Goto(r, "again") /\ UNCHANGED identity
    BY <1>1, <1>2, GotoStep DEF LinkIdentity, Plain
  <1>3. CASE Goto(r, "failed") /\ UNCHANGED identity
    BY <1>1, <1>3, GotoStep DEF LinkIdentity, Plain
  <1>4. CASE /\ ~IdentityTaken(i, s) /\ Live(i)
             /\ identity' = [identity EXCEPT ![s] = i]
             /\ Goto(r, "sign")
    <2> DEFINE q == Moved(req[r], "sign")
    <2>1. /\ q \in Request /\ q.pc = "sign" /\ q.row.id = i /\ q.subject = s
          /\ q.row = req[r].row
      BY <1>1, MovedTypes DEF Points
    <2>2. req' = [req EXCEPT ![r] = q] /\ user' = user /\ token' = token
      BY <1>4 DEF LinkIdentity, Goto, Moved
    <2> HIDE DEF q
    <2>3. identity[s] = None /\ \A t \in Subjects : identity[t] # i
      BY <1>1, <1>4 DEF IdentityTaken
    <2>4. Knows(q)
      BY <1>1, <2>1 DEF Knows
    <2> HIDE DEF i, s
    <2>5. /\ identity \in [Subjects -> Ids \cup {None}]
          /\ identity' = [identity EXCEPT ![s] = i] /\ i \in Ids /\ s \in Subjects
      BY <1>1, <1>4 DEF IndInv, AccountsTypeOK
    <2>6. AccountsTypeOK' /\ LiveHasEmail'
      BY <2>1, <2>2, <2>5
         DEF IndInv, AccountsTypeOK, LiveHasEmail, Live, Directory!Live, Token
    <2>7. RowsAreSound'
      BY <1>4, <2>2, <2>3, <2>5 DEF IndInv, RowsAreSound, Live, Directory!Live
    <2>8. \A x \in Requests : Knows(req[x])' /\ SignedIn(req[x])'
      <3> SUFFICES ASSUME NEW x \in Requests PROVE Knows(req[x])' /\ SignedIn(req[x])'
        OBVIOUS
      <3>1. CASE x = r
        <4>1. req'[x] = q
          BY <2>2, <3>1 DEF IndInv, AccountsTypeOK
        <4>2. identity'[q.subject] = q.row.id
          BY <2>1, <2>5
        <4> QED
          BY <2>4, <4>1, <4>2 DEF SignedIn, Knows
      <3>2. CASE x # r
        <4>1. /\ req'[x] = req[x] /\ req[x] \in Request
              /\ Knows(req[x]) /\ SignedIn(req[x])
          BY <2>2, <3>2 DEF IndInv, AccountsTypeOK
        <4>2. req[x].pc \in {"sign", "token"} /\ req[x].subject # None =>
                \/ identity'[req[x].subject] = req[x].row.id
                \/ user'[req[x].row.id].state = "removed"
          BY <2>2, <2>3, <2>5, <4>1, LinkedKeepsSignedIn
        <4> QED
          BY <4>1, <4>2 DEF SignedIn, Knows
      <3> QED
        BY <3>1, <3>2
    <2> QED
      BY <2>6, <2>7, <2>8 DEF IndInv
  <1> QED
    BY <1>2, <1>3, <1>4 DEF LinkIdentity

\* The first login of an address without an account: both rows are inserted.
LEMMA OpenStep ==
    ASSUME IndInv, NEW r \in Requests, CreateWithIdentity(r)
    PROVE  IndInv'
  <1> DEFINE e == req[r].email
             s == req[r].subject
  <1>1. /\ e \in Emails /\ s \in Subjects /\ req[r] \in Request /\ Knows(req[r])
        /\ req[r].pc = "create"
    BY DEF IndInv, AccountsTypeOK, Knows, CreateWithIdentity
  <1>2. CASE Goto(r, "again") /\ UNCHANGED <<user, identity>>
    BY <1>1, <1>2, GotoStep DEF CreateWithIdentity, Plain
  <1>3. CASE /\ ByEmail(e) = {} /\ identity[s] = None
             /\ \E i \in Ids :
                /\ user[i].state = "free"
                /\ user' = [user EXCEPT ![i] = Directory!NewRow(e, FALSE)]
                /\ identity' = [identity EXCEPT ![s] = i]
                /\ req' = [req EXCEPT ![r] = [req[r] EXCEPT !.pc = "sign",
                        !.row = [Nothing EXCEPT !.id = i, !.email = e]]]
    <2> DEFINE row == Directory!NewRow(e, FALSE)
    <2>1. row \in Directory!UserRow /\ row.state = "live" /\ row.email = e
      BY <1>1, RowTypes
    <2> HIDE DEF row
    <2>2. PICK i \in Ids :
            /\ user[i].state = "free"
            /\ user' = [user EXCEPT ![i] = row]
            /\ identity' = [identity EXCEPT ![s] = i]
            /\ req' = [req EXCEPT ![r] = Loaded(req[r], "sign",
                                                [Nothing EXCEPT !.id = i, !.email = e])]
      BY <1>3 DEF row, Loaded
    <2> DEFINE known == [Nothing EXCEPT !.id = i, !.email = e]
               q == Loaded(req[r], "sign", known)
    <2>3. known \in Read /\ known.id = i /\ known.email = e
      BY <1>1 DEF Read, Nothing
    <2> HIDE DEF known
    <2>4. q \in Request /\ q.pc = "sign" /\ q.row = known /\ q.subject = s
      <3>1. "sign" \in Points
        BY DEF Points
      <3> QED
        BY <1>1, <2>3, <3>1, LoadedTypes
    <2>5. req' = [req EXCEPT ![r] = q] /\ token' = token
      BY <2>2 DEF known, CreateWithIdentity
    <2> HIDE DEF q
    <2>6. Knows(q)
      BY <1>1, <2>3, <2>4 DEF Knows
    <2>7. \A j \in Ids : Live(j) => user[j].email # e
      BY <1>3 DEF ByEmail
    <2>8. /\ identity \in [Subjects -> Ids \cup {None}] /\ identity[s] = None
          /\ identity' = [identity EXCEPT ![s] = i] /\ s \in Subjects
      BY <1>1, <1>3, <2>2 DEF IndInv, AccountsTypeOK
    <2> HIDE DEF e, s
    <2>9. /\ user' \in [Ids -> Directory!UserRow] /\ LiveHasEmail' /\ user'[i] = row
          /\ \A j, k \in Ids : Live(j)' /\ Live(k)' /\ user'[j].email = user'[k].email => j = k
          /\ \A j \in Ids : user[j].state = "removed" => user'[j].state = "removed"
          /\ \A j \in Ids \ {i} : user'[j] = user[j]
      BY <1>1, <2>1, <2>2, <2>7, UserStep
    <2>10. AccountsTypeOK'
      BY <2>4, <2>5, <2>8, <2>9 DEF IndInv, AccountsTypeOK, Token
    <2>11. RowsAreSound'
      <3>1. \A j \in Ids : Live(j) => Live(j)'
        BY <2>1, <2>9 DEF Live, Directory!Live
      <3>2. Live(i)' /\ ~Live(i)
        BY <2>1, <2>2, <2>9 DEF Live, Directory!Live
      <3>3. \A t \in Subjects : identity[t] # None =>
                identity[t] \in Ids /\ Live(identity[t]) /\ identity[t] # i
        BY <2>8, <3>2 DEF IndInv, RowsAreSound
      <3>4. \A t \in Subjects : identity'[t] # None => Live(identity[t])'
        <4> SUFFICES ASSUME NEW t \in Subjects, identity'[t] # None PROVE Live(identity[t])'
          OBVIOUS
        <4>1. CASE t = s
          BY <2>8, <3>2, <4>1 DEF Live, Directory!Live
        <4>2. CASE t # s
          BY <2>8, <3>1, <3>3, <4>2 DEF Live, Directory!Live
        <4> QED
          BY <4>1, <4>2
      <3>5. \A t, u \in Subjects : identity'[t] # None /\ identity'[t] = identity'[u] => t = u
        BY <2>8, <3>3 DEF IndInv, RowsAreSound
      <3> QED
        BY <2>9, <3>4, <3>5 DEF RowsAreSound
    <2>12. \A x \in Requests : Knows(req[x])' /\ SignedIn(req[x])'
      <3> SUFFICES ASSUME NEW x \in Requests PROVE Knows(req[x])' /\ SignedIn(req[x])'
        OBVIOUS
      <3>1. CASE x = r
        <4>1. req'[x] = q
          BY <2>5, <3>1 DEF IndInv, AccountsTypeOK
        <4>2. identity'[q.subject] = q.row.id
          BY <2>3, <2>4, <2>8
        <4> QED
          BY <2>6, <4>1, <4>2 DEF SignedIn, Knows
      <3>2. CASE x # r
        <4>1. /\ req'[x] = req[x] /\ req[x] \in Request
              /\ Knows(req[x]) /\ SignedIn(req[x])
          BY <2>5, <3>2 DEF IndInv, AccountsTypeOK
        <4>2. req[x].pc \in {"sign", "token"} /\ req[x].subject # None =>
                \/ identity'[req[x].subject] = req[x].row.id
                \/ user'[req[x].row.id].state = "removed"
          BY <2>8, <2>9, <4>1, LinkedKeepsSignedIn
        <4> QED
          BY <4>1, <4>2 DEF SignedIn, Knows
      <3> QED
        BY <3>1, <3>2
    <2> QED
      BY <2>9, <2>10, <2>11, <2>12 DEF IndInv
  <1> QED
    BY <1>2, <1>3 DEF CreateWithIdentity

-----------------------------------------------------------------------------
(* Steps that only read                                                    *)

\* Password logins.
LEMMA LocalLogin ==
    ASSUME IndInv, NEW r \in Requests,
           Verify(r) \/ \E e \in Emails, exact \in BOOLEAN : StartLocal(r, e, exact)
    PROVE  IndInv'
  <1>1. CASE Goto(r, "denied") /\ Rest
    BY <1>1, GotoStep DEF Rest, Plain
  <1>2. ASSUME NEW i \in Ids, Live(i), req[r].pc = "idle", Keep(r, "verify", i), Rest
        PROVE  IndInv'
    BY <1>2, KeepStep DEF Rest
  <1>3. ASSUME req[r].pc = "verify", Goto(r, "sign"), Rest
        PROVE  IndInv'
    <2> DEFINE q == Moved(req[r], "sign")
    <2>1. req[r] \in Request /\ Knows(req[r]) /\ token \subseteq Token
      BY DEF IndInv, AccountsTypeOK
    <2>2. q \in Request /\ q.pc = "sign" /\ q.row = req[r].row /\ q.subject = req[r].subject
      BY <2>1, MovedTypes DEF Points
    <2>3. req' = [req EXCEPT ![r] = q] /\ UNCHANGED <<user, identity>> /\ token' = token
      BY <1>3 DEF Goto, Moved, Rest
    <2> HIDE DEF q
    <2>4. Knows(q) /\ SignedIn(q)
      BY <1>3, <2>1, <2>2 DEF Knows, SignedIn
    <2> QED
      BY <2>1, <2>2, <2>3, <2>4, LocalStep
  <1>4. CASE Verify(r)
    BY <1>1, <1>3, <1>4 DEF Verify
  <1>5. ASSUME NEW e \in Emails, NEW exact \in BOOLEAN, StartLocal(r, e, exact)
        PROVE  IndInv'
    BY <1>1, <1>2, <1>5 DEF StartLocal, ByEmail
  <1> QED
    BY <1>4, <1>5

\* The lookups of a Google login.
LEMMA GoogleLookups ==
    ASSUME IndInv, NEW r \in Requests, FindIdentity(r) \/ FindByEmail(r) \/ FindAgain(r)
    PROVE  IndInv'
  <1>1. /\ req[r].pc \in {"identity", "email", "again"} /\ Rest
        /\ req[r].subject \in Subjects /\ req[r].email \in Emails
    BY DEF IndInv, Knows, FindIdentity, FindByEmail, FindAgain
  <1>2. ASSUME identity[req[r].subject] # None, Keep(r, "sign", identity[req[r].subject])
        PROVE  IndInv'
    <2>1. PICK i \in Ids : i = identity[req[r].subject]
      BY <1>1, <1>2 DEF IndInv, AccountsTypeOK
    <2>2. Live(i)
      BY <1>1, <1>2, <2>1 DEF IndInv, RowsAreSound
    <2> QED
      BY <1>1, <1>2, <2>1, <2>2, KeepStep DEF Rest
  <1>3. ASSUME NEW i \in Ids, Live(i), req[r].pc = "email", Keep(r, "link", i)
        PROVE  IndInv'
    BY <1>1, <1>3, KeepStep DEF Rest
  <1>4. ASSUME NEW pc \in {"email", "create", "conflict"}, Goto(r, pc)
        PROVE  IndInv'
    BY <1>1, <1>4, GotoStep DEF Rest, Plain
  <1> QED
    BY <1>2, <1>3, <1>4 DEF FindIdentity, FindByEmail, FindAgain, ByEmail

\* Requests that begin with a profile or a token, or end.
LEMMA BeginAndEnd ==
    ASSUME IndInv, NEW r \in Requests,
           \/ \E s \in Subjects, e \in Emails \cup {None} : StartGoogle(r, s, e)
           \/ \E t \in token : Admit(r, t)
           \/ ReadOnly(r) \/ Fail(r) \/ Answered(r)
    PROVE  IndInv'
  <1>0. token \subseteq Token /\ AccountsTypeOK
    BY DEF IndInv, AccountsTypeOK
  <1>1. ASSUME NEW q \in Request, Knows(q), SignedIn(q), req' = [req EXCEPT ![r] = q], Rest
        PROVE  IndInv'
    BY <1>0, <1>1, LocalStep DEF Rest
  <1>2. ASSUME NEW s \in Subjects, NEW e \in Emails \cup {None}, StartGoogle(r, s, e)
        PROVE  IndInv'
    <2> DEFINE q == [Idle EXCEPT !.subject = s, !.email = e,
                        !.pc = IF e = None THEN "denied" ELSE "identity"]
    <2>1. /\ q \in Request /\ q.subject = s /\ q.email = e
          /\ q.pc = IF e = None THEN "denied" ELSE "identity"
      BY IdleTypes DEF Request, Idle
    <2>2. req' = [req EXCEPT ![r] = q] /\ Rest
      BY <1>2 DEF StartGoogle
    <2> HIDE DEF q
    <2>3. Knows(q) /\ SignedIn(q)
      BY <2>1 DEF Knows, SignedIn
    <2> QED
      BY <1>1, <2>1, <2>2, <2>3
  <1>3. ASSUME NEW t \in token, Admit(r, t)
        PROVE  IndInv'
    <2>1. CASE Goto(r, "denied") /\ Rest
      BY <2>1, GotoStep DEF Rest, Plain
    <2>2. ASSUME NEW i \in Holder(t), Rest,
                 req' = [req EXCEPT ![r] = [Idle EXCEPT !.pc = "handler", !.sub = t.sub,
                                                        !.row = ReadRow(i)]]
          PROVE  IndInv'
      <3> DEFINE q == [Idle EXCEPT !.pc = "handler", !.sub = t.sub, !.row = ReadRow(i)]
      <3>1. i \in Ids /\ i = t.sub
        BY DEF Holder
      <3>2. ReadRow(i) \in Read /\ ReadRow(i).id = i
        BY <1>0, <3>1, ReadTypes
      <3>3. q \in Request /\ q.pc = "handler" /\ q.sub = i /\ q.row = ReadRow(i)
        BY <3>1, <3>2, IdleTypes DEF Request, Idle
      <3>4. req' = [req EXCEPT ![r] = q] /\ Rest
        BY <2>2
      <3> HIDE DEF q
      <3>5. Knows(q) /\ SignedIn(q)
        BY <3>1, <3>2, <3>3 DEF Knows, SignedIn
      <3> QED
        BY <1>1, <3>3, <3>4, <3>5
    <2> QED
      BY <1>3, <2>1, <2>2 DEF Admit
  <1>4. CASE ReadOnly(r) \/ Answered(r)
    <2>1. Knows(Idle) /\ SignedIn(Idle) /\ Idle \in Request
      BY IdleTypes DEF Knows, SignedIn, Idle
    <2> QED
      BY <1>1, <1>4, <2>1 DEF ReadOnly, Answered
  <1>5. CASE Fail(r)
    BY <1>5, GotoStep DEF Fail, Rest, Plain
  <1> QED
    BY <1>2, <1>3, <1>4, <1>5

\* A token is signed for the account that was read.
LEMMA SignStep ==
    ASSUME IndInv, NEW r \in Requests, Sign(r)
    PROVE  IndInv'
  <1>1. req[r] \in Request /\ Knows(req[r]) /\ SignedIn(req[r]) /\ token \subseteq Token
    BY DEF IndInv, AccountsTypeOK
  <1>2. CASE Goto(r, "denied") /\ UNCHANGED token
    BY <1>2, GotoStep DEF Sign, Plain
  <1>3. CASE /\ Goto(r, "token")
             /\ token' = token \cup {[sub |-> req[r].row.id, email |-> req[r].row.email]}
    <2> DEFINE q == Moved(req[r], "token")
    <2>1. q \in Request /\ q.pc = "token" /\ q.row = req[r].row /\ q.subject = req[r].subject
      BY <1>1, MovedTypes DEF Points
    <2>2. req' = [req EXCEPT ![r] = q] /\ UNCHANGED <<user, identity>>
      BY <1>3 DEF Goto, Moved, Sign
    <2>3. token' \subseteq Token
      BY <1>1, <1>3 DEF Sign, Knows, Token
    <2> HIDE DEF q
    <2>4. Knows(q) /\ SignedIn(q)
      BY <1>1, <2>1 DEF Knows, SignedIn, Sign
    <2> QED
      BY <2>1, <2>2, <2>3, <2>4, LocalStep
  <1> QED
    BY <1>2, <1>3 DEF Sign

\* A token's end, and the steps of nobody.
LEMMA TokenStep ==
    ASSUME IndInv, UNCHANGED <<user, identity, req>>, token' \subseteq token
    PROVE  IndInv'
  BY DEF IndInv, AccountsTypeOK, LiveHasEmail, RowsAreSound, Live, Directory!Live, Knows,
         SignedIn, Token

-----------------------------------------------------------------------------
(* Theorems                                                                *)

\* Whatever requests do at the same time, and whichever of them fail, the
\* inductive invariant holds.
THEOREM AccountsInvariance == AccountsSpec => []IndInv
  <1>1. AccountsInit => IndInv
    <2> SUFFICES ASSUME AccountsInit PROVE IndInv
      OBVIOUS
    <2>1. AccountsTypeOK
      BY IdleTypes, RowTypes DEF AccountsInit, AccountsTypeOK
    <2>2. \A i \in Ids : ~Live(i)
      BY DEF AccountsInit, Live, Directory!Live, Directory!NoRow
    <2>3. \A r \in Requests : Knows(req[r]) /\ SignedIn(req[r])
      BY DEF AccountsInit, Knows, SignedIn, Idle
    <2> QED
      BY <2>1, <2>2, <2>3 DEF IndInv, LiveHasEmail, RowsAreSound, AccountsInit
  <1>2. IndInv /\ [AccountsNext]_vars => IndInv'
    <2> SUFFICES ASSUME IndInv, [AccountsNext]_vars PROVE IndInv'
      OBVIOUS
    <2>1. CASE UNCHANGED vars
      BY <2>1, TokenStep DEF vars
    <2>2. ASSUME NEW i \in Ids, Administer(i) \/ \E e \in Emails : Create(i, e)
          PROVE  IndInv'
      BY <2>2, AdministerStep, CreateStep
    <2>3. ASSUME NEW t \in token, Expire(t)
          PROVE  IndInv'
      BY <2>3, TokenStep DEF Expire
    <2>4. ASSUME NEW r \in Requests, GoogleStep(r)
          PROVE  IndInv'
      BY <2>4, BeginAndEnd, GoogleLookups, LinkStep, OpenStep DEF GoogleStep
    <2>5. ASSUME NEW r \in Requests,
                 \/ Verify(r) \/ \E e \in Emails, exact \in BOOLEAN : StartLocal(r, e, exact)
                 \/ Sign(r) \/ \E i \in Ids : Remove(r, i)
          PROVE  IndInv'
      BY <2>5, LocalLogin, SignStep, RemoveStep
    <2>6. ASSUME NEW r \in Requests,
                 (\E t \in token : Admit(r, t)) \/ ReadOnly(r) \/ Fail(r) \/ Answered(r)
          PROVE  IndInv'
      BY <2>6, BeginAndEnd
    <2> QED
      BY <2>1, <2>2, <2>3, <2>4, <2>5, <2>6 DEF AccountsNext
  <1> QED
    BY <1>1, <1>2, PTL DEF AccountsSpec

\* Rows, tokens and locals keep their types, addresses and identities stay
\* unique, and no identity outlives its account.
THEOREM RowsStaySound == AccountsSpec => []AccountsInv
  <1>1. IndInv => AccountsInv
    BY DEF IndInv, AccountsInv
  <1> QED
    BY <1>1, AccountsInvariance, PTL

\* However many callbacks race, a Google login answers with the account its
\* identity is linked to.
THEOREM LoginsFindTheirOwn == AccountsSpec => []SignedInToOwn
  <1>1. IndInv => SignedInToOwn
    BY DEF IndInv, SignedInToOwn, SignedIn
  <1> QED
    BY <1>1, AccountsInvariance, PTL

\* What a request may turn into: something that acts for nobody, the end of a login
\* that was under way, a row read from a live account, the account it has created,
\* or a handler for an active holder.
Becomes(r) ==
    \/ req'[r].pc \notin {"verify", "link", "sign", "handler"}
    \/ req[r].pc \in {"verify", "link"} /\ req'[r] = Moved(req[r], "sign")
    \/ /\ user' = user
       /\ \E j \in Ids, pc \in {"verify", "link", "sign"} :
            Live(j) /\ req'[r] = Loaded(req[r], pc, ReadRow(j))
    \/ \E j \in Ids, e \in Emails :
            /\ user' = [user EXCEPT ![j] = Directory!NewRow(e, FALSE)]
            /\ req'[r] = Loaded(req[r], "sign", [Nothing EXCEPT !.id = j, !.email = e])
    \/ /\ user' = user
       /\ \E j \in Ids :
            /\ Active(j)
            /\ req'[r] = [Idle EXCEPT !.pc = "handler", !.sub = j, !.row = ReadRow(j)]

\* One request moves at a time.
LEMMA RequestsBecome ==
    ASSUME IndInv, [AccountsNext]_vars, NEW r \in Requests
    PROVE  req'[r] = req[r] \/ Becomes(r)
  <1>0. /\ AccountsTypeOK /\ req \in [Requests -> Request] /\ \A x \in Requests : Knows(req[x])
        /\ \A x \in Requests : req[x] \in Request
    BY DEF IndInv, AccountsTypeOK
  <1>1. ASSUME NEW x \in Requests, NEW q, req' = [req EXCEPT ![x] = q],
               q.pc \notin {"verify", "link", "sign", "handler"}
        PROVE  req'[r] = req[r] \/ Becomes(r)
    BY <1>0, <1>1 DEF Becomes
  <1>2. ASSUME NEW x \in Requests, NEW pc \in Points, Goto(x, pc),
               pc \notin {"verify", "link", "sign", "handler"}
        PROVE  req'[r] = req[r] \/ Becomes(r)
    <2>1. Moved(req[x], pc).pc = pc
      BY <1>0, MovedTypes
    <2> QED
      BY <1>1, <1>2, <2>1 DEF Goto, Moved
  <1>3. ASSUME NEW x \in Requests, req[x].pc \in {"verify", "link"}, Goto(x, "sign")
        PROVE  req'[r] = req[r] \/ Becomes(r)
    BY <1>0, <1>3 DEF Goto, Moved, Becomes
  <1>4. ASSUME NEW x \in Requests, NEW j \in Ids, NEW pc \in {"verify", "link", "sign"},
               Live(j), Keep(x, pc, j), user' = user
        PROVE  req'[r] = req[r] \/ Becomes(r)
    BY <1>0, <1>4 DEF Keep, Loaded, Becomes
  <1>5. ASSUME NEW x \in Requests, req' = [req EXCEPT ![x] = Idle]
        PROVE  req'[r] = req[r] \/ Becomes(r)
    BY <1>0, <1>5 DEF Idle, Becomes
  <1>6. ASSUME NEW x \in Requests, GoogleStep(x)
        PROVE  req'[r] = req[r] \/ Becomes(r)
    <2>1. ASSUME NEW s \in Subjects, NEW e \in Emails \cup {None}, StartGoogle(x, s, e)
          PROVE  req'[r] = req[r] \/ Becomes(r)
      <3> DEFINE q == [Idle EXCEPT !.subject = s, !.email = e,
                          !.pc = IF e = None THEN "denied" ELSE "identity"]
      <3>1. q.pc \in {"denied", "identity"}
        BY DEF Idle
      <3>2. req' = [req EXCEPT ![x] = q]
        BY <2>1 DEF StartGoogle
      <3> HIDE DEF q
      <3> QED
        BY <1>1, <3>1, <3>2
    <2>2. ASSUME FindIdentity(x) \/ FindAgain(x)
          PROVE  req'[r] = req[r] \/ Becomes(r)
      <3>1. CASE \E pc \in {"email", "conflict"} : Goto(x, pc)
        BY <1>2, <3>1 DEF Points
      <3>2. CASE /\ identity[req[x].subject] # None
                 /\ Keep(x, "sign", identity[req[x].subject])
        <4>1. req[x].subject \in Subjects
          BY <1>0, <2>2 DEF Knows, FindIdentity, FindAgain
        <4>2. PICK j \in Ids : j = identity[req[x].subject]
          BY <1>0, <3>2, <4>1 DEF AccountsTypeOK
        <4>3. Live(j)
          BY <3>2, <4>1, <4>2 DEF IndInv, RowsAreSound
        <4> QED
          BY <1>4, <2>2, <3>2, <4>2, <4>3 DEF FindIdentity, FindAgain, Rest
      <3> QED
        BY <2>2, <3>1, <3>2 DEF FindIdentity, FindAgain
    <2>3. ASSUME FindByEmail(x)
          PROVE  req'[r] = req[r] \/ Becomes(r)
      <3>1. CASE Goto(x, "create")
        BY <1>2, <3>1 DEF Points
      <3>2. ASSUME NEW j \in Ids, Live(j), Keep(x, "link", j)
            PROVE  req'[r] = req[r] \/ Becomes(r)
        BY <1>4, <2>3, <3>2 DEF FindByEmail, Rest
      <3> QED
        BY <2>3, <3>1, <3>2 DEF FindByEmail, ByEmail
    <2>4. ASSUME LinkIdentity(x)
          PROVE  req'[r] = req[r] \/ Becomes(r)
      BY <1>2, <1>3, <2>4 DEF LinkIdentity, Points
    <2>5. ASSUME CreateWithIdentity(x)
          PROVE  req'[r] = req[r] \/ Becomes(r)
      <3>1. CASE Goto(x, "again")
        BY <1>2, <3>1 DEF Points
      <3>2. req[x].email \in Emails
        BY <1>0, <2>5 DEF Knows, CreateWithIdentity
      <3>3. ASSUME NEW j \in Ids, NEW e \in Emails,
                   user' = [user EXCEPT ![j] = Directory!NewRow(e, FALSE)],
                   req' = [req EXCEPT ![x] = Loaded(req[x], "sign",
                                [Nothing EXCEPT !.id = j, !.email = e])]
            PROVE  req'[r] = req[r] \/ Becomes(r)
        <4>1. \/ req'[r] = req[r]
              \/ req'[r] = Loaded(req[r], "sign", [Nothing EXCEPT !.id = j, !.email = e])
          BY <1>0, <3>3
        <4> QED
          BY <3>3, <4>1 DEF Becomes
      <3> QED
        BY <2>5, <3>1, <3>2, <3>3 DEF CreateWithIdentity, Loaded
    <2> QED
      BY <1>6, <2>1, <2>2, <2>3, <2>4, <2>5 DEF GoogleStep
  <1>7. ASSUME NEW x \in Requests,
               Verify(x) \/ \E e \in Emails, exact \in BOOLEAN : StartLocal(x, e, exact)
        PROVE  req'[r] = req[r] \/ Becomes(r)
    <2>1. CASE Goto(x, "denied")
      BY <1>2, <2>1 DEF Points
    <2>2. ASSUME NEW j \in Ids, Live(j), Keep(x, "verify", j), Rest
          PROVE  req'[r] = req[r] \/ Becomes(r)
      BY <1>4, <2>2 DEF Rest
    <2>3. CASE req[x].pc = "verify" /\ Goto(x, "sign")
      BY <1>3, <2>3
    <2> QED
      BY <1>7, <2>1, <2>2, <2>3 DEF Verify, StartLocal, ByEmail
  <1>8. ASSUME NEW x \in Requests, Sign(x) \/ Fail(x)
        PROVE  req'[r] = req[r] \/ Becomes(r)
    BY <1>2, <1>8 DEF Sign, Fail, Points
  <1>9. ASSUME NEW x \in Requests, NEW t \in token, Admit(x, t)
        PROVE  req'[r] = req[r] \/ Becomes(r)
    <2>1. CASE Goto(x, "denied")
      BY <1>2, <2>1 DEF Points
    <2>2. ASSUME NEW j \in Holder(t), user[j].status = "ACTIVE", Rest,
                 req' = [req EXCEPT ![x] = [Idle EXCEPT !.pc = "handler", !.sub = t.sub,
                                                        !.row = ReadRow(j)]]
          PROVE  req'[r] = req[r] \/ Becomes(r)
      <3>1. j \in Ids /\ Active(j) /\ t.sub = j
        BY <2>2 DEF Holder, Active
      <3>2. req'[r] = req[r] \/
                req'[r] = [Idle EXCEPT !.pc = "handler", !.sub = j, !.row = ReadRow(j)]
        BY <1>0, <2>2, <3>1
      <3> QED
        BY <2>2, <3>1, <3>2 DEF Becomes, Rest
    <2> QED
      BY <1>9, <2>1, <2>2 DEF Admit
  <1>10. CASE req' = req
    BY <1>10
  <1> QED
    BY <1>5, <1>6, <1>7, <1>8, <1>9, <1>10
       DEF AccountsNext, vars, Administer, Create, Expire, ReadOnly, Remove, Answered

\* Only who is active, or was when the request looked, is acted for.
LEMMA EngagedStep ==
    ASSUME IndInv, [AccountsNext]_vars, NEW i \in Ids, ~Underway(i), Underway(i)'
    PROVE  Active(i)'
  <1>1. PICK r \in Requests :
            \/ req'[r].pc = "handler" /\ i \in {req'[r].sub, req'[r].row.id}
            \/ /\ req'[r].pc \in {"verify", "link", "sign"}
               /\ req'[r].row.id = i /\ req'[r].row.status = "ACTIVE"
    BY DEF Underway
  <1>2. /\ AccountsTypeOK /\ req[r] \in Request
        /\ \A j \in Ids : user[j] \in Directory!UserRow
    BY DEF IndInv, AccountsTypeOK
  <1>3. Becomes(r)
    BY <1>1, RequestsBecome DEF Underway
  <1>4. CASE req[r].pc \in {"verify", "link"} /\ req'[r] = Moved(req[r], "sign")
    <2>1. req'[r].pc = "sign" /\ req'[r].row = req[r].row
      BY <1>2, <1>4, MovedTypes DEF Points
    <2> QED
      BY <1>1, <1>4, <2>1 DEF Underway
  <1>5. ASSUME user' = user, NEW j \in Ids, NEW pc \in {"verify", "link", "sign"},
               Live(j), req'[r] = Loaded(req[r], pc, ReadRow(j))
        PROVE  Active(i)'
    <2>1. ReadRow(j) \in Read /\ ReadRow(j).id = j /\ ReadRow(j).status = user[j].status
      BY <1>2, ReadTypes DEF ReadRow
    <2>2. req'[r].pc = pc /\ req'[r].row = ReadRow(j)
      <3>1. pc \in Points
        BY DEF Points
      <3> QED
        BY <1>2, <1>5, <2>1, <3>1, LoadedTypes
    <2>3. i = j /\ user[i].status = "ACTIVE"
      BY <1>1, <1>5, <2>1, <2>2
    <2> QED
      BY <1>5, <2>3 DEF Active, Live, Directory!Live
  <1>6. ASSUME NEW j \in Ids, NEW e \in Emails,
               user' = [user EXCEPT ![j] = Directory!NewRow(e, FALSE)],
               req'[r] = Loaded(req[r], "sign", [Nothing EXCEPT !.id = j, !.email = e])
        PROVE  Active(i)'
    <2> DEFINE known == [Nothing EXCEPT !.id = j, !.email = e]
    <2>1. known \in Read /\ known.id = j
      BY DEF Read, Nothing
    <2>2. req'[r].pc = "sign" /\ req'[r].row = known
      <3>1. "sign" \in Points /\ req'[r] = Loaded(req[r], "sign", known)
        BY <1>6 DEF Points
      <3> HIDE DEF known
      <3> QED
        BY <1>2, <2>1, <3>1, LoadedTypes
    <2>3. i = j
      BY <1>1, <2>1, <2>2
    <2>4. user'[j] = Directory!NewRow(e, FALSE)
      BY <1>2, <1>6 DEF AccountsTypeOK
    <2>5. user'[j].state = "live" /\ user'[j].status = "ACTIVE"
      BY <2>4 DEF Directory!NewRow, Directory!NoRow
    <2> QED
      BY <2>3, <2>5 DEF Active, Live, Directory!Live
  <1>7. ASSUME user' = user, NEW j \in Ids, Active(j),
               req'[r] = [Idle EXCEPT !.pc = "handler", !.sub = j, !.row = ReadRow(j)]
        PROVE  Active(i)'
    <2>1. req'[r].pc = "handler" /\ req'[r].sub = j /\ req'[r].row = ReadRow(j)
      BY <1>7 DEF Idle
    <2>2. ReadRow(j).id = j
      BY <1>2, ReadTypes
    <2>3. i = j
      BY <1>1, <2>1, <2>2
    <2> QED
      BY <1>7, <2>3 DEF Active, Live, Directory!Live
  <1> QED
    BY <1>1, <1>3, <1>4, <1>5, <1>6, <1>7 DEF Becomes

\* A token is signed for an account whose row was read as active.
LEMMA TokensStep ==
    ASSUME IndInv, [AccountsNext]_vars, NEW t \in token' \ token
    PROVE  Underway(t.sub)
  <1>1. PICK r \in Requests : Sign(r)
    BY DEF AccountsNext, vars, Administer, Create, Expire, GoogleStep, StartGoogle,
           FindIdentity, FindByEmail, LinkIdentity, CreateWithIdentity, FindAgain, StartLocal,
           Verify, Admit, ReadOnly, Remove, Fail, Answered, Rest
  <1>2. /\ req[r].pc = "sign" /\ req[r].row.status = "ACTIVE"
        /\ t = [sub |-> req[r].row.id, email |-> req[r].row.email]
    BY <1>1 DEF Sign
  <1> QED
    BY <1>2 DEF Underway

\* Who is banned or removed stays out, when what had found the account active before
\* has ended.
THEOREM BannedStayOut == AccountsSpec => BannedStaysOut
  <1> DEFINE Out == \A i \in Ids : ~Active(i) /\ ~Underway(i) =>
                        /\ Underway(i)' => Active(i)'
                        /\ \A t \in token' \ token : t.sub # i
  <1>1. IndInv /\ [AccountsNext]_vars => [Out]_vars
    BY EngagedStep, TokensStep
  <1>2. AccountsSpec => [][Out]_vars
    <2> HIDE DEF Out
    <2> QED
      BY <1>1, AccountsInvariance, PTL DEF AccountsSpec
  <1> QED
    BY <1>2 DEF BannedStaysOut

\* A request that attaches, opens or removes does so in one step of the directory.
LEMMA RequestDirectory ==
    ASSUME IndInv, NEW r \in Requests,
           LinkIdentity(r) \/ CreateWithIdentity(r) \/ \E i \in Ids : Remove(r, i)
    PROVE  [Directory!DirectoryNext]_<<user, identity>>
  <1>1. CASE UNCHANGED <<user, identity>>
    BY <1>1
  <1>2. CASE LinkIdentity(r) /\ ~UNCHANGED <<user, identity>>
    <2> DEFINE i == req[r].row.id
               s == req[r].subject
    <2>1. i \in Ids /\ s \in Subjects /\ identity[s] = None /\ Live(i)
          /\ ~(\E t \in Subjects : identity[t] = i)
          /\ identity' = [identity EXCEPT ![s] = i] /\ user' = user
      BY <1>2 DEF LinkIdentity, IdentityTaken, IndInv, Knows
    <2>2. user[i].email \in Emails
      BY <2>1 DEF IndInv, LiveHasEmail
    <2> HIDE DEF i, s
    <2>3. i \in Directory!WithEmail(user[i].email)
      BY <2>1 DEF Directory!WithEmail, Live
    <2>4. Directory!Attach(i, user[i].email, s)
      BY <2>1, <2>3 DEF Directory!Attach, Directory!Linked
    <2> QED
      BY <2>1, <2>2, <2>4 DEF Directory!DirectoryNext
  <1>3. CASE CreateWithIdentity(r) /\ ~UNCHANGED <<user, identity>>
    <2> DEFINE e == req[r].email
               s == req[r].subject
    <2>1. PICK i \in Ids :
            /\ user[i].state = "free" /\ identity[s] = None /\ ByEmail(e) = {}
            /\ user' = [user EXCEPT ![i] = Directory!NewRow(e, FALSE)]
            /\ identity' = [identity EXCEPT ![s] = i]
      BY ZenonT(40), <1>3 DEF CreateWithIdentity
    <2>2. e \in Emails /\ s \in Subjects
      BY <1>3 DEF IndInv, Knows, CreateWithIdentity
    <2> HIDE DEF e, s
    <2>3. Directory!WithEmail(e) = {}
      BY <2>1 DEF Directory!WithEmail, ByEmail, Live
    <2>4. Directory!Open(i, e, s)
      BY <2>1, <2>3 DEF Directory!Open, Directory!InsertUser
    <2> QED
      BY <2>2, <2>4 DEF Directory!DirectoryNext
  <1>4. ASSUME NEW i \in Ids, Remove(r, i), Live(i)
        PROVE  [Directory!DirectoryNext]_<<user, identity>>
    <2>1. Directory!Close(i)
      BY <1>4 DEF Remove, RemoveUser, Live, Directory!Close
    <2> QED
      BY <2>1 DEF Directory!DirectoryNext
  <1> QED
    BY <1>1, <1>2, <1>3, <1>4 DEF Remove

\* The handlers, statement by statement and racing, implement the directory whose
\* operations are atomic.
THEOREM DirectoryIsImplemented == AccountsSpec => ImplementsDirectory
  <1>1. AccountsInit => Directory!DirectoryInit
    BY DEF AccountsInit, Directory!DirectoryInit
  <1>2. IndInv /\ [AccountsNext]_vars => [Directory!DirectoryNext]_<<user, identity>>
    <2> SUFFICES ASSUME IndInv, [AccountsNext]_vars
                 PROVE  [Directory!DirectoryNext]_<<user, identity>>
      OBVIOUS
    <2>1. ASSUME NEW i \in Ids, NEW e \in Emails, Create(i, e)
          PROVE  [Directory!DirectoryNext]_<<user, identity>>
      <3>1. Directory!Register(i, e)
        BY <2>1 DEF Create, Directory!Register, Directory!InsertUser, Directory!WithEmail,
                    ByEmail, Live
      <3> QED
        BY <3>1 DEF Directory!DirectoryNext
    <2>2. ASSUME NEW i \in Ids, Administer(i)
          PROVE  [Directory!DirectoryNext]_<<user, identity>>
      <3>1. Directory!Administer(i)
        BY <2>2 DEF Administer, Directory!Administer, Live
      <3> QED
        BY <3>1 DEF Directory!DirectoryNext
    <2>3. ASSUME NEW r \in Requests,
                 LinkIdentity(r) \/ CreateWithIdentity(r) \/ \E i \in Ids : Remove(r, i)
          PROVE  [Directory!DirectoryNext]_<<user, identity>>
      BY <2>3, RequestDirectory
    <2>4. CASE UNCHANGED <<user, identity>>
      BY <2>4
    <2> QED
      BY <2>1, <2>2, <2>3, <2>4
         DEF AccountsNext, vars, GoogleStep, Expire, StartLocal, Verify, StartGoogle,
             FindIdentity, FindByEmail, FindAgain, Sign, Admit, ReadOnly, Fail, Answered, Rest
  <1> QED
    BY <1>1, <1>2, AccountsInvariance, PTL
       DEF AccountsSpec, ImplementsDirectory, Directory!DirectorySpec, Directory!directoryVars
=============================================================================
