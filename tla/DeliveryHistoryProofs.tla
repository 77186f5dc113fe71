------------------------- MODULE DeliveryHistoryProofs -------------------------
(***************************************************************************)
(* What the attempts say of the calls, proved without any assumption on    *)
(* locks: when a job is handed to two workers, each still writes to an     *)
(* attempt of its own, which it closes once.  Then what a refusal and an   *)
(* acceptance leave behind, how a permanent error ends its job, how often  *)
(* a job calls the provider, and what a second accepted message costs.     *)
(***************************************************************************)
EXTENDS DeliveryWorkerProofs, FiniteSetTheorems

\* A job that exists is about the same notification for ever, and stays a job.
LEMMA JobsKeepNames ==
    ASSUME Shape, [Next]_vars, NEW j \in Jobs, job[j].state # "unused"
    PROVE  job'[j].notif = job[j].notif /\ job'[j].state # "unused"
  <1> DEFINE Kept == job'[j].notif = job[j].notif /\ job'[j].state # "unused"
  <1>1. CASE UNCHANGED vars
    BY <1>1 DEF vars
  <1>2. ASSUME NEW n \in Notifications, ClientStep(n) \/ Remove(n)
        PROVE  Kept
    <2>1. CASE Enqueue(n)
      BY <2>1 DEF Enqueue, AddJob, Shape, TypeOK, JobRecord
    <2>2. CASE ~Enqueue(n)
      BY <1>2, <2>2 DEF ClientStep, Create, Send, Post, Update, EnqueueFails, Remove
    <2> QED
      BY <2>1, <2>2
  <1>3. ASSUME NEW i \in Jobs, QueueStep(i)
        PROVE  Kept
    <2>1. CASE Promote(i)
      BY <2>1 DEF Promote, Shape, TypeOK, JobRecord
    <2>2. CASE Stall(i) \/ LoseLock(i)
      <3>1. job' = [job EXCEPT ![i] = Stalled(i)] /\ job[i].state = "active"
        BY <2>2 DEF Stall, LoseLock
      <3>2. Stalled(i).notif = job[i].notif /\ Stalled(i).state # "unused"
        BY <3>1, EndedJob DEF Shape
      <3> QED
        BY <3>1, <3>2 DEF Shape, TypeOK
    <2>3. CASE \E w \in Workers : Take(w, i)
      BY <2>3 DEF Take, Shape, TypeOK, JobRecord
    <2> QED
      BY <1>3, <2>1, <2>2, <2>3 DEF QueueStep
  <1>4. ASSUME NEW w \in Workers, WorkerStep(w), ~Settle(w)
        PROVE  Kept
    BY <1>4, StepOfOne
  <1>5. ASSUME NEW w \in Workers, Settle(w)
        PROVE  Kept
    <2>1. worker[w].job \in Jobs /\ worker[w].error \in Errors
      BY <1>5, TargetExists DEF Settle, WorkerRecord
    <2>2. PICK i \in Jobs : i = worker[w].job
      BY <2>1
    <2>3. \/ job' = job
          \/ job[i].state = "active" /\ job' = [job EXCEPT ![i] = Settled(i, worker[w].error)]
      BY <1>5, <2>2 DEF Settle, Holds
    <2>4. job[i].state = "active" => /\ Settled(i, worker[w].error).notif = job[i].notif
                                     /\ Settled(i, worker[w].error).state # "unused"
      BY <2>1, EndedJob DEF Shape
    <2> QED
      BY <2>3, <2>4 DEF Shape, TypeOK
  <1>6. ASSUME NEW w \in Workers, Crash(w)
        PROVE  Kept
    BY <1>6 DEF Crash, Shape, TypeOK, JobRecord
  <1> QED
    BY <1>1, <1>2, <1>3, <1>4, <1>5, <1>6 DEF Next

\* So a worker that keeps its job keeps its target.
LEMMA TargetStays ==
    ASSUME Shape, [Next]_vars, NEW w \in Workers, worker[w].pc # "idle",
           worker'[w].job = worker[w].job
    PROVE  Target(w)' = Target(w)
  BY JobsKeepNames, TargetExists DEF Target, Shape, BusyHasJob

\* The history is not touched by a step that writes no attempt, calls nobody
\* and lets no worker start sending.
LEMMA HistoryFrame ==
    ASSUME Shape, HistoryInv, [Next]_vars,
           delivery' = delivery, calls' = calls,
           \A n \in Notifications :
                /\ Live(n)' => Live(n) \/ notification[n].state = "absent"
                /\ notification[n].state # "absent" => notification'[n].state # "absent",
           \A w \in Workers : Sending(w)' =>
                /\ Sending(w)
                /\ worker'[w].job = worker[w].job
                /\ worker'[w].attempt = worker[w].attempt
                /\ worker'[w].edition = worker[w].edition
                /\ worker'[w].pc = "recordSuccess" => worker[w].pc = "recordSuccess"
    PROVE  HistoryInv'
  <1>1. ASSUME NEW w \in Workers, Sending(w)'
        PROVE  /\ Sending(w)
               /\ Target(w)' = Target(w)
               /\ Target(w) \in Notifications
               /\ Live(Target(w))' => Live(Target(w))
    <2>1. worker[w].pc # "idle"
      BY <1>1 DEF Sending
    <2> QED
      BY <1>1, <2>1, TargetStays, TargetExists DEF Live
  <1>2. ASSUME NEW c \in calls
        PROVE  /\ notification'[c.notif].state # "absent"
               /\ Live(c.notif)' => Live(c.notif)
    BY <1>2 DEF HistoryInv, CallsAreNamed, Shape, TypeOK, Call
  <1>3. OwnAttempt'
    BY <1>1 DEF HistoryInv, OwnAttempt
  <1>4. AttemptsApart'
    BY <1>1 DEF HistoryInv, AttemptsApart
  <1>5. CallsAreNamed'
    BY <1>2 DEF HistoryInv, CallsAreNamed, LastAttempt
  <1>6. AnswerWasGiven'
    BY <1>1 DEF HistoryInv, AnswerWasGiven, Accepted, Sending
  <1>7. PayloadMatchesSent'
    BY <1>2 DEF HistoryInv, PayloadMatchesSent
  <1>8. SentWasAccepted'
    BY DEF HistoryInv, SentWasAccepted, Accepted
  <1> QED
    BY <1>3, <1>4, <1>5, <1>6, <1>7, <1>8 DEF HistoryInv

\* The steps of clients, of the queue and of dying or settling workers.
LEMMA QuietHistory ==
    ASSUME Shape, HistoryInv, Next,
           \/ \E n \in Notifications : ClientStep(n)
           \/ \E j \in Jobs : QueueStep(j)
           \/ \E w \in Workers : Crash(w) \/ Settle(w)
    PROVE  HistoryInv'
  <1>1. delivery' = delivery /\ calls' = calls
    BY ZenonT(40) DEF ClientStep, Create, Send, Post, Update, InsertNotification, EditNotification,
           Enqueue, EnqueueFails, QueueStep, Promote, Stall, LoseLock, Take, Crash, Settle,
           storeVars
  <1>2. ASSUME NEW n \in Notifications
        PROVE  /\ Live(n)' => Live(n) \/ notification[n].state = "absent"
               /\ notification[n].state # "absent" => notification'[n].state # "absent"
    <2>1. CASE \E m \in Notifications : Create(m) \/ Update(m)
      BY ZenonT(40), <2>1 DEF Create, Update, InsertNotification, EditNotification, Live, Shape, TypeOK,
                  StoreTypeOK, NotificationRow
    <2>2. CASE notification' = notification
      BY <2>2 DEF Live
    <2> QED
      BY <2>1, <2>2 DEF ClientStep, Send, Enqueue, EnqueueFails, QueueStep, Promote, Stall,
                        LoseLock, Take, Crash, Settle, storeVars
  <1>3. ASSUME NEW w \in Workers, Sending(w)'
        PROVE  worker'[w] = worker[w]
    <2>1. worker \in [Workers -> WorkerRecord]
      BY DEF Shape, TypeOK
    <2>2. CASE worker' = worker
      BY <2>2
    <2>3. ASSUME NEW v \in Workers, NEW j \in Jobs,
                 worker' = [worker EXCEPT ![v] = [Idle EXCEPT !.pc = "load", !.job = j]]
          PROVE  worker'[w] = worker[w]
      <3>1. [Idle EXCEPT !.pc = "load", !.job = j].pc = "load"
        BY DEF Idle
      <3> QED
        BY <1>3, <2>1, <2>3, <3>1 DEF Sending
    <2>4. ASSUME NEW v \in Workers, worker' = [worker EXCEPT ![v] = Idle]
          PROVE  worker'[w] = worker[w]
      <3>1. Idle.pc = "idle"
        BY DEF Idle
      <3> QED
        BY <1>3, <2>1, <2>4, <3>1 DEF Sending
    <2>5. CASE \E n \in Notifications : ClientStep(n)
      BY <2>2, <2>5 DEF ClientStep, Create, Send, Post, Update, Enqueue, EnqueueFails
    <2>6. CASE \E j \in Jobs : QueueStep(j)
      BY <2>2, <2>3, <2>6 DEF QueueStep, Promote, Stall, LoseLock, Take
    <2>7. CASE \E v \in Workers : Crash(v) \/ Settle(v)
      BY <2>4, <2>7 DEF Crash, Settle
    <2> QED
      BY <2>5, <2>6, <2>7
  <1> QED
    BY <1>1, <1>2, <1>3, HistoryFrame DEF Sending

\* Deleting a notification deletes its history.
LEMMA RemovedHistory ==
    ASSUME Shape, HistoryInv, NEW n \in Notifications, Remove(n)
    PROVE  HistoryInv'
  <1>1. /\ ~Live(n)'
        /\ delivery'[n] = <<>>
        /\ notification'[n].state # "absent"
        /\ \A m \in Notifications \ {n} :
                notification'[m] = notification[m] /\ delivery'[m] = delivery[m]
        /\ UNCHANGED <<job, worker, calls>>
    BY DEF Remove, DeleteNotification, Live, Absent, Shape, TypeOK, StoreTypeOK
  <1>2. \A w \in Workers : Target(w)' = Target(w) /\ (Sending(w) => Target(w) \in Notifications)
    BY <1>1, TargetExists DEF Target, Sending
  <1>3. \A c \in calls : c.notif \in Notifications
    BY DEF Shape, TypeOK, Call
  <1>4. OwnAttempt' /\ AttemptsApart' /\ AnswerWasGiven'
    BY <1>1, <1>2 DEF HistoryInv, OwnAttempt, AttemptsApart, AnswerWasGiven, Accepted, Sending,
                      Live
  <1>5. CallsAreNamed' /\ PayloadMatchesSent'
    BY <1>1, <1>3 DEF HistoryInv, CallsAreNamed, PayloadMatchesSent, Live, LastAttempt
  <1>6. SentWasAccepted'
    BY <1>1 DEF HistoryInv, SentWasAccepted, Accepted
  <1> QED
    BY <1>4, <1>5, <1>6 DEF HistoryInv

(***************************************************************************)
(* What the transactions do to single attempts.                            *)
(***************************************************************************)

\* createDeliveryAttempt leaves the earlier attempts alone.
LEMMA InsertedRows ==
    ASSUME StoreTypeOK, NEW n \in Notifications, NEW e \in Nat, InsertDelivery(n, e)
    PROVE  /\ delivery'[n][LastAttempt(n) + 1] =
                [status |-> "PROCESSING", error |-> FALSE, edition |-> e, msg |-> FALSE]
           /\ \A i \in 1 .. LastAttempt(n) : delivery'[n][i] = delivery[n][i]
  <1> DEFINE row == [status |-> "PROCESSING", error |-> FALSE, edition |-> e, msg |-> FALSE]
  <1>1. row \in DeliveryRow
    BY DEF DeliveryRow, DeliveryStatus
  <1>2. delivery[n] \in Seq(DeliveryRow) /\ delivery'[n] = Append(delivery[n], row)
    BY DEF StoreTypeOK, InsertDelivery
  <1> HIDE DEF row
  <1>3. /\ Append(delivery[n], row)[Len(delivery[n]) + 1] = row
        /\ \A i \in 1 .. Len(delivery[n]) : Append(delivery[n], row)[i] = delivery[n][i]
    BY <1>1, <1>2, AppendRow
  <1> QED
    BY <1>2, <1>3 DEF LastAttempt, row

\* Closing an attempt leaves the others alone, and its text.
LEMMA ClosedRows ==
    ASSUME StoreTypeOK, NEW n \in Notifications, NEW k \in 1 .. LastAttempt(n),
           MarkSent(n, k) \/ MarkFailed(n, k)
    PROVE  /\ \A i \in 1 .. LastAttempt(n) : i # k => delivery'[n][i] = delivery[n][i]
           /\ delivery'[n][k].edition = delivery[n][k].edition
           /\ MarkFailed(n, k) => /\ delivery'[n][k].status = "FAILED"
                                  /\ delivery'[n][k].msg = delivery[n][k].msg
           /\ MarkSent(n, k) => delivery'[n][k].status = "SENT" /\ delivery'[n][k].msg
  <1>0. ~(MarkSent(n, k) /\ MarkFailed(n, k))
    <2>1. MarkSent(n, k) => notification'[n].status = "SENT"
      BY DEF MarkSent, StoreTypeOK, NotificationRow
    <2>2. MarkFailed(n, k) => notification'[n].status = "FAILED"
      BY DEF MarkFailed, StoreTypeOK, NotificationRow
    <2> QED
      BY <2>1, <2>2
  <1>1. delivery[n] \in Seq(DeliveryRow) /\ k \in 1 .. Len(delivery[n])
    BY DEF StoreTypeOK, LastAttempt
  <1>2. delivery[n][k] \in DeliveryRow
    BY <1>1
  <1>3. ASSUME NEW r, delivery' = [delivery EXCEPT ![n] = [delivery[n] EXCEPT ![k] = r]]
        PROVE  /\ delivery'[n][k] = r
               /\ \A i \in 1 .. LastAttempt(n) : i # k => delivery'[n][i] = delivery[n][i]
    BY <1>1, <1>3 DEF StoreTypeOK, LastAttempt
  <1>4. CASE MarkFailed(n, k)
    <2> DEFINE r == [delivery[n][k] EXCEPT !.status = "FAILED", !.error = TRUE]
    <2>1. delivery' = [delivery EXCEPT ![n] = [delivery[n] EXCEPT ![k] = r]]
      BY ZenonT(40), <1>1, <1>2, <1>4 DEF MarkFailed, StoreTypeOK, DeliveryRow
    <2>2. r.status = "FAILED" /\ r.msg = delivery[n][k].msg /\ r.edition = delivery[n][k].edition
      BY <1>2 DEF DeliveryRow
    <2> HIDE DEF r
    <2> QED
      BY <1>0, <1>3, <1>4, <2>1, <2>2
  <1>5. CASE MarkSent(n, k)
    <2> DEFINE r == [delivery[n][k] EXCEPT !.status = "SENT", !.error = FALSE, !.msg = TRUE]
    <2>1. delivery' = [delivery EXCEPT ![n] = [delivery[n] EXCEPT ![k] = r]]
      BY <1>1, <1>2, <1>5 DEF MarkSent, StoreTypeOK, DeliveryRow
    <2>2. r.status = "SENT" /\ r.msg /\ r.edition = delivery[n][k].edition
      BY <1>2 DEF DeliveryRow
    <2> HIDE DEF r
    <2> QED
      BY <1>0, <1>3, <1>5, <2>1, <2>2
  <1> QED
    BY <1>4, <1>5

(***************************************************************************)
(* The steps of send.                                                      *)
(***************************************************************************)

\* createDeliveryAttempt gives the worker an attempt nobody else has.
LEMMA InsertedHistory ==
    ASSUME Shape, HistoryInv, [Next]_vars,
           NEW w \in Workers, worker[w].pc = "insert", Live(Target(w)),
           worker[w].last + 1 > LastAttempt(Target(w)),
           InsertDelivery(Target(w), worker[w].edition),
           worker' = [worker EXCEPT ![w].pc = "call", ![w].attempt = worker[w].last + 1],
           UNCHANGED calls
    PROVE  HistoryInv'
  <1>1. PICK n \in Notifications : n = Target(w)
    BY TargetExists
  <1>2. /\ worker \in [Workers -> WorkerRecord]
        /\ StoreTypeOK
        /\ LastAttempt(n) \in Nat
    BY DEF Shape, TypeOK, StoreTypeOK, LastAttempt
  <1>3. PICK e \in Nat : e = worker[w].edition
    BY <1>2 DEF WorkerRecord
  <1>4. worker[w].last + 1 = LastAttempt(n) + 1
    <2>1. worker[w].last \in Nat /\ worker[w].last <= LastAttempt(n)
      BY <1>1, <1>2 DEF Shape, AttemptExists, InRange, WorkerRecord
    <2> QED
      BY <1>1, <1>2, <2>1
  <1>5. PICK k \in Nat : k = LastAttempt(n) + 1
    BY <1>2
  <1>6. /\ worker'[w].pc = "call"
        /\ worker'[w].attempt = k
        /\ worker'[w].edition = e
        /\ \A v \in Workers \ {w} : worker'[v] = worker[v]
        /\ \A v \in Workers : worker'[v].job = worker[v].job
    BY <1>2, <1>3, <1>4, <1>5 DEF WorkerRecord
  <1>7. InsertDelivery(n, e)
    BY <1>1, <1>3
  <1>8. /\ LastAttempt(n)' = k
        /\ delivery'[n][k].status = "PROCESSING"
        /\ delivery'[n][k].edition = e
        /\ ~delivery'[n][k].msg
        /\ \A i \in 1 .. LastAttempt(n) : delivery'[n][i] = delivery[n][i]
    <2>1. LastAttempt(n)' = LastAttempt(n) + 1
      BY <1>2, <1>7, InsertDeliveryEffect
    <2>2. /\ delivery'[n][LastAttempt(n) + 1] =
                [status |-> "PROCESSING", error |-> FALSE, edition |-> e, msg |-> FALSE]
          /\ \A i \in 1 .. LastAttempt(n) : delivery'[n][i] = delivery[n][i]
      BY <1>2, <1>7, InsertedRows
    <2>3. delivery'[n][k] =
                [status |-> "PROCESSING", error |-> FALSE, edition |-> e, msg |-> FALSE]
      BY <1>5, <2>2
    <2> QED
      BY <1>5, <2>1, <2>2, <2>3
  <1>9. /\ \A m \in Notifications : notification'[m].state = notification[m].state
        /\ \A m \in Notifications \ {n} : delivery'[m] = delivery[m]
    BY <1>2, <1>7, InsertDeliveryEffect
  <1>10. ASSUME NEW v \in Workers, Sending(v), v # w
         PROVE  /\ Target(v)' = Target(v)
                /\ Target(v) \in Notifications
                /\ Live(Target(v)) => worker[v].attempt \in 1 .. LastAttempt(Target(v))
    BY <1>6, <1>10, TargetStays, TargetExists DEF Sending, Shape, AttemptExists, InRange
  <1>11. Target(w)' = n
    BY <1>1, <1>6, TargetStays
  <1>12. OwnAttempt'
    <2> SUFFICES ASSUME NEW v \in Workers, Sending(v)', Live(Target(v))'
                 PROVE  LET row == delivery'[Target(v)'][worker'[v].attempt]
                        IN  row.status = "PROCESSING" /\ ~row.msg /\ row.edition = worker'[v].edition
      BY DEF OwnAttempt
    <2>1. CASE v = w
      BY <1>6, <1>8, <1>11, <2>1
    <2>2. CASE v # w
      <3>1. worker'[v] = worker[v] /\ Sending(v)
        BY <1>6, <2>2 DEF Sending
      <3>2. Target(v)' = Target(v) /\ Target(v) \in Notifications
        BY <1>10, <2>2, <3>1
      <3>3. Live(Target(v))
        BY <1>9, <3>2 DEF Live
      <3>4. delivery'[Target(v)][worker[v].attempt] = delivery[Target(v)][worker[v].attempt]
        BY <1>8, <1>9, <1>10, <2>2, <3>1, <3>2, <3>3
      <3> QED
        BY <3>1, <3>2, <3>3, <3>4 DEF HistoryInv, OwnAttempt
    <2> QED
      BY <2>1, <2>2
  <1>13. AttemptsApart'
    <2> SUFFICES ASSUME NEW u \in Workers, NEW v \in Workers, u # v, Sending(u)', Sending(v)',
                        Live(Target(u))', Target(u)' = Target(v)'
                 PROVE  worker'[u].attempt # worker'[v].attempt
      BY DEF AttemptsApart
    <2>1. ASSUME NEW x \in Workers, x # w, Sending(x)'
          PROVE  /\ worker'[x] = worker[x] /\ Sending(x)
                 /\ Target(x)' = Target(x) /\ Target(x) \in Notifications
                 /\ Live(Target(x))' => Live(Target(x))
                 /\ Live(Target(x))' /\ Target(x)' = n => worker'[x].attempt # k
      <3>1. worker'[x] = worker[x] /\ Sending(x)
        BY <1>6, <2>1 DEF Sending
      <3>2. Target(x)' = Target(x) /\ Target(x) \in Notifications
        BY <1>10, <2>1, <3>1
      <3>3. Live(Target(x))' => Live(Target(x))
        BY <1>9, <3>2 DEF Live
      <3>4. Live(Target(x))' => worker[x].attempt \in 1 .. LastAttempt(Target(x))
        BY <1>10, <2>1, <3>1, <3>3
      <3>5. ASSUME Live(Target(x))', Target(x)' = n
            PROVE  worker'[x].attempt # k
        <4>1. worker[x].attempt \in 1 .. LastAttempt(n)
          BY <3>2, <3>4, <3>5
        <4>2. \A a \in 1 .. LastAttempt(n) : a # k
          BY <1>2, <1>5
        <4> QED
          BY <3>1, <4>1, <4>2
      <3> QED
        BY <3>1, <3>2, <3>3, <3>5
    <2>2. CASE u = w
      BY <1>6, <1>11, <2>1, <2>2
    <2>3. CASE v = w
      BY <1>6, <1>11, <2>1, <2>3
    <2>4. CASE u # w /\ v # w
      <3>1. /\ worker'[u] = worker[u] /\ Sending(u) /\ Target(u)' = Target(u)
            /\ worker'[v] = worker[v] /\ Sending(v) /\ Target(v)' = Target(v)
            /\ Live(Target(u))
        BY <2>1, <2>4
      <3>2. Target(u) = Target(v)
        BY <3>1
      <3> QED
        BY <3>1, <3>2 DEF HistoryInv, AttemptsApart
    <2> QED
      BY <2>2, <2>3, <2>4
  <1>14. ASSUME NEW c \in calls
         PROVE  /\ c.notif \in Notifications
                /\ notification'[c.notif].state # "absent"
                /\ Live(c.notif)' =>
                        /\ Live(c.notif)
                        /\ c.attempt \in 1 .. LastAttempt(c.notif)
                        /\ c.attempt \in 1 .. LastAttempt(c.notif)'
                        /\ delivery'[c.notif][c.attempt] = delivery[c.notif][c.attempt]
    <2>1. c.notif \in Notifications /\ notification[c.notif].state # "absent"
      BY <1>14 DEF Shape, TypeOK, Call, HistoryInv, CallsAreNamed
    <2>2. Live(c.notif)' => Live(c.notif)
      BY <1>9, <2>1 DEF Live
    <2>3. Live(c.notif) => c.attempt \in 1 .. LastAttempt(c.notif)
      BY <1>14 DEF HistoryInv, CallsAreNamed
    <2>4. CASE c.notif = n
      BY <1>2, <1>5, <1>8, <1>9, <2>1, <2>2, <2>3, <2>4
    <2>5. CASE c.notif # n
      BY <1>9, <2>1, <2>2, <2>3, <2>5 DEF LastAttempt
    <2> QED
      BY <2>4, <2>5
  <1>15. CallsAreNamed'
    BY <1>14 DEF CallsAreNamed
  <1>16. PayloadMatchesSent'
    BY <1>14 DEF HistoryInv, PayloadMatchesSent
  <1>17. AnswerWasGiven'
    BY <1>6, <1>10 DEF HistoryInv, AnswerWasGiven, Accepted, Sending
  <1>18. SentWasAccepted'
    <2> SUFFICES ASSUME NEW m \in Notifications, NEW i \in DOMAIN delivery'[m],
                        delivery'[m][i].status = "SENT" \/ delivery'[m][i].msg
                 PROVE  Accepted(m, i)
      BY DEF SentWasAccepted, Accepted
    <2>1. CASE m # n
      BY <1>9, <2>1 DEF HistoryInv, SentWasAccepted
    <2>2. CASE m = n
      <3>1. DOMAIN delivery'[n] = 1 .. k /\ DOMAIN delivery[n] = 1 .. LastAttempt(n)
        BY <1>2, <1>7, <1>8, InsertDeliveryEffect DEF StoreTypeOK, LastAttempt
      <3>2. i # k
        BY <1>8, <2>2
      <3>3. i \in DOMAIN delivery[n] /\ delivery'[n][i] = delivery[n][i]
        BY <1>2, <1>5, <1>8, <2>2, <3>1, <3>2
      <3> QED
        BY <2>2, <3>3 DEF HistoryInv, SentWasAccepted
    <2> QED
      BY <2>1, <2>2
  <1> QED
    BY <1>12, <1>13, <1>15, <1>16, <1>17, <1>18 DEF HistoryInv

\* The provider's side of the story grows by the call that is made, about the
\* attempt the worker is busy with and with its text.
LEMMA CalledHistory ==
    ASSUME Shape, HistoryInv, [Next]_vars, NEW w \in Workers,
           NEW accepted \in BOOLEAN, NEW error \in Errors,
           error = "none" => accepted,
           CallProvider(w, accepted, error)
    PROVE  HistoryInv'
  <1> DEFINE c == [job |-> worker[w].job, notif |-> Target(w), attempt |-> worker[w].attempt,
                   edition |-> worker[w].edition, accepted |-> accepted, error |-> error]
  <1>1. /\ worker[w].pc = "call"
        /\ calls' = calls \cup {c}
        /\ worker' = [worker EXCEPT ![w].pc = AfterCall(error), ![w].error = error]
        /\ UNCHANGED <<notification, delivery>>
    BY DEF CallProvider, storeVars
  <1>2. /\ c.notif = Target(w) /\ c.attempt = worker[w].attempt
        /\ c.edition = worker[w].edition /\ c.accepted = accepted
    OBVIOUS
  <1> HIDE DEF c
  <1>3. /\ worker'[w].pc \in {"recordSuccess", "recordFailure"}
        /\ worker'[w].pc = "recordSuccess" => accepted
        /\ worker'[w].job = worker[w].job
        /\ worker'[w].attempt = worker[w].attempt
        /\ worker'[w].edition = worker[w].edition
        /\ \A v \in Workers \ {w} : worker'[v] = worker[v]
    BY <1>1 DEF AfterCall, Shape, TypeOK, WorkerRecord
  <1>4. /\ Sending(w)
        /\ Target(w) \in Notifications
        /\ notification[Target(w)].state # "absent"
        /\ Live(Target(w)) => worker[w].attempt \in 1 .. LastAttempt(Target(w))
    BY <1>1, TargetExists DEF Sending, Shape, AttemptExists, InRange
  <1>5. ASSUME NEW v \in Workers, Sending(v)'
        PROVE  /\ Sending(v)
               /\ worker'[v].attempt = worker[v].attempt
               /\ worker'[v].edition = worker[v].edition
               /\ Target(v)' = Target(v)
               /\ Live(Target(v))' => Live(Target(v))
    <2>1. /\ Sending(v)
          /\ worker'[v].job = worker[v].job
          /\ worker'[v].attempt = worker[v].attempt
          /\ worker'[v].edition = worker[v].edition
      BY <1>3, <1>4, <1>5 DEF Sending
    <2>2. Target(v)' = Target(v)
      BY <2>1, TargetStays DEF Sending
    <2> QED
      BY <1>1, <2>1, <2>2 DEF Live
  <1>6. \A m, i : Accepted(m, i) => Accepted(m, i)'
    BY <1>1 DEF Accepted
  <1>7. accepted =>
            \E d \in calls' : d.notif = Target(w) /\ d.attempt = worker[w].attempt /\ d.accepted
    BY <1>1, <1>2 DEF Accepted
  <1>8. OwnAttempt'
    BY ZenonT(40), <1>1, <1>5 DEF HistoryInv, OwnAttempt
  <1>9. AttemptsApart'
    BY <1>5 DEF HistoryInv, AttemptsApart
  <1>10. CallsAreNamed'
    BY <1>1, <1>2, <1>4 DEF HistoryInv, CallsAreNamed, Live, LastAttempt
  <1>11. AnswerWasGiven'
    <2> SUFFICES ASSUME NEW v \in Workers, worker'[v].pc = "recordSuccess"
                 PROVE  Accepted(Target(v), worker[v].attempt)'
      BY DEF AnswerWasGiven
    <2>1. Target(v)' = Target(v)
      BY <1>5 DEF Sending
    <2>2. CASE v = w
      BY <1>3, <1>7, <2>1, <2>2 DEF Accepted
    <2>3. CASE v # w
      <3>1. worker'[v] = worker[v] /\ Accepted(Target(v), worker[v].attempt)
        BY <1>3, <2>3 DEF HistoryInv, AnswerWasGiven
      <3> QED
        BY <1>1, <2>1, <3>1 DEF Accepted
    <2> QED
      BY <2>2, <2>3
  <1>12. PayloadMatchesSent'
    <2>1. Live(Target(w)) => delivery[Target(w)][worker[w].attempt].edition = worker[w].edition
      BY <1>4 DEF HistoryInv, OwnAttempt
    <2> QED
      BY <1>1, <1>2, <2>1 DEF HistoryInv, PayloadMatchesSent, Live
  <1>13. SentWasAccepted'
    BY <1>1, <1>6 DEF HistoryInv, SentWasAccepted
  <1> QED
    BY <1>8, <1>9, <1>10, <1>11, <1>12, <1>13 DEF HistoryInv

\* The transactions that close an attempt close the worker's own, and say SENT
\* only of an accepted one.
LEMMA ClosedHistory ==
    ASSUME Shape, HistoryInv, [Next]_vars,
           NEW w \in Workers, Live(Target(w)),
           \/ worker[w].pc = "recordSuccess" /\ MarkSent(Target(w), worker[w].attempt)
           \/ worker[w].pc = "recordFailure" /\ MarkFailed(Target(w), worker[w].attempt),
           Goto(w, "settle"),
           UNCHANGED calls
    PROVE  HistoryInv'
  <1>1. PICK n \in Notifications : n = Target(w)
    BY TargetExists
  <1>2. Sending(w) /\ StoreTypeOK /\ worker \in [Workers -> WorkerRecord]
    BY DEF Sending, Shape, TypeOK
  <1>3. PICK k \in 1 .. LastAttempt(n) : k = worker[w].attempt
    BY <1>1 DEF Shape, AttemptExists, InRange
  <1>4. MarkSent(n, k) \/ MarkFailed(n, k)
    BY <1>1, <1>3
  <1>5. /\ LastAttempt(n)' = LastAttempt(n)
        /\ \A m \in Notifications : notification'[m].state = notification[m].state
        /\ \A m \in Notifications \ {n} : delivery'[m] = delivery[m]
        /\ StoreTypeOK'
    <2>1. CASE MarkSent(n, k)
      BY <1>2, <2>1, MarkSentEffect
    <2>2. CASE MarkFailed(n, k)
      BY <1>2, <2>2, MarkFailedEffect
    <2> QED
      BY <1>4, <2>1, <2>2
  <1>6. /\ \A i \in 1 .. LastAttempt(n) : i # k => delivery'[n][i] = delivery[n][i]
        /\ delivery'[n][k].edition = delivery[n][k].edition
        /\ MarkFailed(n, k) => /\ delivery'[n][k].status = "FAILED"
                               /\ delivery'[n][k].msg = delivery[n][k].msg
    BY <1>2, <1>4, ClosedRows
  <1>7. /\ worker'[w].pc = "settle"
        /\ \A v \in Workers \ {w} : worker'[v] = worker[v]
    BY <1>2 DEF Goto
  <1>8. ASSUME NEW v \in Workers, Sending(v)'
        PROVE  /\ v # w /\ worker'[v] = worker[v] /\ Sending(v)
               /\ Target(v)' = Target(v) /\ Target(v) \in Notifications
               /\ Live(Target(v))' => Live(Target(v))
    <2>1. v # w /\ worker'[v] = worker[v] /\ Sending(v)
      BY <1>7, <1>8 DEF Sending
    <2>2. Target(v)' = Target(v) /\ Target(v) \in Notifications
      BY <2>1, TargetStays, TargetExists DEF Sending
    <2> QED
      BY <1>5, <2>1, <2>2 DEF Live
  <1>9. OwnAttempt'
    <2> SUFFICES ASSUME NEW v \in Workers, Sending(v)', Live(Target(v))'
                 PROVE  LET row == delivery'[Target(v)'][worker'[v].attempt]
                        IN  row.status = "PROCESSING" /\ ~row.msg /\ row.edition = worker'[v].edition
      BY DEF OwnAttempt
    <2>1. worker[v].attempt \in 1 .. LastAttempt(Target(v))
      BY <1>8 DEF Sending, Shape, AttemptExists, InRange
    <2>2. Target(v) = n => worker[v].attempt # k
      BY <1>1, <1>2, <1>3, <1>8 DEF HistoryInv, AttemptsApart
    <2>3. delivery'[Target(v)][worker[v].attempt] = delivery[Target(v)][worker[v].attempt]
      BY <1>5, <1>6, <1>8, <2>1, <2>2
    <2> QED
      BY <1>8, <2>3 DEF HistoryInv, OwnAttempt
  <1>10. AttemptsApart'
    BY <1>8 DEF HistoryInv, AttemptsApart
  <1>11. ASSUME NEW c \in calls
         PROVE  /\ notification'[c.notif].state # "absent"
                /\ Live(c.notif)' =>
                        /\ Live(c.notif)
                        /\ c.attempt \in 1 .. LastAttempt(c.notif)'
                        /\ delivery'[c.notif][c.attempt].edition =
                                delivery[c.notif][c.attempt].edition
    <2>1. c.notif \in Notifications /\ notification[c.notif].state # "absent"
      BY <1>11 DEF Shape, TypeOK, Call, HistoryInv, CallsAreNamed
    <2>2. Live(c.notif)' => Live(c.notif)
      BY <1>5, <2>1 DEF Live
    <2>3. Live(c.notif) => c.attempt \in 1 .. LastAttempt(c.notif)
      BY <1>11 DEF HistoryInv, CallsAreNamed
    <2>4. CASE c.notif = n
      BY <1>5, <1>6, <2>1, <2>2, <2>3, <2>4
    <2>5. CASE c.notif # n
      BY <1>5, <2>1, <2>2, <2>3, <2>5 DEF LastAttempt
    <2> QED
      BY <2>4, <2>5
  <1>12. CallsAreNamed'
    BY <1>11 DEF CallsAreNamed
  <1>13. PayloadMatchesSent'
    BY <1>11 DEF HistoryInv, PayloadMatchesSent
  <1>14. AnswerWasGiven'
    BY <1>8 DEF HistoryInv, AnswerWasGiven, Accepted, Sending
  <1>15. SentWasAccepted'
    <2> SUFFICES ASSUME NEW m \in Notifications, NEW i \in DOMAIN delivery'[m],
                        delivery'[m][i].status = "SENT" \/ delivery'[m][i].msg
                 PROVE  Accepted(m, i)
      BY DEF SentWasAccepted, Accepted
    <2>1. CASE m # n
      BY <1>5, <2>1 DEF HistoryInv, SentWasAccepted
    <2>2. CASE m = n
      <3>1. /\ i \in 1 .. LastAttempt(n)
            /\ DOMAIN delivery[n] = 1 .. LastAttempt(n)
        BY <1>2, <1>5, <2>2 DEF StoreTypeOK, LastAttempt
      <3>2. CASE i # k
        BY <1>6, <2>2, <3>1, <3>2 DEF HistoryInv, SentWasAccepted
      <3>3. CASE i = k /\ worker[w].pc = "recordSuccess"
        BY <1>1, <1>3, <2>2, <3>3 DEF HistoryInv, AnswerWasGiven
      <3>4. CASE i = k /\ worker[w].pc = "recordFailure"
        <4>1. ~delivery[n][k].msg
          BY <1>1, <1>2, <1>3 DEF HistoryInv, OwnAttempt
        <4> QED
          BY <1>1, <1>3, <1>6, <2>2, <3>4, <4>1
      <3> QED
        BY <3>2, <3>3, <3>4
    <2> QED
      BY <2>1, <2>2
  <1> QED
    BY <1>9, <1>10, <1>12, <1>13, <1>14, <1>15 DEF HistoryInv

\* The steps of send keep the history.
LEMMA SenderHistory ==
    ASSUME Shape, HistoryInv, [Next]_vars, NEW w \in Workers, WorkerStep(w), ~Settle(w)
    PROVE  HistoryInv'
  <1>1. worker \in [Workers -> WorkerRecord] /\ worker[w] \in WorkerRecord
    BY DEF Shape, TypeOK
  <1>2. /\ \A v \in Workers \ {w} : worker'[v] = worker[v]
        /\ worker'[w].job = worker[w].job
    BY StepOfOne
  <1>3. ASSUME UNCHANGED <<notification, delivery, calls>>,
               \/ worker'[w].pc \in Steps \ {"call", "recordSuccess", "recordFailure"}
               \/ /\ worker[w].pc = "recordSuccess"
                  /\ worker'[w].pc = "recordFailure"
                  /\ worker'[w].attempt = worker[w].attempt
                  /\ worker'[w].edition = worker[w].edition
        PROVE  HistoryInv'
    <2>1. ASSUME NEW v \in Workers, Sending(v)'
          PROVE  /\ Sending(v)
                 /\ worker'[v].job = worker[v].job
                 /\ worker'[v].attempt = worker[v].attempt
                 /\ worker'[v].edition = worker[v].edition
                 /\ worker'[v].pc = "recordSuccess" => worker[v].pc = "recordSuccess"
      BY <1>2, <1>3, <2>1 DEF Sending
    <2> QED
      BY <1>3, <2>1, HistoryFrame DEF Live
  <1>4. ASSUME NEW e \in Errors, Throw(w, e), UNCHANGED <<notification, delivery, calls>>
        PROVE  HistoryInv'
    <2>1. worker'[w].pc = "settle"
      BY <1>1, <1>4 DEF Throw, WorkerRecord
    <2> QED
      BY <1>3, <1>4, <2>1 DEF Steps
  <1>5. ASSUME worker[w].pc = "recordSuccess", UNCHANGED <<notification, delivery, calls>>,
               worker' = [worker EXCEPT ![w].pc = "recordFailure", ![w].error = "transient"]
        PROVE  HistoryInv'
    <2>1. /\ worker'[w].pc = "recordFailure"
          /\ worker'[w].attempt = worker[w].attempt
          /\ worker'[w].edition = worker[w].edition
      BY <1>1, <1>5 DEF WorkerRecord
    <2> QED
      BY <1>3, <1>5, <2>1
  <1>6. "transient" \in Errors
    BY DEF Errors
  <1>7. CASE Load(w) \/ ReadLast(w)
    <2>1. UNCHANGED <<notification, delivery, calls>>
      BY <1>7 DEF Load, ReadLast
    <2>2. worker'[w].pc \in {"readLast", "insert", "settle"}
      BY <1>1, <1>7 DEF Load, ReadLast, Throw, WorkerRecord
    <2> QED
      BY <1>3, <2>1, <2>2 DEF Steps
  <1>8. CASE InsertAttempt(w)
    <2>1. UNCHANGED calls /\ worker[w].pc = "insert"
      BY <1>8 DEF InsertAttempt
    <2>2. CASE Throw(w, "transient") /\ UNCHANGED storeVars
      BY <1>4, <1>6, <2>1, <2>2 DEF storeVars
    <2>3. CASE /\ worker' = [worker EXCEPT ![w].pc = "readLast", ![w].retry = @ + 1]
               /\ UNCHANGED storeVars
      <3>1. worker'[w].pc = "readLast"
        BY <1>1, <2>3 DEF WorkerRecord
      <3> QED
        BY <1>3, <2>1, <2>3, <3>1 DEF storeVars, Steps
    <2>4. CASE /\ Live(Target(w))
               /\ worker[w].last + 1 > LastAttempt(Target(w))
               /\ InsertDelivery(Target(w), worker[w].edition)
               /\ worker' = [worker EXCEPT ![w].pc = "call", ![w].attempt = worker[w].last + 1]
      BY <2>1, <2>4, InsertedHistory
    <2> QED
      BY <1>8, <2>2, <2>3, <2>4 DEF InsertAttempt
  <1>9. CASE ProviderAccepts(w) \/ ProviderRefuses(w) \/ ReplyLost(w)
    <2>1. PICK accepted \in BOOLEAN, error \in Errors :
                CallProvider(w, accepted, error) /\ (error = "none" => accepted)
      BY <1>9 DEF ProviderAccepts, ProviderRefuses, ReplyLost, Errors
    <2> QED
      BY <2>1, CalledHistory
  <1>10. CASE RecordSuccess(w) \/ RecordFailure(w)
    <2>1. UNCHANGED calls
      BY <1>10 DEF RecordSuccess, RecordFailure
    <2>2. CASE Live(Target(w))
      BY <1>10, <2>1, <2>2, ClosedHistory DEF RecordSuccess, RecordFailure
    <2>3. CASE ~Live(Target(w))
      BY <1>4, <1>5, <1>6, <1>10, <2>1, <2>3 DEF RecordSuccess, RecordFailure, storeVars
    <2> QED
      BY <2>2, <2>3
  <1>11. CASE DatabaseFails(w)
    BY <1>4, <1>5, <1>6, <1>11 DEF DatabaseFails
  <1> QED
    BY <1>7, <1>8, <1>9, <1>10, <1>11 DEF WorkerStep

(***************************************************************************)
(* The results.                                                            *)
(***************************************************************************)

\* Nothing has been written and nobody called at first.
LEMMA HistoryInit ==
    ASSUME Init
    PROVE  HistoryInv
  BY DEF Init, StoreInit, HistoryInv, OwnAttempt, AttemptsApart, CallsAreNamed,
         AnswerWasGiven, PayloadMatchesSent, SentWasAccepted, Sending, Idle

\* Every step keeps the history true to the calls.
LEMMA HistoryStep ==
    ASSUME Shape, HistoryInv, [Next]_vars
    PROVE  HistoryInv'
  <1>1. CASE UNCHANGED vars
    BY <1>1, HistoryFrame DEF vars, Sending, Live
  <1>2. ASSUME NEW n \in Notifications, Remove(n)
        PROVE  HistoryInv'
    BY <1>2, RemovedHistory
  <1>3. ASSUME NEW w \in Workers, WorkerStep(w), ~Settle(w)
        PROVE  HistoryInv'
    BY <1>3, SenderHistory
  <1> QED
    BY <1>1, <1>2, <1>3, QuietHistory DEF Next

\* The attempts are a faithful history of the calls in every reachable state,
\* lost locks included.
THEOREM HistoryInvariance == Spec => [](Shape /\ HistoryInv)
  <1>1. Init => Shape /\ HistoryInv
    BY ShapeInit, HistoryInit
  <1>2. Shape /\ HistoryInv /\ [Next]_vars => (Shape /\ HistoryInv)'
    BY ShapeStep, HistoryStep
  <1> QED
    BY <1>1, <1>2, PTL DEF Spec

\* An attempt says SENT, or has a message id, only if the provider accepted it.
THEOREM SentIsBacked == Spec => []SentWasAccepted
  <1>1. Shape /\ HistoryInv => SentWasAccepted
    BY DEF HistoryInv
  <1> QED
    BY <1>1, HistoryInvariance, PTL

\* The payload an attempt records is the one that was sent.
THEOREM PayloadIsBacked == Spec => []PayloadMatchesSent
  <1>1. Shape /\ HistoryInv => PayloadMatchesSent
    BY DEF HistoryInv
  <1> QED
    BY <1>1, HistoryInvariance, PTL

\* Only the rows of open attempts are written, each by the worker that owns it.
LEMMA ClosedAttemptsKept ==
    ASSUME Shape, HistoryInv, [Next]_vars,
           NEW n \in Notifications, NEW k \in DOMAIN delivery[n],
           delivery[n][k].status # "PROCESSING", notification'[n].state = "live"
    PROVE  delivery'[n][k] = delivery[n][k]
  <1>1. StoreTypeOK /\ k \in 1 .. LastAttempt(n)
    BY DEF Shape, TypeOK, StoreTypeOK, LastAttempt
  <1>2. CASE delivery' = delivery
    BY <1>2
  <1>3. ASSUME NEW m \in Notifications, Remove(m)
        PROVE  delivery'[n][k] = delivery[n][k]
    <2>1. n # m
      BY <1>1, <1>3 DEF Remove, DeleteNotification, StoreTypeOK, Absent
    <2> QED
      BY <1>1, <1>3, <2>1 DEF Remove, DeleteNotification, StoreTypeOK
  <1>4. ASSUME NEW w \in Workers, worker[w].pc # "idle",
               InsertDelivery(Target(w), worker[w].edition)
        PROVE  delivery'[n][k] = delivery[n][k]
    <2>1. PICK m \in Notifications, e \in Nat : m = Target(w) /\ e = worker[w].edition
      BY <1>4, TargetExists DEF WorkerRecord
    <2>2. InsertDelivery(m, e)
      BY <1>4, <2>1
    <2> QED
      BY <1>1, <2>2, InsertedRows, InsertDeliveryEffect
  <1>5. ASSUME NEW w \in Workers, Sending(w), Live(Target(w)),
               \/ MarkSent(Target(w), worker[w].attempt)
               \/ MarkFailed(Target(w), worker[w].attempt)
        PROVE  delivery'[n][k] = delivery[n][k]
    <2>1. PICK m \in Notifications : m = Target(w)
      BY <1>5, TargetExists DEF Sending
    <2>2. PICK i \in 1 .. LastAttempt(m) : i = worker[w].attempt
      BY <1>5, <2>1 DEF Sending, Shape, AttemptExists, InRange
    <2>3. delivery[m][i].status = "PROCESSING"
      BY <1>5, <2>1, <2>2 DEF HistoryInv, OwnAttempt
    <2>4. MarkSent(m, i) \/ MarkFailed(m, i)
      BY <1>5, <2>1, <2>2
    <2>5. CASE n = m
      BY <1>1, <2>3, <2>4, <2>5, ClosedRows
    <2>6. CASE n # m
      <3>1. delivery'[n] = delivery[n]
        <4>1. CASE MarkSent(m, i)
          BY ZenonT(40), <1>1, <2>6, <4>1, MarkSentEffect
        <4>2. CASE MarkFailed(m, i)
          BY ZenonT(40), <1>1, <2>6, <4>2, MarkFailedEffect
        <4> QED
          BY <2>4, <4>1, <4>2
      <3> QED
        BY <3>1
    <2> QED
      BY <2>5, <2>6
  <1> QED
    BY ZenonT(40), <1>2, <1>3, <1>4, <1>5
       DEF Next, vars, ClientStep, Create, Send, Post, Update, InsertNotification,
           EditNotification, Enqueue, EnqueueFails, QueueStep, Promote, Stall, LoseLock, Take,
           Crash, WorkerStep, Load, ReadLast, InsertAttempt, ProviderAccepts, ProviderRefuses,
           ReplyLost, CallProvider, RecordSuccess, RecordFailure, DatabaseFails, Settle,
           storeVars, Sending

\* The history of attempts is append-only, for every worker that comes back from
\* the dead as well.
THEOREM ClosedStay == Spec => ClosedAttemptsStay
  <1>1. Shape /\ HistoryInv /\ [Next]_vars =>
            [\A n \in Notifications : \A k \in DOMAIN delivery[n] :
                delivery[n][k].status \in {"SENT", "FAILED"} /\ notification'[n].state = "live"
                    => delivery'[n][k] = delivery[n][k]]_vars
    BY ClosedAttemptsKept
  <1> QED
    BY <1>1, HistoryInvariance, PTL DEF Spec, ClosedAttemptsStay

(***************************************************************************)
(* What an attempt says of a failure, and of an answer.                    *)
(***************************************************************************)

\* An attempt that is about to be sent has not been sent yet.
CallsOnce ==
    \A w \in Workers : worker[w].pc = "call" /\ Live(Target(w)) =>
        \A c \in calls : c.notif = Target(w) => c.attempt # worker[w].attempt

\* A worker that records a failure has not had the message accepted.
FailureWasRefused ==
    \A w \in Workers : worker[w].pc = "recordFailure" /\ Live(Target(w)) =>
        ~Accepted(Target(w), worker[w].attempt)

RefusalInv ==
    /\ CallsOnce
    /\ NoFault({"db", "reply"}) => FailureWasRefused

\* Faults are only added, and a fault that happens is counted.
LEMMA FaultsGrow ==
    ASSUME Shape, [Next]_vars
    PROVE  /\ \A f \in FaultKinds : faults'[f] = 0 => faults[f] = 0
           /\ \A f \in FaultKinds : Fault(f) => faults'[f] # 0
  <1>1. faults \in [FaultKinds -> Nat]
    BY DEF Shape, TypeOK
  <1>2. \A f \in FaultKinds : Fault(f) => /\ faults'[f] # 0
                                          /\ \A g \in FaultKinds : faults'[g] = 0 => faults[g] = 0
    BY <1>1 DEF Fault
  <1>3. faults' = faults \/ \E f \in FaultKinds : Fault(f)
    BY ZenonT(40) DEF Next, vars, ClientStep, Create, Send, Post, Update, Remove, Enqueue, EnqueueFails,
           QueueStep, Promote, Stall, LoseLock, Take, Crash, WorkerStep, Load, ReadLast,
           InsertAttempt, ProviderAccepts, ProviderRefuses, ReplyLost, CallProvider,
           RecordSuccess, RecordFailure, DatabaseFails, Settle, FaultKinds
  <1> QED
    BY <1>2, <1>3

\* No step brings a notification back.
LEMMA NothingComesBack ==
    ASSUME Shape, [Next]_vars, NEW n \in Notifications, notification[n].state # "absent"
    PROVE  Live(n)' => Live(n)
  <1>1. StoreTypeOK
    BY DEF Shape, TypeOK
  <1>2. CASE notification' = notification
    BY <1>2 DEF Live
  <1>3. ASSUME NEW m \in Notifications, Create(m) \/ Update(m) \/ Remove(m)
        PROVE  Live(n)' => Live(n)
    BY <1>1, <1>3 DEF Create, Update, Remove, InsertNotification, EditNotification,
                      DeleteNotification, Live, StoreTypeOK, NotificationRow, Absent
  <1>4. ASSUME NEW w \in Workers, WorkerStep(w), ~Settle(w)
        PROVE  Live(n)' => Live(n)
    BY <1>4, StepOfOne DEF Live
  <1> QED
    BY <1>2, <1>3, <1>4
       DEF Next, vars, ClientStep, Send, Enqueue, EnqueueFails, QueueStep, Promote, Stall,
           LoseLock, Take, Crash, Settle, storeVars

\* Calls are added one at a time.
LEMMA CallsGrow ==
    ASSUME [Next]_vars
    PROVE  \/ calls' = calls
           \/ \E w \in Workers, accepted \in BOOLEAN, error \in Errors :
                /\ CallProvider(w, accepted, error)
                /\ accepted /\ error # "none" => Fault("reply")
  BY DEF Next, vars, ClientStep, Create, Send, Post, Update, Remove, Enqueue, EnqueueFails,
         QueueStep, Promote, Stall, LoseLock, Take, Crash, WorkerStep, Load, ReadLast,
         InsertAttempt, ProviderAccepts, ProviderRefuses, ReplyLost,
         RecordSuccess, RecordFailure, DatabaseFails, Settle, Errors

\* What a call adds.
LEMMA CallEffect ==
    ASSUME Shape, NEW w \in Workers, NEW accepted \in BOOLEAN, NEW error \in Errors,
           CallProvider(w, accepted, error)
    PROVE  /\ worker[w].pc = "call" /\ Sending(w)
           /\ worker' = [worker EXCEPT ![w].pc = AfterCall(error), ![w].error = error]
           /\ worker'[w].pc = AfterCall(error)
           /\ worker'[w].job = worker[w].job
           /\ worker'[w].attempt = worker[w].attempt
           /\ UNCHANGED <<notification, delivery, job>>
           /\ Target(w) \in Notifications
           /\ calls \subseteq calls'
           /\ \A c \in calls' : c \notin calls =>
                /\ c.job = worker[w].job /\ c.notif = Target(w)
                /\ c.attempt = worker[w].attempt
                /\ c.accepted = accepted /\ c.error = error
  <1>1. worker \in [Workers -> WorkerRecord]
    BY DEF Shape, TypeOK
  <1>2. worker[w].pc = "call" /\ UNCHANGED <<notification, delivery, job>>
    BY DEF CallProvider, storeVars, SenderOnly
  <1>3. Target(w) \in Notifications
    BY <1>2, TargetExists
  <1>4. /\ worker' = [worker EXCEPT ![w].pc = AfterCall(error), ![w].error = error]
        /\ worker'[w].pc = AfterCall(error)
        /\ worker'[w].job = worker[w].job
        /\ worker'[w].attempt = worker[w].attempt
    BY <1>1 DEF CallProvider, WorkerRecord
  <1> QED
    BY <1>2, <1>3, <1>4 DEF CallProvider, Sending

\* A new call is made by a worker with an attempt of its own.
LEMMA NewCall ==
    ASSUME Shape, [Next]_vars, NEW c \in calls', c \notin calls
    PROVE  \E v \in Workers :
                /\ Sending(v) /\ worker[v].pc = "call" /\ worker'[v].pc = AfterCall(c.error)
                /\ worker'[v].job = worker[v].job /\ worker'[v].attempt = worker[v].attempt
                /\ c.job = worker[v].job /\ c.notif = Target(v)
                /\ c.attempt = worker[v].attempt
                /\ UNCHANGED <<notification, delivery, job>>
  <1>1. PICK v \in Workers, accepted \in BOOLEAN, error \in Errors :
                CallProvider(v, accepted, error)
    BY CallsGrow
  <1>2. /\ Sending(v) /\ worker[v].pc = "call" /\ worker'[v].pc = AfterCall(error)
        /\ worker'[v].job = worker[v].job /\ worker'[v].attempt = worker[v].attempt
        /\ UNCHANGED <<notification, delivery, job>>
    <2>1. worker[v].pc = "call" /\ Sending(v)
      BY <1>1, CallEffect
    <2>2. worker'[v].pc = AfterCall(error)
      BY <1>1 DEF CallProvider, Shape, TypeOK, WorkerRecord
    <2>3. worker'[v].job = worker[v].job /\ worker'[v].attempt = worker[v].attempt
      BY <1>1, CallEffect
    <2>4. UNCHANGED <<notification, delivery, job>>
      BY <1>1, CallEffect
    <2> QED
      BY <2>1, <2>2, <2>3, <2>4
  <1>3. /\ c.job = worker[v].job /\ c.notif = Target(v)
        /\ c.attempt = worker[v].attempt /\ c.error = error
    BY <1>1 DEF CallProvider
  <1> QED
    BY <1>2, <1>3

\* How a worker comes to where it calls.
LEMMA ReadyToCall ==
    ASSUME Shape, [Next]_vars, NEW w \in Workers, worker'[w].pc = "call"
    PROVE  \/ worker'[w] = worker[w]
           \/ /\ calls' = calls
              /\ worker[w].pc = "insert" /\ Live(Target(w))
              /\ worker'[w].job = worker[w].job
              /\ worker'[w].attempt > LastAttempt(Target(w))
  <1>1. worker \in [Workers -> WorkerRecord] /\ worker[w] \in WorkerRecord
    BY DEF Shape, TypeOK
  <1>2. CASE worker' = worker
    BY <1>2
  <1>3. ASSUME NEW j \in Jobs, NEW v \in Workers, Take(v, j)
        PROVE  worker'[w] = worker[w]
    <2>1. [Idle EXCEPT !.pc = "load", !.job = j].pc = "load"
      BY DEF Idle
    <2> QED
      BY <1>1, <1>3, <2>1 DEF Take
  <1>4. ASSUME NEW v \in Workers, Crash(v) \/ Settle(v)
        PROVE  worker'[w] = worker[w]
    <2>1. Idle.pc = "idle"
      BY DEF Idle
    <2> QED
      BY <1>1, <1>4, <2>1 DEF Crash, Settle
  <1>5. ASSUME NEW v \in Workers, WorkerStep(v), ~Settle(v), v # w
        PROVE  worker'[w] = worker[w]
    BY <1>5, StepOfOne
  <1>6. ASSUME WorkerStep(w), ~Settle(w)
        PROVE  /\ calls' = calls
               /\ worker[w].pc = "insert" /\ Live(Target(w))
               /\ worker'[w].job = worker[w].job
               /\ worker'[w].attempt > LastAttempt(Target(w))
    <2>1. CASE InsertAttempt(w)
      BY <1>1, <2>1 DEF InsertAttempt, Throw, WorkerRecord
    <2>2. CASE Load(w) \/ ReadLast(w) \/ RecordSuccess(w) \/ RecordFailure(w) \/ DatabaseFails(w)
      BY <1>1, <2>2 DEF Load, ReadLast, RecordSuccess, RecordFailure, DatabaseFails, Throw, Goto,
                        WorkerRecord
    <2>3. CASE ProviderAccepts(w) \/ ProviderRefuses(w) \/ ReplyLost(w)
      <3>1. PICK accepted \in BOOLEAN, error \in Errors : CallProvider(w, accepted, error)
        BY <2>3 DEF ProviderAccepts, ProviderRefuses, ReplyLost, Errors
      <3> QED
        BY ZenonT(40), <3>1, CallEffect DEF AfterCall
    <2> QED
      BY <1>6, <2>1, <2>2, <2>3 DEF WorkerStep
  <1> QED
    BY <1>2, <1>3, <1>4, <1>5, <1>6
       DEF Next, vars, ClientStep, Create, Send, Post, Update, Remove, Enqueue, EnqueueFails,
           QueueStep, Promote, Stall, LoseLock

\* How a worker comes to where it records a failure.
LEMMA ReadyToFail ==
    ASSUME Shape, [Next]_vars, NEW w \in Workers, worker'[w].pc = "recordFailure"
    PROVE  \/ worker'[w] = worker[w]
           \/ \E error \in Errors : CallProvider(w, FALSE, error)
           \/ ~NoFault({"db", "reply"})'
           \/ Target(w)' = Target(w) /\ Target(w) \in Notifications /\ ~Live(Target(w))'
  <1>1. worker \in [Workers -> WorkerRecord] /\ worker[w] \in WorkerRecord
    BY DEF Shape, TypeOK
  <1>2. CASE worker' = worker
    BY <1>2
  <1>3. ASSUME NEW j \in Jobs, NEW v \in Workers, Take(v, j)
        PROVE  worker'[w] = worker[w]
    <2>1. [Idle EXCEPT !.pc = "load", !.job = j].pc = "load"
      BY DEF Idle
    <2> QED
      BY <1>1, <1>3, <2>1 DEF Take
  <1>4. ASSUME NEW v \in Workers, Crash(v) \/ Settle(v)
        PROVE  worker'[w] = worker[w]
    <2>1. Idle.pc = "idle"
      BY DEF Idle
    <2> QED
      BY <1>1, <1>4, <2>1 DEF Crash, Settle
  <1>5. ASSUME NEW v \in Workers, WorkerStep(v), ~Settle(v), v # w
        PROVE  worker'[w] = worker[w]
    BY <1>5, StepOfOne
  <1>6. ASSUME WorkerStep(w), ~Settle(w)
        PROVE  \/ \E error \in Errors : CallProvider(w, FALSE, error)
               \/ ~NoFault({"db", "reply"})'
               \/ Target(w)' = Target(w) /\ Target(w) \in Notifications /\ ~Live(Target(w))'
    <2>1. CASE Load(w) \/ ReadLast(w) \/ InsertAttempt(w) \/ RecordFailure(w)
      BY <1>1, <2>1 DEF Load, ReadLast, InsertAttempt, RecordFailure, Throw, Goto, WorkerRecord
    <2>2. CASE DatabaseFails(w) \/ ReplyLost(w)
      <3>1. Fault("db") \/ Fault("reply")
        BY <2>2 DEF DatabaseFails, ReplyLost
      <3> QED
        BY <3>1, FaultsGrow DEF NoFault, FaultKinds
    <2>3. CASE ProviderAccepts(w)
      BY <2>3, CallEffect DEF ProviderAccepts, AfterCall, Errors
    <2>4. CASE ProviderRefuses(w)
      BY <2>4 DEF ProviderRefuses, Errors
    <2>5. CASE RecordSuccess(w)
      <3>1. ~Live(Target(w)) /\ notification' = notification
        BY <1>1, <2>5 DEF RecordSuccess, Goto, WorkerRecord, storeVars
      <3>2. job' = job /\ worker'[w].job = worker[w].job /\ worker[w].pc # "idle"
        BY <1>6, StepOfOne
      <3> QED
        BY <3>1, <3>2, TargetExists DEF Target, Live
    <2> QED
      BY <1>6, <2>1, <2>2, <2>3, <2>4, <2>5 DEF WorkerStep
  <1> QED
    BY <1>2, <1>3, <1>4, <1>5, <1>6
       DEF Next, vars, ClientStep, Create, Send, Post, Update, Remove, Enqueue, EnqueueFails,
           QueueStep, Promote, Stall, LoseLock

\* Only a worker that records a failure makes its attempt FAILED.
LEMMA OnlyFailuresFail ==
    ASSUME Shape, HistoryInv, [Next]_vars,
           NEW n \in Notifications, NEW k \in 1 .. LastAttempt(n), Live(n)',
           delivery'[n][k].status = "FAILED"
    PROVE  \/ delivery[n][k].status = "FAILED"
           \/ \E w \in Workers : /\ worker[w].pc = "recordFailure"
                                 /\ Target(w) = n /\ Live(n) /\ worker[w].attempt = k
  <1>1. StoreTypeOK
    BY DEF Shape, TypeOK
  <1>2. CASE delivery' = delivery
    BY <1>2
  <1>3. ASSUME NEW m \in Notifications, Remove(m)
        PROVE  delivery'[n][k] = delivery[n][k]
    <2>1. n # m
      BY <1>1, <1>3 DEF Remove, DeleteNotification, StoreTypeOK, Absent, Live
    <2> QED
      BY <1>1, <1>3, <2>1 DEF Remove, DeleteNotification, StoreTypeOK
  <1>4. ASSUME NEW w \in Workers, worker[w].pc # "idle",
               InsertDelivery(Target(w), worker[w].edition)
        PROVE  delivery'[n][k] = delivery[n][k]
    <2>1. PICK m \in Notifications, e \in Nat : m = Target(w) /\ e = worker[w].edition
      BY <1>4, TargetExists DEF WorkerRecord
    <2>2. InsertDelivery(m, e)
      BY <1>4, <2>1
    <2> QED
      BY <1>1, <2>2, InsertedRows, InsertDeliveryEffect
  <1>5. ASSUME NEW w \in Workers, Sending(w), Live(Target(w)),
               \/ MarkSent(Target(w), worker[w].attempt)
               \/ MarkFailed(Target(w), worker[w].attempt) /\ worker[w].pc = "recordFailure"
        PROVE  \/ delivery[n][k].status = "FAILED"
               \/ worker[w].pc = "recordFailure" /\ Target(w) = n /\ worker[w].attempt = k
    <2>1. PICK m \in Notifications : m = Target(w)
      BY <1>5, TargetExists DEF Sending
    <2>2. PICK i \in 1 .. LastAttempt(m) : i = worker[w].attempt
      BY <1>5, <2>1 DEF Sending, Shape, AttemptExists, InRange
    <2>3. \/ MarkSent(m, i)
          \/ MarkFailed(m, i) /\ worker[w].pc = "recordFailure"
      BY <1>5, <2>1, <2>2
    <2>4. CASE n = m
      BY <1>1, <2>1, <2>2, <2>3, <2>4, ClosedRows
    <2>5. CASE n # m
      <3>1. delivery'[n] = delivery[n]
        <4>1. CASE MarkSent(m, i)
          BY <1>1, <2>5, <4>1, MarkSentEffect
        <4>2. CASE MarkFailed(m, i)
          BY <1>1, <2>5, <4>2, MarkFailedEffect
        <4> QED
          BY <2>3, <4>1, <4>2
      <3> QED
        BY <3>1
    <2> QED
      BY <2>4, <2>5
  <1> QED
    BY ZenonT(40), <1>2, <1>3, <1>4, <1>5
       DEF Next, vars, ClientStep, Create, Send, Post, Update, InsertNotification,
           EditNotification, Enqueue, EnqueueFails, QueueStep, Promote, Stall, LoseLock, Take,
           Crash, WorkerStep, Load, ReadLast, InsertAttempt, ProviderAccepts, ProviderRefuses,
           ReplyLost, CallProvider, RecordSuccess, RecordFailure, DatabaseFails, Settle,
           storeVars, Sending, Live

\* createDeliveryAttempt gives a number nobody has called with.
LEMMA CallsOnceStep ==
    ASSUME Shape, HistoryInv, RefusalInv, [Next]_vars
    PROVE  CallsOnce'
  <1> SUFFICES ASSUME NEW w \in Workers, worker'[w].pc = "call", Live(Target(w))',
                      NEW c \in calls', c.notif = Target(w)'
               PROVE  c.attempt # worker'[w].attempt
    BY DEF CallsOnce
  <1>1. \/ worker'[w] = worker[w]
        \/ /\ calls' = calls
           /\ worker[w].pc = "insert"
           /\ worker'[w].job = worker[w].job
           /\ worker'[w].attempt > LastAttempt(Target(w))
    BY ReadyToCall
  <1>2. /\ Target(w)' = Target(w)
        /\ Target(w) \in Notifications
        /\ Live(Target(w))
    <2>1. worker[w].pc # "idle" /\ worker'[w].job = worker[w].job
      BY <1>1
    <2>2. Target(w)' = Target(w)
      BY <2>1, TargetStays
    <2> QED
      BY <2>1, <2>2, TargetExists, NothingComesBack DEF Live
  <1>3. CASE c \in calls /\ worker'[w] = worker[w]
    BY <1>2, <1>3 DEF RefusalInv, CallsOnce
  <1>4. CASE c \in calls /\ worker'[w] # worker[w]
    <2>1. c.attempt \in 1 .. LastAttempt(Target(w))
      BY <1>2, <1>4 DEF HistoryInv, CallsAreNamed
    <2>2. LastAttempt(Target(w)) \in Nat
      BY <1>2 DEF Shape, TypeOK, StoreTypeOK, LastAttempt
    <2> QED
      BY <1>1, <1>4, <2>1, <2>2
  <1>5. CASE c \notin calls
    <2>1. PICK v \in Workers : /\ Sending(v) /\ worker'[v].pc = AfterCall(c.error)
                               /\ c.notif = Target(v) /\ c.attempt = worker[v].attempt
      BY <1>5, NewCall
    <2>2. v # w /\ worker'[w] = worker[w] /\ Sending(w)
      BY <1>1, <1>5, <2>1 DEF Sending, AfterCall
    <2> QED
      BY <1>2, <2>1, <2>2 DEF HistoryInv, AttemptsApart
  <1> QED
    BY <1>3, <1>4, <1>5

\* A failure is recorded of a call that was refused.
LEMMA FailureStep ==
    ASSUME Shape, HistoryInv, RefusalInv, [Next]_vars, NoFault({"db", "reply"})'
    PROVE  FailureWasRefused'
  <1> SUFFICES ASSUME NEW w \in Workers, worker'[w].pc = "recordFailure", Live(Target(w))',
                      NEW c \in calls', c.notif = Target(w)', c.attempt = worker'[w].attempt,
                      c.accepted
               PROVE  FALSE
    BY DEF FailureWasRefused, Accepted
  <1>1. NoFault({"db", "reply"})
    BY FaultsGrow DEF NoFault, FaultKinds
  <1>2. \/ worker'[w] = worker[w]
        \/ \E error \in Errors : CallProvider(w, FALSE, error)
    BY ReadyToFail
  <1>3. /\ worker[w].pc \in {"call", "recordFailure"}
        /\ worker'[w].job = worker[w].job
        /\ worker'[w].attempt = worker[w].attempt
    BY <1>2, CallEffect
  <1>4. /\ Target(w)' = Target(w)
        /\ Target(w) \in Notifications
        /\ Live(Target(w))
    <2>1. Target(w)' = Target(w)
      BY <1>3, TargetStays
    <2> QED
      BY <1>3, <2>1, TargetExists, NothingComesBack DEF Live
  <1>5. CASE \E error \in Errors : CallProvider(w, FALSE, error)
    <2>1. c \in calls /\ worker[w].pc = "call"
      BY <1>5, CallEffect
    <2> QED
      BY <1>3, <1>4, <2>1 DEF RefusalInv, CallsOnce
  <1>6. CASE worker'[w] = worker[w] /\ c \in calls
    BY <1>1, <1>4, <1>6 DEF RefusalInv, FailureWasRefused, Accepted
  <1>7. CASE worker'[w] = worker[w] /\ c \notin calls
    <2>1. PICK v \in Workers : /\ Sending(v) /\ worker[v].pc = "call"
                               /\ worker'[v].pc = AfterCall(c.error)
                               /\ c.notif = Target(v) /\ c.attempt = worker[v].attempt
      BY <1>7, NewCall
    <2>2. v # w /\ Sending(w)
      BY <1>7, <2>1 DEF Sending, AfterCall
    <2> QED
      BY <1>3, <1>4, <2>1, <2>2 DEF HistoryInv, AttemptsApart
  <1> QED
    BY <1>2, <1>5, <1>6, <1>7

\* So an accepted attempt does not become FAILED.
LEMMA FailedStep ==
    ASSUME Shape, HistoryInv, RefusalInv, FailedWasRefused, [Next]_vars
    PROVE  FailedWasRefused'
  <1> SUFFICES ASSUME NEW c \in calls', Live(c.notif)', c.accepted, NoFault({"db", "reply"})',
                      delivery'[c.notif][c.attempt].status = "FAILED"
               PROVE  FALSE
    BY DEF FailedWasRefused
  <1>1. NoFault({"db", "reply"})
    BY FaultsGrow DEF NoFault, FaultKinds
  <1>2. CASE c \in calls
    <2>1. c.notif \in Notifications /\ notification[c.notif].state # "absent"
      BY <1>2 DEF Shape, TypeOK, Call, HistoryInv, CallsAreNamed
    <2>2. Live(c.notif)
      BY <2>1, NothingComesBack
    <2>3. c.attempt \in 1 .. LastAttempt(c.notif)
      BY <1>2, <2>2 DEF HistoryInv, CallsAreNamed
    <2>4. delivery[c.notif][c.attempt].status # "FAILED"
      BY <1>1, <1>2, <2>2 DEF FailedWasRefused
    <2>5. PICK w \in Workers : /\ worker[w].pc = "recordFailure"
                               /\ Target(w) = c.notif /\ worker[w].attempt = c.attempt
      BY <2>1, <2>3, <2>4, OnlyFailuresFail
    <2> QED
      BY <1>1, <1>2, <2>2, <2>5 DEF RefusalInv, FailureWasRefused, Accepted
  <1>3. CASE c \notin calls
    <2>1. PICK v \in Workers : /\ Sending(v) /\ UNCHANGED <<notification, delivery>>
                               /\ c.notif = Target(v) /\ c.attempt = worker[v].attempt
      BY <1>3, NewCall
    <2> QED
      BY <2>1 DEF HistoryInv, OwnAttempt, Live
  <1> QED
    BY <1>2, <1>3

\* An attempt whose message went out says FAILED only if the reply or a database
\* call was lost, whatever crashes and however many workers run one job.
THEOREM FailuresAreRefusals == Spec => []FailedWasRefused
  <1>1. Init => RefusalInv /\ FailedWasRefused
    BY DEF Init, RefusalInv, CallsOnce, FailureWasRefused, FailedWasRefused, Idle
  <1>2. /\ Shape /\ HistoryInv /\ RefusalInv /\ FailedWasRefused /\ [Next]_vars
        => (RefusalInv /\ FailedWasRefused)'
    BY CallsOnceStep, FailureStep, FailedStep DEF RefusalInv
  <1> QED
    BY <1>1, <1>2, HistoryInvariance, PTL DEF Spec

\* An answer that has come back is on record, or still with the worker that got it.
AnswerIsKept ==
    \A c \in calls : c.error = "none" /\ Live(c.notif) =>
        \/ delivery[c.notif][c.attempt].status = "SENT"
        \/ \E w \in Workers :
                /\ worker[w].pc = "recordSuccess"
                /\ worker[w].job = c.job
                /\ Target(w) = c.notif
                /\ worker[w].attempt = c.attempt

\* A worker that has an answer keeps it until it has recorded it.
LEMMA AnswerRecorded ==
    ASSUME Shape, HistoryInv, [Next]_vars, ~Fault("db"), ~Fault("crash"),
           NEW w \in Workers, worker[w].pc = "recordSuccess", Live(Target(w))
    PROVE  \/ worker'[w] = worker[w]
           \/ /\ delivery'[Target(w)][worker[w].attempt].status = "SENT"
              /\ delivery'[Target(w)][worker[w].attempt].msg
  <1>1. worker \in [Workers -> WorkerRecord] /\ StoreTypeOK
    BY DEF Shape, TypeOK
  <1>2. CASE worker' = worker
    BY <1>2
  <1>3. ASSUME NEW j \in Jobs, NEW v \in Workers, Take(v, j)
        PROVE  worker'[w] = worker[w]
    BY <1>1, <1>3 DEF Take
  <1>4. ASSUME NEW v \in Workers, Settle(v)
        PROVE  worker'[w] = worker[w]
    BY <1>1, <1>4 DEF Settle
  <1>5. ASSUME NEW v \in Workers, WorkerStep(v), ~Settle(v), v # w
        PROVE  worker'[w] = worker[w]
    BY <1>5, StepOfOne
  <1>6. ASSUME WorkerStep(w)
        PROVE  /\ delivery'[Target(w)][worker[w].attempt].status = "SENT"
               /\ delivery'[Target(w)][worker[w].attempt].msg
    <2>1. MarkSent(Target(w), worker[w].attempt)
      BY <1>6 DEF WorkerStep, Load, ReadLast, InsertAttempt, ProviderAccepts, ProviderRefuses,
                  ReplyLost, CallProvider, RecordSuccess, RecordFailure, DatabaseFails, Settle
    <2>2. PICK n \in Notifications : n = Target(w)
      BY TargetExists
    <2>3. PICK k \in 1 .. LastAttempt(n) : k = worker[w].attempt
      BY <2>2 DEF Shape, AttemptExists, InRange
    <2> QED
      BY <1>1, <2>1, <2>2, <2>3, ClosedRows
  <1> QED
    BY <1>2, <1>3, <1>4, <1>5, <1>6
       DEF Next, vars, ClientStep, Create, Send, Post, Update, Remove, Enqueue, EnqueueFails,
           QueueStep, Promote, Stall, LoseLock, Crash

LEMMA AnswerStep ==
    ASSUME Shape, HistoryInv, AnswerIsKept, [Next]_vars, ~Fault("db"), ~Fault("crash")
    PROVE  AnswerIsKept'
  <1> SUFFICES ASSUME NEW c \in calls', c.error = "none", Live(c.notif)',
                      delivery'[c.notif][c.attempt].status # "SENT"
               PROVE  \E w \in Workers :
                        /\ worker'[w].pc = "recordSuccess"
                        /\ worker'[w].job = c.job
                        /\ Target(w)' = c.notif
                        /\ worker'[w].attempt = c.attempt
    BY DEF AnswerIsKept
  <1>1. CASE c \in calls
    <2>1. c.notif \in Notifications /\ notification[c.notif].state # "absent"
      BY <1>1 DEF Shape, TypeOK, Call, HistoryInv, CallsAreNamed
    <2>2. Live(c.notif)
      BY <2>1, NothingComesBack
    <2>3. c.attempt \in DOMAIN delivery[c.notif]
      BY <1>1, <2>1, <2>2
         DEF HistoryInv, CallsAreNamed, LastAttempt, Shape, TypeOK, StoreTypeOK
    <2>4. delivery[c.notif][c.attempt].status # "SENT"
      BY <2>1, <2>3, ClosedAttemptsKept DEF Live
    <2>5. PICK w \in Workers : /\ worker[w].pc = "recordSuccess"
                               /\ worker[w].job = c.job
                               /\ Target(w) = c.notif
                               /\ worker[w].attempt = c.attempt
      BY <1>1, <2>2, <2>4 DEF AnswerIsKept
    <2>6. worker'[w] = worker[w]
      BY <2>2, <2>5, AnswerRecorded
    <2>7. Target(w)' = Target(w)
      BY <2>5, <2>6, TargetStays
    <2> QED
      BY <2>5, <2>6, <2>7
  <1>2. CASE c \notin calls
    <2>1. PICK v \in Workers : /\ worker'[v].pc = AfterCall(c.error)
                               /\ worker[v].pc = "call"
                               /\ worker'[v].job = worker[v].job
                               /\ worker'[v].attempt = worker[v].attempt
                               /\ c.job = worker[v].job /\ c.notif = Target(v)
                               /\ c.attempt = worker[v].attempt
      BY <1>2, NewCall
    <2>2. Target(v)' = Target(v)
      BY <2>1, TargetStays
    <2> QED
      BY <2>1, <2>2 DEF AfterCall
  <1> QED
    BY <1>1, <1>2

\* As long as no process dies and the database answers, what the provider has
\* accepted, and said so, is SENT once it has been handled, lost locks included.
THEOREM AnswersAreRecorded == Spec => []AcceptedIsSent
  <1> DEFINE Kept == NoFault({"crash", "db"}) => AnswerIsKept
  <1>1. Init => Kept
    BY DEF Init, AnswerIsKept
  <1>2. Shape /\ HistoryInv /\ Kept /\ [Next]_vars => Kept'
    <2> SUFFICES ASSUME Shape, HistoryInv, Kept, [Next]_vars, NoFault({"crash", "db"})'
                 PROVE  AnswerIsKept'
      OBVIOUS
    <2>1. NoFault({"crash", "db"}) /\ ~Fault("db") /\ ~Fault("crash")
      BY FaultsGrow DEF NoFault, FaultKinds
    <2> QED
      BY <2>1, AnswerStep
  <1>3. Kept => AcceptedIsSent
    BY DEF AnswerIsKept, AcceptedIsSent
  <1> HIDE DEF Kept
  <1> QED
    BY <1>1, <1>2, <1>3, HistoryInvariance, PTL DEF Spec

(***************************************************************************)
(* What follows a permanent error, while every worker holds its lock.      *)
(***************************************************************************)

\* A call is made for a job, about its notification.
CallsHaveJobs ==
    \A c \in calls : job[c.job].state # "unused" /\ job[c.job].notif = c.notif

\* The attempt a worker is busy with is the latest its job has called with.
CallsInOrder ==
    \A w \in Workers : Sending(w) =>
        \A d \in calls : d.job = worker[w].job => d.attempt <= worker[w].attempt

\* The worker does not call again: it reports a permanent error, or has found that
\* the notification is gone.
Stopping(w) ==
    \/ worker[w].pc \in {"recordFailure", "settle"} /\ worker[w].error = "permanent"
    \/ worker[w].pc \in {"load", "settle"} /\ ~Live(Target(w))

\* The job of call c is over, or its worker is about to end it.
GivenUp(c) ==
    /\ \A d \in calls : d.job = c.job => d.attempt <= c.attempt
    /\ \A w \in Workers : worker[w].pc # "idle" /\ worker[w].job = c.job => Stopping(w)
    /\ Pending(c.job) /\ Live(c.notif) =>
            \E w \in Workers : worker[w].pc # "idle" /\ worker[w].job = c.job

StopInv ==
    /\ CallsHaveJobs
    /\ NoFault({"lock"}) => CallsInOrder
    /\ NoFault({"crash", "lock", "db"}) =>
            \A c \in calls : c.error = "permanent" => GivenUp(c)

\* A job that has ended stays ended.
LEMMA EndedStays ==
    ASSUME Shape, [Next]_vars, NEW j \in Jobs, job[j].state # "unused"
    PROVE  Pending(j)' => Pending(j)
  <1>1. CASE UNCHANGED vars
    BY <1>1 DEF vars, Pending
  <1>2. ASSUME NEW n \in Notifications, Enqueue(n)
        PROVE  job'[j] = job[j]
    BY <1>2 DEF Enqueue, AddJob, Shape, TypeOK
  <1> QED
    BY <1>1, <1>2, NoNewJob DEF Pending

\* Two busy workers have two jobs.
LEMMA JobsApart ==
    ASSUME BusyHolds, NEW v \in Workers, NEW w \in Workers,
           worker[v].pc # "idle", worker[w].pc # "idle", worker[v].job = worker[w].job
    PROVE  v = w
  BY DEF BusyHolds, Holds

LEMMA CallsHaveJobsStep ==
    ASSUME Shape, CallsHaveJobs, [Next]_vars
    PROVE  CallsHaveJobs'
  <1> SUFFICES ASSUME NEW c \in calls'
               PROVE  job'[c.job].state # "unused" /\ job'[c.job].notif = c.notif
    BY DEF CallsHaveJobs
  <1>1. CASE c \in calls
    BY <1>1, JobsKeepNames DEF CallsHaveJobs, Shape, TypeOK, Call
  <1>2. CASE c \notin calls
    <2>1. PICK v \in Workers : /\ worker[v].pc = "call"
                               /\ c.job = worker[v].job /\ c.notif = Target(v)
                               /\ job' = job
      BY <1>2, NewCall
    <2> QED
      BY <2>1 DEF Target, Shape, BusyHasJob
  <1> QED
    BY <1>1, <1>2

\* Where a worker that is busy with an attempt was before.
LEMMA SendingComes ==
    ASSUME Shape, [Next]_vars, NEW w \in Workers, Sending(w)'
    PROVE  \/ /\ Sending(w)
              /\ worker'[w].job = worker[w].job
              /\ worker'[w].attempt = worker[w].attempt
           \/ /\ calls' = calls
              /\ worker[w].pc = "insert" /\ Live(Target(w))
              /\ worker'[w].job = worker[w].job
              /\ worker'[w].attempt > LastAttempt(Target(w))
  <1>1. worker \in [Workers -> WorkerRecord] /\ worker[w] \in WorkerRecord
    BY DEF Shape, TypeOK
  <1>2. CASE worker'[w] = worker[w]
    BY <1>2 DEF Sending
  <1>3. CASE worker'[w].pc = "call"
    BY <1>2, <1>3, ReadyToCall
  <1>4. ASSUME worker'[w].pc \in {"recordSuccess", "recordFailure"}, WorkerStep(w), ~Settle(w)
        PROVE  /\ Sending(w)
               /\ worker'[w].job = worker[w].job
               /\ worker'[w].attempt = worker[w].attempt
    <2>1. CASE Load(w) \/ ReadLast(w) \/ InsertAttempt(w) \/ RecordFailure(w)
      BY <1>1, <1>4, <2>1 DEF Load, ReadLast, InsertAttempt, RecordFailure, Throw, Goto,
                              WorkerRecord
    <2>2. CASE RecordSuccess(w) \/ DatabaseFails(w)
      BY <1>1, <1>4, <2>2 DEF RecordSuccess, DatabaseFails, Throw, Goto, WorkerRecord, Sending
    <2>3. CASE ProviderAccepts(w) \/ ProviderRefuses(w) \/ ReplyLost(w)
      <3>1. PICK accepted \in BOOLEAN, error \in Errors : CallProvider(w, accepted, error)
        BY <2>3 DEF ProviderAccepts, ProviderRefuses, ReplyLost, Errors
      <3> QED
        BY <3>1, CallEffect
    <2> QED
      BY <1>4, <2>1, <2>2, <2>3 DEF WorkerStep
  <1>5. ASSUME NEW j \in Jobs, NEW v \in Workers, Take(v, j)
        PROVE  worker'[w] = worker[w]
    <2>1. [Idle EXCEPT !.pc = "load", !.job = j].pc = "load"
      BY DEF Idle
    <2> QED
      BY <1>1, <1>5, <2>1 DEF Take, Sending
  <1>6. ASSUME NEW v \in Workers, Crash(v) \/ Settle(v)
        PROVE  worker'[w] = worker[w]
    <2>1. Idle.pc = "idle"
      BY DEF Idle
    <2> QED
      BY <1>1, <1>6, <2>1 DEF Crash, Settle, Sending
  <1>7. ASSUME NEW v \in Workers, WorkerStep(v), ~Settle(v), v # w
        PROVE  worker'[w] = worker[w]
    BY <1>7, StepOfOne
  <1> QED
    BY <1>2, <1>3, <1>4, <1>5, <1>6, <1>7
       DEF Next, vars, ClientStep, Create, Send, Post, Update, Remove, Enqueue, EnqueueFails,
           QueueStep, Promote, Stall, LoseLock, Sending

LEMMA CallsInOrderStep ==
    ASSUME Shape, HistoryInv, CallsHaveJobs, CallsInOrder, BusyHolds, [Next]_vars
    PROVE  CallsInOrder'
  <1> SUFFICES ASSUME NEW w \in Workers, Sending(w)', NEW d \in calls', d.job = worker'[w].job
               PROVE  d.attempt <= worker'[w].attempt
    BY DEF CallsInOrder
  <1>1. worker[w].pc # "idle" /\ worker'[w].job = worker[w].job
    BY SendingComes DEF Sending
  <1>2. worker[w].attempt \in Nat /\ LastAttempt(Target(w)) \in Nat
    BY <1>1, TargetExists DEF WorkerRecord
  <1>3. CASE Sending(w) /\ worker'[w].attempt = worker[w].attempt
    <2>1. CASE d \in calls
      BY <1>1, <1>3, <2>1 DEF CallsInOrder
    <2>2. CASE d \notin calls
      <3>1. PICK v \in Workers : /\ worker[v].pc = "call"
                                 /\ d.job = worker[v].job /\ d.attempt = worker[v].attempt
        BY <2>2, NewCall
      <3>2. v = w
        BY <1>1, <3>1, JobsApart
      <3> QED
        BY <1>2, <1>3, <3>1, <3>2
    <2> QED
      BY <2>1, <2>2
  <1>4. CASE /\ calls' = calls /\ Live(Target(w))
             /\ worker'[w].attempt > LastAttempt(Target(w))
    <2>1. d.notif = Target(w)
      BY <1>1, <1>4 DEF CallsHaveJobs, Target
    <2>2. d.attempt \in 1 .. LastAttempt(Target(w))
      BY <1>4, <2>1 DEF HistoryInv, CallsAreNamed
    <2>3. worker'[w].attempt \in Nat
      BY ShapeStep DEF Shape, TypeOK, WorkerRecord
    <2> QED
      BY <1>2, <1>4, <2>2, <2>3
  <1> QED
    BY <1>3, <1>4, SendingComes

\* A worker whose job is given up goes on to end it, and takes it up again only to
\* find that the notification is gone.
LEMMA StoppingStep ==
    ASSUME Shape, BusyHolds, [Next]_vars, ~Fault("crash"), ~Fault("db"),
           NEW w \in Workers, worker'[w].pc # "idle", NEW j \in Jobs, worker'[w].job = j,
           \A v \in Workers : worker[v].pc # "idle" /\ worker[v].job = j => Stopping(v),
           Pending(j) /\ Live(job[j].notif) =>
                \E v \in Workers : worker[v].pc # "idle" /\ worker[v].job = j
    PROVE  Stopping(w)'
  <1>1. worker \in [Workers -> WorkerRecord] /\ worker[w] \in WorkerRecord
    BY DEF Shape, TypeOK
  <1>2. CASE worker'[w] = worker[w]
    <2>1. Stopping(w) /\ Target(w)' = Target(w)
      BY <1>2, TargetStays
    <2>2. Live(Target(w))' => Live(Target(w))
      BY <1>2, <2>1, TargetExists, NothingComesBack DEF Live
    <2> QED
      BY <1>2, <2>1, <2>2 DEF Stopping
  <1>3. ASSUME NEW i \in Jobs, Take(w, i)
        PROVE  Stopping(w)'
    <2>1. /\ worker'[w] = [Idle EXCEPT !.pc = "load", !.job = i]
          /\ job[i].state = "waiting" /\ job'[i].notif = job[i].notif
          /\ notification' = notification
      BY <1>1, <1>3 DEF Take, Shape, TypeOK, JobRecord
    <2>2. worker'[w].pc = "load" /\ i = j
      BY <2>1 DEF Idle
    <2>3. ~Live(job[j].notif)
      BY <2>1, <2>2 DEF Pending, BusyHolds, Holds
    <2> QED
      BY <2>1, <2>2, <2>3 DEF Stopping, Target, Live
  <1>4. ASSUME NEW v \in Workers, Crash(v) \/ Settle(v)
        PROVE  worker'[w] = worker[w]
    BY <1>1, <1>4 DEF Crash, Settle, Idle
  <1>5. ASSUME NEW v \in Workers, v # w, (WorkerStep(v) /\ ~Settle(v)) \/ \E i \in Jobs : Take(v, i)
        PROVE  worker'[w] = worker[w]
    <2>1. CASE WorkerStep(v) /\ ~Settle(v)
      BY <1>5, <2>1, StepOfOne
    <2>2. CASE \E i \in Jobs : Take(v, i)
      BY <1>1, <1>5, <2>2 DEF Take
    <2> QED
      BY <1>5, <2>1, <2>2
  <1>6. ASSUME WorkerStep(w), ~Settle(w)
        PROVE  Stopping(w)'
    <2>1. worker[w].job = j /\ worker[w].pc # "idle" /\ Stopping(w)
      BY <1>6, StepOfOne
    <2>2. Target(w)' = Target(w) /\ Target(w) \in Notifications
      BY <2>1, TargetStays, TargetExists
    <2>3. Live(Target(w))' => Live(Target(w))
      BY <2>1, <2>2, TargetExists, NothingComesBack DEF Live
    <2>4. Load(w) \/ RecordFailure(w)
      BY <1>6, <2>1 DEF WorkerStep, Load, ReadLast, InsertAttempt, ProviderAccepts,
                        ProviderRefuses, ReplyLost, CallProvider, RecordSuccess, DatabaseFails,
                        Stopping
    <2>5. CASE Load(w)
      BY <1>1, <2>1, <2>2, <2>3, <2>5 DEF Load, Throw, WorkerRecord, Stopping
    <2>6. CASE RecordFailure(w) /\ Live(Target(w))
      BY <1>1, <2>1, <2>6 DEF RecordFailure, Goto, WorkerRecord, Stopping
    <2>7. CASE RecordFailure(w) /\ ~Live(Target(w))
      BY <1>1, <2>2, <2>3, <2>7 DEF RecordFailure, Throw, WorkerRecord, Stopping
    <2> QED
      BY <2>4, <2>5, <2>6, <2>7
  <1> QED
    BY <1>2, <1>3, <1>4, <1>5, <1>6
       DEF Next, vars, ClientStep, Create, Send, Post, Update, Remove, Enqueue, EnqueueFails,
           QueueStep, Promote, Stall, LoseLock

\* A job that is given up is left only when it is over.
LEMMA NotForgotten ==
    ASSUME Shape, BusyHolds, [Next]_vars, ~Fault("crash"),
           NEW j \in Jobs, job[j].state # "unused", Pending(j)', Live(job[j].notif)',
           \A v \in Workers : worker[v].pc # "idle" /\ worker[v].job = j => Stopping(v),
           Pending(j) /\ Live(job[j].notif) =>
                \E v \in Workers : worker[v].pc # "idle" /\ worker[v].job = j
    PROVE  \E v \in Workers : worker'[v].pc # "idle" /\ worker'[v].job = j
  <1>1. worker \in [Workers -> WorkerRecord] /\ job \in [Jobs -> JobRecord]
    BY DEF Shape, TypeOK
  <1>2. job[j].notif \in Notifications /\ notification[job[j].notif].state # "absent"
    BY DEF Shape, JobsAreNamed
  <1>3. Pending(j) /\ Live(job[j].notif)
    <2>1. job'[j].notif = job[j].notif
      BY JobsKeepNames
    <2> QED
      BY <1>2, <2>1, EndedStays, NothingComesBack DEF Live
  <1>4. PICK w \in Workers : worker[w].pc # "idle" /\ worker[w].job = j
    BY <1>3
  <1>5. worker[w].error = "permanent" /\ Holds(w)
    BY <1>3, <1>4 DEF Stopping, Target, BusyHolds
  <1>6. ~Settle(w)
    <2> SUFFICES ASSUME Settle(w) PROVE FALSE
      OBVIOUS
    <2>1. job' = [job EXCEPT ![j] = Settled(j, "permanent")]
      BY <1>4, <1>5 DEF Settle
    <2>2. Settled(j, "permanent").state = "failed"
      BY <1>1 DEF Settled, Outcome, JobRecord
    <2> QED
      BY <1>1, <2>1, <2>2 DEF Pending
  <1>7. worker'[w].pc # "idle" /\ worker'[w].job = worker[w].job
    <2>1. CASE worker' = worker
      BY <1>4, <2>1
    <2>2. ASSUME NEW v \in Workers, NEW i \in Jobs, Take(v, i)
          PROVE  worker'[w] = worker[w]
      BY <1>1, <1>4, <2>2 DEF Take
    <2>3. ASSUME NEW v \in Workers, Settle(v)
          PROVE  worker'[w] = worker[w]
      BY <1>1, <1>6, <2>3 DEF Settle
    <2>4. ASSUME NEW v \in Workers, WorkerStep(v), ~Settle(v), v # w
          PROVE  worker'[w] = worker[w]
      BY <2>4, StepOfOne
    <2>5. ASSUME WorkerStep(w)
          PROVE  worker'[w].pc # "idle" /\ worker'[w].job = worker[w].job
      <3>1. worker'[w].job = worker[w].job
        BY <1>6, <2>5, StepOfOne
      <3>2. worker[w] \in WorkerRecord
        BY <1>1
      <3>3. worker'[w].pc # "idle"
        BY <1>1, <1>6, <2>5, <3>2
           DEF WorkerStep, Load, ReadLast, InsertAttempt, ProviderAccepts, ProviderRefuses,
               ReplyLost, CallProvider, AfterCall, RecordSuccess, RecordFailure, DatabaseFails,
               Throw, Goto, WorkerRecord
      <3> QED
        BY <3>1, <3>3
    <2> QED
      BY <1>4, <2>1, <2>2, <2>3, <2>4, <2>5
         DEF Next, vars, ClientStep, Create, Send, Post, Update, Remove, Enqueue, EnqueueFails,
             QueueStep, Promote, Stall, LoseLock, Crash
  <1> QED
    BY <1>4, <1>7

LEMMA GivenUpStep ==
    ASSUME Shape, BusyHolds, CallsHaveJobs, CallsInOrder, [Next]_vars,
           ~Fault("crash"), ~Fault("db"),
           \A c \in calls : c.error = "permanent" => GivenUp(c),
           NEW c \in calls', c.error = "permanent"
    PROVE  GivenUp(c)'
  <1>1. CASE c \in calls
    <2>1. /\ GivenUp(c) /\ c.job \in Jobs
          /\ job[c.job].state # "unused" /\ job[c.job].notif = c.notif
      BY <1>1 DEF CallsHaveJobs, Shape, TypeOK, Call
    <2>2. ASSUME NEW d \in calls', d.job = c.job
          PROVE  d.attempt <= c.attempt
      <3>1. CASE d \in calls
        BY <2>1, <2>2, <3>1 DEF GivenUp
      <3>2. CASE d \notin calls
        <4>1. PICK v \in Workers : worker[v].pc = "call" /\ d.job = worker[v].job
          BY <3>2, NewCall
        <4> QED
          BY <2>1, <2>2, <4>1 DEF GivenUp, Stopping
      <3> QED
        BY <3>1, <3>2
    <2>3. ASSUME NEW w \in Workers, worker'[w].pc # "idle", worker'[w].job = c.job
          PROVE  Stopping(w)'
      BY <2>1, <2>3, StoppingStep DEF GivenUp
    <2>4. Pending(c.job)' /\ Live(c.notif)' =>
                \E w \in Workers : worker'[w].pc # "idle" /\ worker'[w].job = c.job
      <3> SUFFICES ASSUME Pending(c.job)', Live(c.notif)'
                   PROVE  \E w \in Workers : worker'[w].pc # "idle" /\ worker'[w].job = c.job
        OBVIOUS
      <3>1. job'[c.job].notif = c.notif
        BY <2>1, JobsKeepNames
      <3>2. Live(job[c.job].notif)'
        BY <3>1
      <3> QED
        BY <2>1, <3>2, NotForgotten DEF GivenUp
    <2> QED
      BY <2>2, <2>3, <2>4 DEF GivenUp
  <1>2. CASE c \notin calls
    <2>1. PICK v \in Workers, accepted \in BOOLEAN, error \in Errors :
                CallProvider(v, accepted, error)
      BY <1>2, CallsGrow
    <2>2. /\ c.job = worker[v].job /\ c.notif = Target(v)
          /\ c.attempt = worker[v].attempt /\ c.error = error
          /\ \A d \in calls' : d \in calls \/ d = c
      BY <1>2, <2>1 DEF CallProvider
    <2>3. worker[v] \in WorkerRecord /\ worker \in [Workers -> WorkerRecord]
      BY DEF Shape, TypeOK
    <2>4. /\ worker[v].pc = "call" /\ worker'[v].job = worker[v].job
          /\ worker'[v].pc = "recordFailure" /\ worker'[v].error = "permanent"
          /\ \A u \in Workers \ {v} : worker'[u] = worker[u]
      BY <2>1, <2>2, <2>3 DEF CallProvider, AfterCall, WorkerRecord
    <2>5. \A d \in calls' : d.job = c.job => d.attempt <= c.attempt
      <3>1. worker[v].attempt \in Nat /\ Sending(v)
        BY <2>3, <2>4 DEF WorkerRecord, Sending
      <3> QED
        BY <2>2, <3>1 DEF CallsInOrder
    <2>6. \A w \in Workers : worker'[w].pc # "idle" /\ worker'[w].job = c.job => w = v
      BY <2>2, <2>4, JobsApart
    <2>7. Stopping(v)'
      BY <2>4 DEF Stopping
    <2> QED
      BY <2>2, <2>4, <2>5, <2>6, <2>7 DEF GivenUp
  <1> QED
    BY <1>1, <1>2

\* What is known of a job after a permanent error, as long as senders are apart.
LEMMA StopStep ==
    ASSUME Shape, HistoryInv, Sequential, StopInv, [Next]_vars
    PROVE  StopInv'
  <1>1. CallsHaveJobs'
    BY CallsHaveJobsStep DEF StopInv
  <1>2. ASSUME NoFault({"lock"})'
        PROVE  NoFault({"lock"}) /\ CallsInOrder /\ BusyHolds
    BY <1>2, LocksOnlyGetLost DEF StopInv, Sequential
  <1>3. NoFault({"lock"})' => CallsInOrder'
    BY <1>2, CallsInOrderStep DEF StopInv
  <1>4. ASSUME NoFault({"crash", "lock", "db"})', NEW c \in calls', c.error = "permanent"
        PROVE  GivenUp(c)'
    <2>1. NoFault({"crash", "lock", "db"}) /\ ~Fault("crash") /\ ~Fault("db")
      BY <1>4, FaultsGrow DEF NoFault, FaultKinds
    <2>2. CallsInOrder /\ BusyHolds
      BY <1>2, <1>4 DEF NoFault
    <2> QED
      BY <1>4, <2>1, <2>2, GivenUpStep DEF StopInv
  <1> QED
    BY <1>1, <1>3, <1>4 DEF StopInv

\* A permanent error ends the job, unless a crash, a lost lock or the database
\* keeps the error from BullMQ.
THEOREM PermanentErrorsEnd == Spec => []PermanentErrorStops
  <1>1. Init => StopInv
    BY DEF Init, StopInv, CallsHaveJobs, CallsInOrder
  <1>2. Shape /\ HistoryInv /\ IndInv /\ StopInv /\ [Next]_vars => StopInv'
    BY StopStep DEF IndInv
  <1>3. StopInv => PermanentErrorStops
    BY DEF StopInv, GivenUp, PermanentErrorStops
  <1> QED
    BY <1>1, <1>2, <1>3, HistoryInvariance, Invariance, PTL DEF Spec

(***************************************************************************)
(* How often a job calls the provider.                                     *)
(***************************************************************************)

\* The workers that may still call the provider for job j.
ReadyFor(j) ==
    {w \in Workers : worker[w].job = j /\ worker[w].pc \in {"load", "readLast", "insert", "call"}}

Ended(j) == job[j].state \in {"completed", "failed"}

\* How often job j has been taken, or may have been when it has ended.
Taken(j) ==
    IF Ended(j) THEN JobAttempts + MaxStalledCount
    ELSE job[j].made + job[j].stalls + (IF job[j].state = "active" THEN 1 ELSE 0)

\* A job that has not ended has a try left, and has been forgiven its stalls.
TriesLeft ==
    \A j \in Jobs :
        /\ ~Ended(j) => job[j].made < JobAttempts /\ job[j].stalls <= MaxStalledCount
        /\ job[j].state = "unused" => job[j].made = 0 /\ job[j].stalls = 0

\* Whoever has called for a job, or may, has taken it once.
CallsArePaid ==
    \A j \in Jobs :
        /\ IsFiniteSet(CallsOf(j))
        /\ IsFiniteSet(ReadyFor(j))
        /\ Cardinality(CallsOf(j)) + Cardinality(ReadyFor(j)) <= Taken(j)

\* Who is added to a set, or leaves it, counts for one.
LEMMA CountMore ==
    ASSUME NEW S, NEW T, NEW x, IsFiniteSet(S), T \subseteq S \cup {x}
    PROVE  /\ IsFiniteSet(T)
           /\ Cardinality(S) \in Nat /\ Cardinality(T) \in Nat
           /\ Cardinality(T) <= Cardinality(S) + 1
           /\ T \subseteq S => Cardinality(T) <= Cardinality(S)
  <1>1. IsFiniteSet(S \cup {x}) /\ Cardinality(S \cup {x}) <= Cardinality(S) + 1
    <2>1. Cardinality(S) \in Nat
      BY FS_CardinalityType
    <2>2. IsFiniteSet(S \cup {x})
      BY FS_AddElement
    <2>3. \/ Cardinality(S \cup {x}) = Cardinality(S)
          \/ Cardinality(S \cup {x}) = Cardinality(S) + 1
      BY FS_AddElement, Zenon
    <2> QED
      BY <2>1, <2>2, <2>3
  <1>2. IsFiniteSet(T) /\ Cardinality(T) <= Cardinality(S \cup {x})
    BY <1>1, FS_Subset
  <1>3. T \subseteq S => Cardinality(T) <= Cardinality(S)
    BY FS_Subset
  <1>4. Cardinality(S) \in Nat /\ Cardinality(T) \in Nat /\ Cardinality(S \cup {x}) \in Nat
    BY <1>1, <1>2, FS_CardinalityType
  <1> QED
    BY <1>1, <1>2, <1>3, <1>4

LEMMA CountLess ==
    ASSUME NEW S, NEW T, NEW x \in S, IsFiniteSet(S), T \subseteq S \ {x}
    PROVE  /\ IsFiniteSet(T)
           /\ Cardinality(S) \in Nat /\ Cardinality(T) \in Nat
           /\ Cardinality(T) + 1 <= Cardinality(S)
  <1>1. IsFiniteSet(S \ {x}) /\ Cardinality(S \ {x}) = Cardinality(S) - 1
    BY FS_RemoveElement
  <1>2. IsFiniteSet(T) /\ Cardinality(T) <= Cardinality(S \ {x})
    BY <1>1, FS_Subset
  <1>3. Cardinality(S) \in Nat /\ Cardinality(T) \in Nat
    BY <1>2, FS_CardinalityType
  <1> QED
    BY <1>1, <1>2, <1>3

\* Only a worker that takes the job comes to where it may call, and a call leads away
\* from there.
LEMMA ReadyComes ==
    ASSUME Shape, [Next]_vars, NEW j \in Jobs, NEW w \in Workers, w \in ReadyFor(j)'
    PROVE  \/ w \in ReadyFor(j)
           \/ Take(w, j)
  <1>1. worker \in [Workers -> WorkerRecord] /\ worker[w] \in WorkerRecord
    BY DEF Shape, TypeOK
  <1>2. CASE worker'[w] = worker[w]
    BY <1>2 DEF ReadyFor
  <1>3. ASSUME NEW i \in Jobs, Take(w, i)
        PROVE  i = j
    BY <1>1, <1>3 DEF Take, ReadyFor, Idle
  <1>4. ASSUME NEW v \in Workers, NEW i \in Jobs, Take(v, i), v # w
        PROVE  worker'[w] = worker[w]
    BY <1>1, <1>4 DEF Take
  <1>5. ASSUME NEW v \in Workers, Crash(v) \/ Settle(v)
        PROVE  worker'[w] = worker[w]
    BY <1>1, <1>5 DEF Crash, Settle, ReadyFor, Idle
  <1>6. ASSUME NEW v \in Workers, WorkerStep(v), ~Settle(v), v # w
        PROVE  worker'[w] = worker[w]
    BY <1>6, StepOfOne
  <1>7. ASSUME WorkerStep(w), ~Settle(w)
        PROVE  w \in ReadyFor(j)
    <2>1. worker[w].job = j
      BY <1>7, StepOfOne DEF ReadyFor
    <2>2. worker[w].pc \in {"load", "readLast", "insert", "call"}
      BY <1>1, <1>7 DEF ReadyFor, WorkerStep, Load, ReadLast, InsertAttempt, ProviderAccepts,
                        ProviderRefuses, ReplyLost, CallProvider, RecordSuccess, RecordFailure,
                        DatabaseFails, Throw, Goto, WorkerRecord
    <2> QED
      BY <2>1, <2>2 DEF ReadyFor
  <1> QED
    BY <1>2, <1>3, <1>4, <1>5, <1>6, <1>7
       DEF Next, vars, ClientStep, Create, Send, Post, Update, Remove, Enqueue, EnqueueFails,
           QueueStep, Promote, Stall, LoseLock

\* Tries and stalls are counted, and no job is taken more often than they allow.
LEMMA TakenGrows ==
    ASSUME Shape, TriesLeft, [Next]_vars, NEW j \in Jobs
    PROVE  /\ ~Ended(j)' => job'[j].made < JobAttempts /\ job'[j].stalls <= MaxStalledCount
           /\ job'[j].state = "unused" => job'[j].made = 0 /\ job'[j].stalls = 0
           /\ Taken(j) \in Nat /\ Taken(j)' \in Nat
           /\ Taken(j) <= Taken(j)'
           /\ \A w \in Workers : Take(w, j) => Taken(j)' = Taken(j) + 1
  <1> USE DEF Ended, Taken, JobAttempts, MaxStalledCount
  <1>1. /\ job \in [Jobs -> JobRecord] /\ job[j] \in JobRecord
        /\ job[j].made \in Nat /\ job[j].stalls \in Nat
    BY DEF Shape, TypeOK, JobRecord
  <1>2. /\ ~Ended(j) => job[j].made < 3 /\ job[j].stalls <= 1
        /\ job[j].state = "unused" => job[j].made = 0 /\ job[j].stalls = 0
    BY DEF TriesLeft
  <1>3. Taken(j) \in Nat /\ Taken(j) <= 4
    BY <1>1, <1>2
  <1>4. CASE job'[j] = job[j]
    <2>1. \A w \in Workers : ~Take(w, j)
      BY <1>1, <1>4 DEF Take, JobRecord
    <2> QED
      BY <1>1, <1>2, <1>3, <1>4, <2>1
  <1>5. ASSUME NEW n \in Notifications, Enqueue(n), job'[j] # job[j]
        PROVE  /\ job'[j].state = "waiting" /\ job[j].state = "unused"
               /\ job'[j].made = job[j].made /\ job'[j].stalls = job[j].stalls
    <2>1. PICK i \in Jobs : /\ job[i].state = "unused"
                            /\ job' = [job EXCEPT ![i].state = "waiting", ![i].notif = n]
      BY <1>5 DEF Enqueue, AddJob
    <2>2. i = j
      BY <1>1, <1>5, <2>1
    <2> QED
      BY <1>1, <2>1, <2>2 DEF JobRecord
  <1>6. ASSUME Promote(j)
        PROVE  /\ job'[j].state = "waiting" /\ job[j].state = "delayed"
               /\ job'[j].made = job[j].made /\ job'[j].stalls = job[j].stalls
    BY <1>1, <1>6 DEF Promote, JobRecord
  <1>7. ASSUME Stall(j) \/ LoseLock(j)
        PROVE  /\ job[j].state = "active"
               /\ \/ job'[j].state = "failed"
                  \/ /\ job'[j].state = "waiting" /\ job[j].stalls < 1
                     /\ job'[j].made = job[j].made /\ job'[j].stalls = job[j].stalls + 1
    <2>1. job'[j] = Stalled(j) /\ job[j].state = "active"
      BY <1>1, <1>7 DEF Stall, LoseLock
    <2>2. CASE job[j].stalls < 1
      <3>1. Stalled(j) = [job[j] EXCEPT !.state = "waiting", !.owner = None, !.stalls = @ + 1]
        BY <2>2 DEF Stalled
      <3> QED
        BY <1>1, <2>1, <2>2, <3>1 DEF JobRecord
    <2>3. CASE ~(job[j].stalls < 1)
      <3>1. Stalled(j) = [job[j] EXCEPT !.state = "failed", !.owner = None]
        BY <2>3 DEF Stalled
      <3> QED
        BY <1>1, <2>1, <3>1 DEF JobRecord
    <2> QED
      BY <2>2, <2>3
  <1>8. ASSUME NEW w \in Workers, Take(w, j)
        PROVE  /\ job[j].state = "waiting" /\ job'[j].state = "active"
               /\ job'[j].made = job[j].made /\ job'[j].stalls = job[j].stalls
    BY <1>1, <1>8 DEF Take, JobRecord
  <1>9. ASSUME NEW w \in Workers, Settle(w), job'[j] # job[j]
        PROVE  /\ job[j].state = "active"
               /\ \/ job'[j].state \in {"completed", "failed"}
                  \/ /\ job'[j].state = "delayed" /\ job[j].made + 1 < 3
                     /\ job'[j].made = job[j].made + 1 /\ job'[j].stalls = job[j].stalls
    <2>1. worker[w].error \in Errors
      BY <1>9, TargetExists DEF Settle, WorkerRecord
    <2>2. job'[j] = Settled(j, worker[w].error) /\ job[j].state = "active"
      BY <1>1, <1>9 DEF Settle, Holds
    <2> QED
      BY <1>1, <2>1, <2>2 DEF Settled, Outcome, JobRecord, Errors
  <1>10. ASSUME NEW w \in Workers, Crash(w)
         PROVE  /\ job'[j].state = job[j].state
                /\ job'[j].made = job[j].made /\ job'[j].stalls = job[j].stalls
    BY <1>1, <1>10 DEF Crash, JobRecord
  <1>11. ASSUME NEW w \in Workers, WorkerStep(w), ~Settle(w)
         PROVE  job'[j] = job[j]
    BY <1>11, StepOfOne
  <1>12. ASSUME NEW i \in Jobs, QueueStep(i), i # j
         PROVE  job'[j] = job[j]
    BY <1>1, <1>12 DEF QueueStep, Promote, Stall, LoseLock, Take
  <1>13. ASSUME NEW n \in Notifications, ClientStep(n) \/ Remove(n), ~Enqueue(n)
         PROVE  job'[j] = job[j]
    BY <1>13 DEF ClientStep, Create, Send, Post, Update, EnqueueFails, Remove
  <1>14. CASE job'[j] # job[j] /\ \E w \in Workers : Take(w, j)
    BY <1>1, <1>2, <1>3, <1>8, <1>14
  <1>15. CASE job'[j] # job[j] /\ \A w \in Workers : ~Take(w, j)
    <2>1. CASE \E n \in Notifications : Enqueue(n)
      BY <1>1, <1>2, <1>3, <1>5, <1>15, <2>1
    <2>2. CASE Promote(j)
      BY <1>1, <1>2, <1>3, <1>6, <1>15, <2>2
    <2>3. CASE Stall(j) \/ LoseLock(j)
      BY <1>1, <1>2, <1>3, <1>7, <1>15, <2>3
    <2>4. CASE \E w \in Workers : Settle(w)
      BY <1>1, <1>2, <1>3, <1>9, <1>15, <2>4
    <2>5. CASE \E w \in Workers : Crash(w)
      BY <1>1, <1>2, <1>3, <1>10, <1>15, <2>5
    <2> QED
      BY <1>11, <1>12, <1>13, <1>15, <2>1, <2>2, <2>3, <2>4, <2>5
         DEF Next, vars, QueueStep
  <1> QED
    BY <1>4, <1>14, <1>15

LEMMA CallsArePaidStep ==
    ASSUME Shape, TriesLeft, CallsArePaid, [Next]_vars
    PROVE  CallsArePaid'
  <1> SUFFICES ASSUME NEW j \in Jobs
               PROVE  /\ IsFiniteSet(CallsOf(j)')
                      /\ IsFiniteSet(ReadyFor(j)')
                      /\ Cardinality(CallsOf(j)') + Cardinality(ReadyFor(j)') <= Taken(j)'
    BY DEF CallsArePaid
  <1> DEFINE C == CallsOf(j)
             R == ReadyFor(j)
             C1 == CallsOf(j)'
             R1 == ReadyFor(j)'
  <1>1. /\ IsFiniteSet(C) /\ IsFiniteSet(R)
        /\ Cardinality(C) + Cardinality(R) <= Taken(j)
        /\ Cardinality(C) \in Nat /\ Cardinality(R) \in Nat
    BY FS_CardinalityType DEF CallsArePaid
  <1>2. /\ Taken(j) \in Nat /\ Taken(j)' \in Nat
        /\ Taken(j) <= Taken(j)'
        /\ \A w \in Workers : Take(w, j) => Taken(j)' = Taken(j) + 1
    BY TakenGrows
  <1>3. R1 \subseteq Workers
    BY DEF ReadyFor
  <1>4. CASE C1 = C /\ R1 \subseteq R
    <2>1. IsFiniteSet(R1) /\ Cardinality(R1) <= Cardinality(R) /\ Cardinality(R1) \in Nat
      BY <1>1, <1>4, FS_Subset, FS_CardinalityType
    <2> HIDE DEF C, R, C1, R1
    <2>2. IsFiniteSet(C1) /\ Cardinality(C1) = Cardinality(C)
      BY <1>1, <1>4
    <2>3. Cardinality(C1) + Cardinality(R1) <= Taken(j)'
      BY <1>1, <1>2, <2>1, <2>2
    <2> QED
      BY <2>1, <2>2, <2>3 DEF C1, R1
  <1>5. ASSUME NEW w \in Workers, Take(w, j)
        PROVE  C1 = C /\ R1 \subseteq R \cup {w}
    <2>1. calls' = calls
      BY <1>5 DEF Take
    <2>2. ASSUME NEW v \in Workers, Take(v, j) PROVE v = w
      BY <1>5, <2>2 DEF Take, Shape, TypeOK, WorkerRecord, JobRecord, Idle
    <2> QED
      BY <2>1, <2>2, <1>3, ReadyComes DEF CallsOf
  <1>6. CASE \E w \in Workers : Take(w, j)
    <2>1. PICK w \in Workers : Take(w, j)
      BY <1>6
    <2>2. C1 = C /\ R1 \subseteq R \cup {w} /\ Taken(j)' = Taken(j) + 1
      BY <1>2, <1>5, <2>1
    <2> HIDE DEF C, R, C1, R1
    <2>3. IsFiniteSet(R1) /\ Cardinality(R1) \in Nat /\ Cardinality(R1) <= Cardinality(R) + 1
      BY <1>1, <2>2, CountMore
    <2>4. IsFiniteSet(C1) /\ Cardinality(C1) = Cardinality(C)
      BY <1>1, <2>2
    <2>5. Cardinality(C1) + Cardinality(R1) <= Taken(j)'
      BY <1>1, <1>2, <2>2, <2>3, <2>4
    <2> QED
      BY <2>3, <2>4, <2>5 DEF C1, R1
  <1>7. CASE \A w \in Workers : ~Take(w, j)
    <2>1. R1 \subseteq R
      BY <1>3, <1>7, ReadyComes
    <2>2. CASE calls' = calls
      BY <1>4, <2>1, <2>2 DEF CallsOf
    <2>3. CASE calls' # calls
      <3>1. PICK w \in Workers, accepted \in BOOLEAN, error \in Errors :
                    CallProvider(w, accepted, error)
        BY <2>3, CallsGrow
      <3> DEFINE c == [job |-> worker[w].job, notif |-> Target(w), attempt |-> worker[w].attempt,
                       edition |-> worker[w].edition, accepted |-> accepted, error |-> error]
      <3>2. calls' = calls \cup {c} /\ c.job = worker[w].job
        BY <3>1 DEF CallProvider
      <3> HIDE DEF c
      <3>3. CASE worker[w].job # j
        BY <1>4, <2>1, <3>2, <3>3 DEF CallsOf
      <3>4. CASE worker[w].job = j
        <4>1. w \in R /\ R1 \subseteq R \ {w}
          <5>1. worker'[w].pc \in {"recordSuccess", "recordFailure"} /\ worker[w].pc = "call"
            BY <3>1 DEF CallProvider, AfterCall, Shape, TypeOK, WorkerRecord
          <5> QED
            BY <2>1, <3>4, <5>1 DEF ReadyFor
        <4>2. C1 \subseteq C \cup {c}
          BY <3>2 DEF CallsOf
        <4> HIDE DEF C, R, C1, R1
        <4>3. IsFiniteSet(R1) /\ Cardinality(R1) \in Nat /\ Cardinality(R1) + 1 <= Cardinality(R)
          BY <1>1, <4>1, CountLess
        <4>4. IsFiniteSet(C1) /\ Cardinality(C1) \in Nat /\ Cardinality(C1) <= Cardinality(C) + 1
          BY <1>1, <4>2, CountMore
        <4>5. Cardinality(C1) + Cardinality(R1) <= Taken(j)'
          BY <1>1, <1>2, <4>3, <4>4
        <4> QED
          BY <4>3, <4>4, <4>5 DEF C1, R1
      <3> QED
        BY <3>3, <3>4
    <2> QED
      BY <2>2, <2>3
  <1> QED
    BY <1>6, <1>7

\* Nobody has called, and every try is left, at first.
LEMMA BudgetInit ==
    ASSUME Init
    PROVE  TriesLeft /\ CallsArePaid
  <1>1. \A j \in Jobs : CallsOf(j) = {} /\ ReadyFor(j) = {}
    BY DEF Init, CallsOf, ReadyFor, Idle
  <1>2. IsFiniteSet({}) /\ Cardinality({}) = 0
    BY FS_EmptySet
  <1>3. \A j \in Jobs : job[j] = Unused
    BY DEF Init
  <1>4. \A j \in Jobs : Taken(j) = 0
    BY <1>3 DEF Taken, Ended, Unused
  <1>5. CallsArePaid
    BY <1>1, <1>2, <1>4 DEF CallsArePaid
  <1>6. TriesLeft
    BY <1>3 DEF TriesLeft, Ended, Unused, JobAttempts, MaxStalledCount
  <1> QED
    BY <1>5, <1>6

\* Every step keeps the account of a job's tries.
LEMMA BudgetStep ==
    ASSUME Shape, TriesLeft, CallsArePaid, [Next]_vars
    PROVE  TriesLeft' /\ CallsArePaid'
  <1>1. TriesLeft'
    BY TakenGrows DEF TriesLeft
  <1> QED
    BY <1>1, CallsArePaidStep

\* The account bounds the calls.
LEMMA BudgetBound ==
    ASSUME Shape, TriesLeft, CallsArePaid
    PROVE  AttemptBudget
  <1> SUFFICES ASSUME NEW j \in Jobs
               PROVE  Cardinality(CallsOf(j)) <= JobAttempts + MaxStalledCount
    BY DEF AttemptBudget
  <1>1. job[j].made \in Nat /\ job[j].stalls \in Nat
    BY DEF Shape, TypeOK, JobRecord
  <1>2. Taken(j) \in Nat /\ Taken(j) <= 4
    BY <1>1 DEF Taken, TriesLeft, JobAttempts, MaxStalledCount
  <1>3. /\ Cardinality(CallsOf(j)) \in Nat /\ Cardinality(ReadyFor(j)) \in Nat
        /\ Cardinality(CallsOf(j)) + Cardinality(ReadyFor(j)) <= Taken(j)
    BY FS_CardinalityType DEF CallsArePaid
  <1> QED
    BY <1>2, <1>3 DEF JobAttempts, MaxStalledCount

\* A job calls the provider once per configured attempt and once more for the stall
\* that is forgiven, whatever crashes and however many workers run it.
THEOREM CallsAreBounded == Spec => []AttemptBudget
  <1>1. Init => TriesLeft /\ CallsArePaid
    BY BudgetInit
  <1>2. Shape /\ TriesLeft /\ CallsArePaid /\ [Next]_vars => (TriesLeft /\ CallsArePaid)'
    BY BudgetStep
  <1>3. Shape /\ TriesLeft /\ CallsArePaid => AttemptBudget
    BY BudgetBound
  <1> QED
    BY <1>1, <1>2, <1>3, HistoryInvariance, PTL DEF Spec

(***************************************************************************)
(* What a second message of a job costs.                                   *)
(***************************************************************************)

AcceptedOf(j) == {c \in CallsOf(j) : c.accepted}

\* The worker may get a message of job j accepted, or hand the job on to one that
\* may, without any fault.
Carries(w, j) ==
    /\ worker[w].job = j
    /\ \/ worker[w].pc = "call"
       \/ /\ Live(job[j].notif)
          /\ \/ worker[w].pc \in {"load", "readLast", "insert", "recordFailure"}
             \/ worker[w].pc = "settle" /\ worker[w].error # "none"

CarriersOf(j) == {w \in Workers : Carries(w, j)}

\* The queue may give the job to another worker.
Offered(j) ==
    \/ job[j].state = "unused"
    \/ /\ Live(job[j].notif)
       /\ \/ job[j].state \in {"waiting", "delayed"}
          \/ job[j].state = "active" /\ job[j].owner = None

Offers(j) == IF Offered(j) THEN 1 ELSE 0

FaultsSoFar == faults["crash"] + faults["lock"] + faults["db"] + faults["reply"]

\* A worker records success after an answer, and not after an error.
SuccessHasNoError ==
    \A w \in Workers : worker[w].pc = "recordSuccess" => worker[w].error = "none"

\* Messages that were accepted and those that still may be are paid for.
MessagesArePaid ==
    \A j \in Jobs :
        /\ IsFiniteSet(AcceptedOf(j))
        /\ IsFiniteSet(CarriersOf(j))
        /\ Cardinality(AcceptedOf(j)) + Cardinality(CarriersOf(j)) + Offers(j) <= 1 + FaultsSoFar

\* Each fault counts for one.
LEMMA FaultsAddUp ==
    ASSUME Shape, [Next]_vars
    PROVE  /\ FaultsSoFar \in Nat /\ FaultsSoFar' \in Nat
           /\ FaultsSoFar <= FaultsSoFar'
           /\ \A f \in {"crash", "lock", "db", "reply"} :
                Fault(f) => FaultsSoFar' = FaultsSoFar + 1
  <1>1. faults \in [FaultKinds -> Nat]
    BY DEF Shape, TypeOK
  <1>2. faults["crash"] \in Nat /\ faults["lock"] \in Nat /\ faults["db"] \in Nat
        /\ faults["reply"] \in Nat
    BY <1>1 DEF FaultKinds
  <1>3. ASSUME NEW f \in FaultKinds, Fault(f)
        PROVE  /\ FaultsSoFar' \in Nat /\ FaultsSoFar <= FaultsSoFar'
               /\ f # "queue" => FaultsSoFar' = FaultsSoFar + 1
    <2>1. /\ faults'[f] = faults[f] + 1
          /\ \A g \in FaultKinds \ {f} : faults'[g] = faults[g]
      BY <1>1, <1>3 DEF Fault
    <2> QED
      BY <1>2, <2>1 DEF FaultsSoFar, FaultKinds
  <1>4. faults' = faults \/ \E f \in FaultKinds : Fault(f)
    BY DEF Next, vars, ClientStep, Create, Send, Post, Update, Remove, Enqueue, EnqueueFails,
           QueueStep, Promote, Stall, LoseLock, Take, Crash, WorkerStep, Load, ReadLast,
           InsertAttempt, ProviderAccepts, ProviderRefuses, ReplyLost, CallProvider,
           RecordSuccess, RecordFailure, DatabaseFails, Settle, FaultKinds
  <1>5. FaultsSoFar \in Nat
    BY <1>2 DEF FaultsSoFar
  <1>6. CASE faults' = faults
    <2>1. \A f \in FaultKinds : ~Fault(f)
      BY <1>1, <1>6 DEF Fault
    <2> QED
      BY <1>5, <1>6, <2>1 DEF FaultsSoFar, FaultKinds
  <1>7. CASE \E f \in FaultKinds : Fault(f)
    BY <1>3, <1>5, <1>7 DEF FaultKinds
  <1> QED
    BY <1>4, <1>6, <1>7

\* The notification of a job does not come back.
LEMMA JobStaysGone ==
    ASSUME Shape, [Next]_vars, NEW j \in Jobs, job[j].state # "unused"
    PROVE  /\ job'[j].notif = job[j].notif
           /\ Live(job[j].notif)' => Live(job[j].notif)
  <1>1. job[j].notif \in Notifications /\ notification[job[j].notif].state # "absent"
    BY DEF Shape, JobsAreNamed
  <1>2. job'[j].notif = job[j].notif
    BY JobsKeepNames
  <1> QED
    BY <1>1, <1>2, NothingComesBack DEF Live

LEMMA SuccessHasNoErrorStep ==
    ASSUME Shape, SuccessHasNoError, [Next]_vars
    PROVE  SuccessHasNoError'
  <1> SUFFICES ASSUME NEW w \in Workers, worker'[w].pc = "recordSuccess", worker'[w] # worker[w]
               PROVE  worker'[w].error = "none"
    BY DEF SuccessHasNoError
  <1>1. worker \in [Workers -> WorkerRecord] /\ worker[w] \in WorkerRecord
    BY DEF Shape, TypeOK
  <1>2. ASSUME NEW v \in Workers, Crash(v) \/ Settle(v) \/ \E j \in Jobs : Take(v, j)
        PROVE  FALSE
    <2>1. PICK r : worker' = [worker EXCEPT ![v] = r] /\ r.pc # "recordSuccess"
      <3>1. Idle.pc # "recordSuccess"
        BY DEF Idle
      <3>2. \A j \in Jobs : [Idle EXCEPT !.pc = "load", !.job = j].pc # "recordSuccess"
        BY DEF Idle
      <3> QED
        BY <1>2, <3>1, <3>2 DEF Crash, Settle, Take
    <2>2. \A u \in Workers : worker'[u] = IF u = v THEN r ELSE worker[u]
      BY <1>1, <2>1
    <2> QED
      BY <2>1, <2>2
  <1>3. ASSUME NEW v \in Workers, WorkerStep(v), ~Settle(v)
        PROVE  v = w
    BY <1>3, StepOfOne
  <1>4. ASSUME NEW accepted \in BOOLEAN, NEW error \in Errors, CallProvider(w, accepted, error)
        PROVE  worker'[w].error = "none"
    BY <1>1, <1>4 DEF CallProvider, AfterCall, WorkerRecord
  <1>5. CASE Load(w) \/ ReadLast(w) \/ InsertAttempt(w) \/ RecordSuccess(w) \/ RecordFailure(w)
                \/ DatabaseFails(w)
    BY <1>1, <1>5 DEF Load, ReadLast, InsertAttempt, RecordSuccess, RecordFailure, DatabaseFails,
                      Throw, Goto, WorkerRecord
  <1>6. CASE ProviderAccepts(w) \/ ProviderRefuses(w) \/ ReplyLost(w)
    BY <1>4, <1>6 DEF ProviderAccepts, ProviderRefuses, ReplyLost, Errors
  <1>7. ASSUME WorkerStep(w), ~Settle(w)
        PROVE  worker'[w].error = "none"
    BY <1>5, <1>6, <1>7 DEF WorkerStep
  <1> QED
    BY <1>2, <1>3, <1>7
       DEF Next, vars, ClientStep, Create, Send, Post, Update, Remove, Enqueue, EnqueueFails,
           QueueStep, Promote, Stall, LoseLock

\* Where a worker that may still send was before.
LEMMA CarriersCome ==
    ASSUME Shape, SuccessHasNoError, [Next]_vars, NEW j \in Jobs, NEW w \in Workers, Carries(w, j)'
    PROVE  \/ Carries(w, j)
           \/ Take(w, j) /\ Live(job[j].notif)
           \/ Fault("db") /\ worker[w].pc = "recordSuccess" /\ WorkerStep(w) /\ ~Settle(w)
  <1>1. worker \in [Workers -> WorkerRecord] /\ worker[w] \in WorkerRecord
    BY DEF Shape, TypeOK
  <1>2. worker'[w].job = j /\ worker'[w].pc # "idle"
    BY DEF Carries
  <1>3. CASE worker'[w] = worker[w]
    <2>1. job[j].state # "unused"
      BY <1>2, <1>3 DEF Shape, BusyHasJob
    <2> QED
      BY <1>3, <2>1, JobStaysGone DEF Carries
  <1>4. ASSUME NEW i \in Jobs, Take(w, i)
        PROVE  Take(w, j) /\ Live(job[j].notif)
    <2>1. worker'[w].pc = "load" /\ worker'[w].job = i
      BY <1>1, <1>4 DEF Take, Idle
    <2>2. i = j /\ job[j].state # "unused"
      BY <1>2, <1>4, <2>1 DEF Take
    <2> QED
      BY <1>4, <2>1, <2>2, JobStaysGone DEF Carries
  <1>5. ASSUME NEW v \in Workers, NEW i \in Jobs, Take(v, i), v # w
        PROVE  worker'[w] = worker[w]
    BY <1>1, <1>5 DEF Take
  <1>6. ASSUME NEW v \in Workers, Crash(v) \/ Settle(v)
        PROVE  worker'[w] = worker[w]
    BY <1>1, <1>2, <1>6 DEF Crash, Settle, Idle
  <1>7. ASSUME NEW v \in Workers, WorkerStep(v), ~Settle(v), v # w
        PROVE  worker'[w] = worker[w]
    BY <1>7, StepOfOne
  <1>8. ASSUME WorkerStep(w), ~Settle(w)
        PROVE  Carries(w, j) \/ (Fault("db") /\ worker[w].pc = "recordSuccess")
    <2>1. worker[w].job = j /\ worker[w].pc # "idle" /\ job' = job
      BY <1>2, <1>8, StepOfOne
    <2>2. job[j].state # "unused" /\ Target(w) = job[j].notif
      BY <2>1 DEF Shape, BusyHasJob, Target
    <2>3. Live(job[j].notif)' => Live(job[j].notif)
      BY <2>2, JobStaysGone
    <2>4. CASE Load(w) \/ ReadLast(w) \/ RecordFailure(w)
      BY <1>1, <2>1, <2>3, <2>4 DEF Carries, Load, ReadLast, RecordFailure, Throw, Goto,
                                    WorkerRecord
    <2>5. CASE InsertAttempt(w)
      <3>1. CASE Live(Target(w))
        BY <2>1, <2>2, <2>5, <3>1 DEF InsertAttempt, Carries
      <3>2. CASE ~Live(Target(w))
        BY <1>1, <2>2, <2>3, <2>5, <3>2 DEF InsertAttempt, Throw, WorkerRecord, Carries
      <3> QED
        BY <3>1, <3>2
    <2>6. CASE ProviderAccepts(w) \/ ProviderRefuses(w) \/ ReplyLost(w)
      BY <2>1, <2>6 DEF ProviderAccepts, ProviderRefuses, ReplyLost, CallProvider, Carries
    <2>7. CASE RecordSuccess(w) /\ ~Live(Target(w))
      BY <1>1, <2>2, <2>3, <2>7 DEF RecordSuccess, WorkerRecord, Carries
    <2>8. CASE RecordSuccess(w) /\ Live(Target(w))
      BY <1>1, <1>2, <2>8 DEF RecordSuccess, Goto, WorkerRecord, Carries, SuccessHasNoError
    <2>9. CASE DatabaseFails(w)
      <3>1. CASE worker[w].pc \in {"load", "readLast", "insert", "recordFailure"}
        BY <1>1, <2>1, <2>3, <2>9, <3>1 DEF DatabaseFails, Throw, WorkerRecord, Carries
      <3>2. CASE worker[w].pc = "recordSuccess"
        BY <2>9, <3>2 DEF DatabaseFails
      <3> QED
        BY <2>9, <3>1, <3>2 DEF DatabaseFails
    <2> QED
      BY <1>8, <2>4, <2>5, <2>6, <2>7, <2>8, <2>9 DEF WorkerStep
  <1> QED
    BY <1>3, <1>4, <1>5, <1>6, <1>7, <1>8
       DEF Next, vars, ClientStep, Create, Send, Post, Update, Remove, Enqueue, EnqueueFails,
           QueueStep, Promote, Stall, LoseLock

\* When the queue comes to offer a job.
LEMMA OffersCome ==
    ASSUME Shape, [Next]_vars, NEW j \in Jobs, Offered(j)'
    PROVE  \/ Offered(j)
           \/ Fault("crash") /\ worker' \in {[worker EXCEPT ![w] = Idle] : w \in Workers}
           \/ Fault("lock") /\ worker' = worker
           \/ \E w \in Workers : Settle(w) /\ worker[w].error # "none" /\ worker[w].job = j
                                 /\ Live(job[j].notif)
  <1> USE DEF Offered
  <1>1. job \in [Jobs -> JobRecord] /\ job[j] \in JobRecord
    BY DEF Shape, TypeOK
  <1>2. CASE job[j].state = "unused"
    BY <1>2
  <1>3. CASE job[j].state # "unused"
    <2>1. /\ job'[j].notif = job[j].notif /\ job'[j].state # "unused"
          /\ Live(job[j].notif)' => Live(job[j].notif)
      BY <1>3, JobStaysGone, JobsKeepNames
    <2>2. Live(job[j].notif)
      BY <2>1 DEF Live
    <2>3. CASE job'[j] = job[j]
      BY <2>2, <2>3
    <2>4. ASSUME NEW n \in Notifications, ClientStep(n) \/ Remove(n)
          PROVE  job'[j] = job[j]
      BY <1>1, <1>3, <2>4 DEF ClientStep, Create, Send, Post, Update, Enqueue, AddJob,
                              EnqueueFails, Remove
    <2>5. CASE Promote(j) \/ Stall(j)
      BY <2>2, <2>5 DEF Promote, Stall
    <2>6. CASE LoseLock(j)
      BY <2>6 DEF LoseLock
    <2>7. ASSUME NEW w \in Workers, Take(w, j)
          PROVE  FALSE
      BY <1>1, <2>1, <2>7, SentinelAssumption DEF Take, JobRecord
    <2>8. ASSUME NEW i \in Jobs, QueueStep(i), i # j
          PROVE  job'[j] = job[j]
      BY <1>1, <2>8 DEF QueueStep, Promote, Stall, LoseLock, Take
    <2>9. ASSUME NEW w \in Workers, Crash(w)
          PROVE  Fault("crash") /\ worker' = [worker EXCEPT ![w] = Idle]
      BY <2>9 DEF Crash
    <2>10. ASSUME NEW w \in Workers, Settle(w), job'[j] # job[j]
           PROVE  worker[w].error # "none" /\ worker[w].job = j
      <3>1. worker[w].job = j /\ job'[j] = Settled(j, worker[w].error)
        BY <1>1, <2>10 DEF Settle
      <3>2. worker[w].error = "none" => job'[j].state = "completed"
        BY <1>1, <3>1 DEF Settled, Outcome, JobRecord
      <3> QED
        BY <2>1, <3>1, <3>2
    <2>11. ASSUME NEW w \in Workers, WorkerStep(w), ~Settle(w)
           PROVE  job'[j] = job[j]
      BY <2>11, StepOfOne
    <2>12. ASSUME NEW w \in Workers, Settle(w)
           PROVE  Offered(j) \/ (worker[w].error # "none" /\ worker[w].job = j)
      <3>1. CASE job'[j] = job[j]
        BY <2>2, <3>1
      <3>2. CASE job'[j] # job[j]
        BY <2>10, <2>12, <3>2
      <3> QED
        BY <3>1, <3>2
    <2> QED
      BY <2>2, <2>3, <2>4, <2>5, <2>6, <2>7, <2>8, <2>9, <2>11, <2>12
         DEF Next, vars, QueueStep
  <1> QED
    BY <1>2, <1>3

LEMMA MessagesArePaidStep ==
    ASSUME Shape, SuccessHasNoError, MessagesArePaid, [Next]_vars
    PROVE  MessagesArePaid'
  <1> SUFFICES ASSUME NEW j \in Jobs
               PROVE  /\ IsFiniteSet(AcceptedOf(j)')
                      /\ IsFiniteSet(CarriersOf(j)')
                      /\ Cardinality(AcceptedOf(j)') + Cardinality(CarriersOf(j)') + Offers(j)'
                            <= 1 + FaultsSoFar'
    BY DEF MessagesArePaid
  <1> DEFINE A == AcceptedOf(j)
             K == CarriersOf(j)
             A1 == AcceptedOf(j)'
             K1 == CarriersOf(j)'
  <1>1. /\ IsFiniteSet(A) /\ IsFiniteSet(K)
        /\ Cardinality(A) + Cardinality(K) + Offers(j) <= 1 + FaultsSoFar
        /\ Cardinality(A) \in Nat /\ Cardinality(K) \in Nat
    BY FS_CardinalityType DEF MessagesArePaid
  <1>2. /\ FaultsSoFar \in Nat /\ FaultsSoFar' \in Nat
        /\ FaultsSoFar <= FaultsSoFar'
        /\ \A f \in {"crash", "lock", "db", "reply"} :
                Fault(f) => FaultsSoFar' = FaultsSoFar + 1
    BY FaultsAddUp
  <1>3. /\ Offers(j) \in {0, 1} /\ Offers(j)' \in {0, 1}
        /\ Offered(j) <=> Offers(j) = 1
        /\ Offered(j)' <=> Offers(j)' = 1
    BY DEF Offers
  \* One side may gain one, if something else is given for it.
  <1>4. ASSUME A1 = A,
               \/ K1 \subseteq K /\ (Offers(j)' <= Offers(j) \/ FaultsSoFar' = FaultsSoFar + 1)
               \/ \E w : /\ K1 \subseteq K \cup {w}
                         /\ Offers(j)' <= Offers(j)
                         /\ \/ Offers(j)' = 0 /\ Offers(j) = 1
                            \/ FaultsSoFar' = FaultsSoFar + 1
               \/ \E w \in K : K1 \subseteq K \ {w}
        PROVE  /\ IsFiniteSet(A1)
               /\ IsFiniteSet(K1)
               /\ Cardinality(A1) + Cardinality(K1) + Offers(j)' <= 1 + FaultsSoFar'
    <2> HIDE DEF A, K, A1, K1
    <2>1. IsFiniteSet(A1) /\ Cardinality(A1) = Cardinality(A)
      BY <1>1, <1>4
    <2>2. CASE K1 \subseteq K /\ (Offers(j)' <= Offers(j) \/ FaultsSoFar' = FaultsSoFar + 1)
      <3>1. IsFiniteSet(K1) /\ Cardinality(K1) \in Nat /\ Cardinality(K1) <= Cardinality(K)
        BY <1>1, <2>2, FS_Subset, FS_CardinalityType
      <3>2. Cardinality(A1) + Cardinality(K1) + Offers(j)' <= 1 + FaultsSoFar'
        BY <1>1, <1>2, <1>3, <2>1, <2>2, <3>1
      <3> QED
        BY <2>1, <3>1, <3>2
    <2>3. ASSUME NEW w, K1 \subseteq K \cup {w}, Offers(j)' <= Offers(j),
                 \/ Offers(j)' = 0 /\ Offers(j) = 1
                 \/ FaultsSoFar' = FaultsSoFar + 1
          PROVE  /\ IsFiniteSet(K1)
                 /\ Cardinality(A1) + Cardinality(K1) + Offers(j)' <= 1 + FaultsSoFar'
      <3>1. IsFiniteSet(K1) /\ Cardinality(K1) \in Nat /\ Cardinality(K1) <= Cardinality(K) + 1
        BY <1>1, <2>3, CountMore
      <3>2. Cardinality(A1) + Cardinality(K1) + Offers(j)' <= 1 + FaultsSoFar'
        BY <1>1, <1>2, <1>3, <2>1, <2>3, <3>1
      <3> QED
        BY <3>1, <3>2
    <2>4. ASSUME NEW w \in K, K1 \subseteq K \ {w}
          PROVE  /\ IsFiniteSet(K1)
                 /\ Cardinality(A1) + Cardinality(K1) + Offers(j)' <= 1 + FaultsSoFar'
      <3>1. IsFiniteSet(K1) /\ Cardinality(K1) \in Nat /\ Cardinality(K1) + 1 <= Cardinality(K)
        BY <1>1, <2>4, CountLess
      <3>2. Cardinality(A1) + Cardinality(K1) + Offers(j)' <= 1 + FaultsSoFar'
        BY <1>1, <1>2, <1>3, <2>1, <3>1
      <3> QED
        BY <3>1, <3>2
    <2> QED
      BY <1>4, <2>1, <2>2, <2>3, <2>4
  <1>5. K1 \subseteq Workers /\ K \subseteq Workers
    BY DEF CarriersOf
  <1>6. ASSUME NEW w \in Workers, Take(w, j)
        PROVE  /\ K1 \subseteq K \cup {w} /\ ~Offered(j)'
               /\ Live(job[j].notif) => Offered(j)
               /\ ~Live(job[j].notif) => K1 \subseteq K
    <2>1. ASSUME NEW v \in Workers, Take(v, j) PROVE v = w
      BY <1>6, <2>1 DEF Take, Shape, TypeOK, WorkerRecord, JobRecord, Idle
    <2>2. \A v \in Workers : v \in K1 =>
                v \in K \/ (v = w /\ Live(job[j].notif))
      <3> SUFFICES ASSUME NEW v \in Workers, Carries(v, j)', ~Carries(v, j)
                   PROVE  v = w /\ Live(job[j].notif)
        BY DEF CarriersOf
      <3>1. \/ Take(v, j) /\ Live(job[j].notif)
            \/ Fault("db")
        BY CarriersCome
      <3>2. ~Fault("db")
        BY <1>6 DEF Take, Fault, Shape, TypeOK, FaultKinds
      <3> QED
        BY <2>1, <3>1, <3>2
    <2>3. job'[j].state = "active" /\ job'[j].owner = w
      BY <1>6 DEF Take, Shape, TypeOK, JobRecord
    <2>4. ~Offered(j)'
      BY <2>3, SentinelAssumption DEF Offered
    <2>5. Live(job[j].notif) => Offered(j)
      BY <1>6 DEF Take, Offered
    <2> QED
      BY <1>5, <2>2, <2>4, <2>5
  <1>7. CASE \E w \in Workers : Take(w, j)
    <2>1. PICK w \in Workers : Take(w, j)
      BY <1>7
    <2>2. A1 = A
      BY <2>1 DEF Take, AcceptedOf, CallsOf
    <2>3. CASE Live(job[j].notif)
      <3>1. /\ K1 \subseteq K \cup {w} /\ Offers(j)' = 0 /\ Offers(j) = 1
        BY <1>3, <1>6, <2>1, <2>3
      <3> HIDE DEF A, K, A1, K1
      <3> QED
        BY <1>4, <2>2, <3>1 DEF A1, K1
    <2>4. CASE ~Live(job[j].notif)
      <3>1. K1 \subseteq K /\ Offers(j)' = 0 /\ Offers(j)' <= Offers(j)
        BY <1>3, <1>6, <2>1, <2>4
      <3> HIDE DEF A, K, A1, K1
      <3> QED
        BY <1>4, <2>2, <3>1 DEF A1, K1
    <2> QED
      BY <2>3, <2>4
  <1>8. ASSUME job' = job
        PROVE  Offers(j)' <= Offers(j)
    <2>1. job[j].state = "unused" => Offered(j)
      BY DEF Offered
    <2>2. job[j].state # "unused" => (Offered(j)' => Offered(j))
      BY <1>8, JobStaysGone DEF Offered
    <2> QED
      BY <1>3, <2>1, <2>2
  <1>9. CASE \E w \in Workers : /\ Fault("db") /\ worker[w].pc = "recordSuccess"
                                /\ WorkerStep(w) /\ ~Settle(w)
    <2>1. PICK w \in Workers : /\ Fault("db") /\ worker[w].pc = "recordSuccess"
                               /\ WorkerStep(w) /\ ~Settle(w)
      BY <1>9
    <2>2. job' = job /\ \A v \in Workers \ {w} : worker'[v] = worker[v]
      BY <2>1, StepOfOne
    <2>3. A1 = A
      BY <2>1 DEF WorkerStep, Load, ReadLast, InsertAttempt, ProviderAccepts, ProviderRefuses,
                  ReplyLost, CallProvider, RecordSuccess, RecordFailure, DatabaseFails, Settle,
                  AcceptedOf, CallsOf
    <2>4. \A v \in Workers \ {w} : v \in K1 => v \in K
      <3> SUFFICES ASSUME NEW v \in Workers \ {w}, Carries(v, j)' PROVE Carries(v, j)
        BY DEF CarriersOf
      <3>1. worker[v].pc # "recordSuccess"
        BY <2>2 DEF Carries
      <3>2. ~Take(v, j)
        BY <2>1 DEF Take, Fault, Shape, TypeOK, FaultKinds
      <3> QED
        BY <3>1, <3>2, CarriersCome
    <2>5. K1 \subseteq K \cup {w}
      BY <1>5, <2>4
    <2>6. FaultsSoFar' = FaultsSoFar + 1 /\ Offers(j)' <= Offers(j)
      BY <1>2, <1>8, <2>1, <2>2
    <2> HIDE DEF A, K, A1, K1
    <2> QED
      BY <1>4, <2>3, <2>5, <2>6 DEF A1, K1
  <1>10. CASE /\ \A w \in Workers : ~Take(w, j)
              /\ ~\E w \in Workers : /\ Fault("db") /\ worker[w].pc = "recordSuccess"
                                     /\ WorkerStep(w) /\ ~Settle(w)
    <2>1. K1 \subseteq K
      BY <1>10, CarriersCome DEF CarriersOf
    <2>2. CASE calls' = calls
      <3>1. A1 = A
        BY <2>2 DEF AcceptedOf, CallsOf
      <3>2. CASE \E w \in Workers : /\ Settle(w) /\ worker[w].error # "none"
                                    /\ worker[w].job = j /\ Live(job[j].notif)
        <4>1. PICK w \in Workers : /\ Settle(w) /\ worker[w].error # "none"
                                   /\ worker[w].job = j /\ Live(job[j].notif)
          BY <3>2
        <4>2. w \in K
          BY <4>1 DEF Settle, CarriersOf, Carries
        <4>3. worker'[w].pc = "idle"
          BY <4>1 DEF Settle, Shape, TypeOK, Idle
        <4>4. K1 \subseteq K \ {w}
          BY <2>1, <4>3 DEF CarriersOf, Carries
        <4> HIDE DEF A, K, A1, K1
        <4> QED
          BY <1>4, <3>1, <4>2, <4>4 DEF A1, K1
      <3>3. CASE ~\E w \in Workers : /\ Settle(w) /\ worker[w].error # "none"
                                     /\ worker[w].job = j /\ Live(job[j].notif)
        <4>1. Offered(j)' => Offered(j) \/ Fault("crash") \/ Fault("lock")
          BY <3>3, OffersCome
        <4>2. Offers(j)' <= Offers(j) \/ FaultsSoFar' = FaultsSoFar + 1
          BY <1>2, <1>3, <4>1
        <4> HIDE DEF A, K, A1, K1
        <4> QED
          BY <1>4, <2>1, <3>1, <4>2 DEF A1, K1
      <3> QED
        BY <3>2, <3>3
    <2>3. CASE calls' # calls
      <3>1. PICK w \in Workers, accepted \in BOOLEAN, error \in Errors :
                    /\ CallProvider(w, accepted, error)
                    /\ accepted /\ error # "none" => Fault("reply")
        BY <2>3, CallsGrow
      <3> DEFINE c == [job |-> worker[w].job, notif |-> Target(w), attempt |-> worker[w].attempt,
                       edition |-> worker[w].edition, accepted |-> accepted, error |-> error]
      <3>2. calls' = calls \cup {c} /\ c.job = worker[w].job /\ c.accepted = accepted
        BY <3>1 DEF CallProvider
      <3>3. Offers(j)' <= Offers(j)
        BY <1>8, <3>1 DEF CallProvider, SenderOnly
      <3> HIDE DEF c
      <3>4. CASE worker[w].job # j \/ ~accepted
        <4>1. A1 = A
          BY <3>2, <3>4 DEF AcceptedOf, CallsOf
        <4> HIDE DEF A, K, A1, K1
        <4> QED
          BY <1>4, <2>1, <3>3, <4>1 DEF A1, K1
      <3>5. CASE worker[w].job = j /\ accepted
        <4>1. A1 \subseteq A \cup {c}
          BY <3>2 DEF AcceptedOf, CallsOf
        <4>2. \/ FaultsSoFar' = FaultsSoFar + 1
              \/ w \in K /\ K1 \subseteq K \ {w}
          <5>1. CASE error = "none"
            <6>1. worker'[w].pc = "recordSuccess" /\ worker[w].pc = "call"
              BY <3>1, <5>1 DEF CallProvider, AfterCall, Shape, TypeOK, WorkerRecord
            <6> QED
              BY <2>1, <3>5, <6>1 DEF CarriersOf, Carries
          <5>2. CASE error # "none"
            BY <1>2, <3>1, <3>5, <5>2
          <5> QED
            BY <5>1, <5>2
        <4> HIDE DEF A, K, A1, K1
        <4>3. IsFiniteSet(A1) /\ Cardinality(A1) \in Nat /\ Cardinality(A1) <= Cardinality(A) + 1
          BY <1>1, <4>1, CountMore
        <4>4. IsFiniteSet(K1) /\ Cardinality(K1) \in Nat /\ Cardinality(K1) <= Cardinality(K)
          BY <1>1, <2>1, FS_Subset, FS_CardinalityType
        <4>5. w \in K /\ K1 \subseteq K \ {w} => Cardinality(K1) + 1 <= Cardinality(K)
          BY <1>1, CountLess
        <4>6. Cardinality(A1) + Cardinality(K1) + Offers(j)' <= 1 + FaultsSoFar'
          BY <1>1, <1>2, <1>3, <3>3, <4>2, <4>3, <4>4, <4>5
        <4> QED
          BY <4>3, <4>4, <4>6 DEF A1, K1
      <3> QED
        BY <3>4, <3>5
    <2> QED
      BY <2>2, <2>3
  <1> QED
    BY <1>7, <1>9, <1>10

\* Nothing has been sent at first.
LEMMA PaidInit ==
    ASSUME Init
    PROVE  SuccessHasNoError /\ MessagesArePaid
  <1>1. \A j \in Jobs : AcceptedOf(j) = {} /\ CarriersOf(j) = {}
    BY DEF Init, AcceptedOf, CallsOf, CarriersOf, Carries, Idle
  <1>2. IsFiniteSet({}) /\ Cardinality({}) = 0
    BY FS_EmptySet
  <1>3. FaultsSoFar = 0
    BY DEF Init, FaultsSoFar, FaultKinds
  <1>4. \A j \in Jobs : Offers(j) \in {0, 1}
    BY DEF Offers
  <1>5. MessagesArePaid
    BY <1>1, <1>2, <1>3, <1>4 DEF MessagesArePaid
  <1>6. SuccessHasNoError
    BY DEF Init, SuccessHasNoError, Idle
  <1> QED
    BY <1>5, <1>6

\* The account bounds the messages.
LEMMA PaidBound ==
    ASSUME Shape, MessagesArePaid
    PROVE  DuplicatesNeedFault
  <1> SUFFICES ASSUME NEW j \in Jobs
               PROVE  Cardinality(AcceptedOf(j)) <=
                          1 + faults["crash"] + faults["lock"] + faults["db"] + faults["reply"]
    BY DEF DuplicatesNeedFault, AcceptedOf
  <1>1. /\ Cardinality(AcceptedOf(j)) \in Nat /\ Cardinality(CarriersOf(j)) \in Nat
        /\ Offers(j) \in {0, 1}
        /\ Cardinality(AcceptedOf(j)) + Cardinality(CarriersOf(j)) + Offers(j) <= 1 + FaultsSoFar
    BY FS_CardinalityType DEF MessagesArePaid, Offers
  <1>2. /\ faults["crash"] \in Nat /\ faults["lock"] \in Nat /\ faults["db"] \in Nat
        /\ faults["reply"] \in Nat
    BY DEF Shape, TypeOK, FaultKinds
  <1> QED
    BY <1>1, <1>2 DEF FaultsSoFar

\* Every message of a job beyond the first is paid for by a fault of its own.
THEOREM DuplicatesArePaid == Spec => []DuplicatesNeedFault
  <1>1. Init => SuccessHasNoError /\ MessagesArePaid
    BY PaidInit
  <1>2. Shape /\ SuccessHasNoError /\ MessagesArePaid /\ [Next]_vars
            => (SuccessHasNoError /\ MessagesArePaid)'
    BY SuccessHasNoErrorStep, MessagesArePaidStep
  <1>3. Shape /\ MessagesArePaid => DuplicatesNeedFault
    BY PaidBound
  <1> QED
    BY <1>1, <1>2, <1>3, HistoryInvariance, PTL DEF Spec
=============================================================================
