--------------------------- MODULE DeliveryWorker ---------------------------
(***************************************************************************)
(* The sending side: the HTTP handlers that create, edit, send and delete  *)
(* a notification, the BullMQ queue between them and the workers, and the  *)
(* workers that run NotificationQueueProcessor.process and, inside it,     *)
(* NotificationDeliveryService.send one database or provider call at a     *)
(* time.                                                                   *)
(*                                                                         *)
(* What can go wrong is a step of its own, and each use of one is counted  *)
(* in faults and bounded by FaultBudget:                                   *)
(*   crash  a worker process dies between two calls                        *)
(*   lock   BullMQ gives the job of a slow but running worker to another   *)
(*   db     a database call fails, and changes nothing                     *)
(*   reply  the provider accepts and its reply is lost                     *)
(*   queue  a request ends before its queue.add                            *)
(***************************************************************************)
EXTENDS DeliveryStore

CONSTANTS
    Workers,            \* worker processes
    Jobs,               \* job ids BullMQ may generate
    None,               \* no worker, no job
    MaxRequests,        \* bound: requests to send per notification, the creating one included
    MaxEdits,           \* bound: edits per notification
    FaultBudget         \* bound: how often each kind of fault happens

FaultKinds == {"crash", "lock", "db", "reply", "queue"}

\* NOTIFICATION_JOB_ATTEMPTS, and MAX_DELIVERY_CREATION_RETRIES
JobAttempts == 3

CreationRetries == 3

\* BullMQ's default maxStalledCount
MaxStalledCount == 1

ASSUME SentinelAssumption == None \notin Workers \cup Jobs

ASSUME BoundAssumption ==
    /\ MaxRequests \in Nat
    /\ MaxEdits \in Nat
    /\ FaultBudget \in [FaultKinds -> Nat]

VARIABLES
    job,                \* BullMQ's record of each job
    worker,             \* what each worker is doing, and its local variables
    requests,           \* requests to send a notification, ever
    posting,            \* of those, the ones that have not called queue.add yet
    calls,              \* history: every call made to a provider
    faults              \* how often each kind of fault has happened

vars == <<notification, delivery, job, worker, requests, posting, calls, faults>>

JobState == {"unused", "waiting", "active", "delayed", "completed", "failed"}

Errors == {"none", "transient", "permanent"}

Steps == {"idle", "load", "readLast", "insert", "call",
          "recordSuccess", "recordFailure", "settle"}

JobRecord ==
    [state : JobState, notif : Notifications \cup {None}, owner : Workers \cup {None},
     made : Nat, stalls : Nat]

WorkerRecord ==
    [pc : Steps, job : Jobs \cup {None}, retry : Nat, edition : Nat,
     last : Nat, attempt : Nat, error : Errors]

Call ==
    [job : Jobs, notif : Notifications, attempt : Nat, edition : Nat,
     accepted : BOOLEAN, error : Errors]

Unused == [state |-> "unused", notif |-> None, owner |-> None, made |-> 0, stalls |-> 0]

Idle ==
    [pc |-> "idle", job |-> None, retry |-> 0, edition |-> 0,
     last |-> 0, attempt |-> 0, error |-> "none"]

\* Every row, job record and local variable of the sender has its type.
TypeOK ==
    /\ StoreTypeOK
    /\ job \in [Jobs -> JobRecord]
    /\ worker \in [Workers -> WorkerRecord]
    /\ requests \in [Notifications -> Nat]
    /\ posting \in [Notifications -> Nat]
    /\ calls \subseteq Call
    /\ faults \in [FaultKinds -> Nat]

Init ==
    /\ StoreInit
    /\ job = [j \in Jobs |-> Unused]
    /\ worker = [w \in Workers |-> Idle]
    /\ requests = [n \in Notifications |-> 0]
    /\ posting = [n \in Notifications |-> 0]
    /\ calls = {}
    /\ faults = [f \in FaultKinds |-> 0]

Fault(f) ==
    /\ faults[f] < FaultBudget[f]
    /\ faults' = [faults EXCEPT ![f] = @ + 1]

Pending(j) == job[j].state \in {"waiting", "active", "delayed"}

\* The notification a worker is sending.
Target(w) == job[worker[w].job].notif

\* The worker still holds BullMQ's lock on its job.
Holds(w) ==
    /\ job[worker[w].job].state = "active"
    /\ job[worker[w].job].owner = w

-----------------------------------------------------------------------------
(* The HTTP handlers of notifications.controller.ts.                       *)

Post(n) ==
    /\ requests[n] < MaxRequests
    /\ requests' = [requests EXCEPT ![n] = @ + 1]
    /\ posting' = [posting EXCEPT ![n] = @ + 1]
    /\ UNCHANGED <<job, worker, calls, faults>>

\* POST /notifications: the row is committed, then the handler queues a job.
Create(n) == InsertNotification(n) /\ Post(n)

\* POST /notifications/:id/send: the notification is looked up (404 when it
\* is not there), then the handler queues a job.
Send(n) == Live(n) /\ Post(n) /\ UNCHANGED storeVars

\* PATCH /notifications/:id, whatever the status is.
Update(n) ==
    /\ notification[n].edition < MaxEdits
    /\ EditNotification(n)
    /\ UNCHANGED <<job, worker, requests, posting, calls, faults>>

\* DELETE /notifications/:id. The queue is not told.
Remove(n) ==
    /\ DeleteNotification(n)
    /\ UNCHANGED <<job, worker, requests, posting, calls, faults>>

\* queue.add with deduplication id n: while a job for n is waiting, delayed
\* or active it is that job that is answered, and nothing is added.
AlwaysAdd(n) ==
    \E j \in Jobs :
        /\ job[j].state = "unused"
        /\ job' = [job EXCEPT ![j].state = "waiting", ![j].notif = n]

AddJob(n) ==
    IF \E j \in Jobs : Pending(j) /\ job[j].notif = n
    THEN UNCHANGED job
    ELSE \E j \in Jobs :
            /\ job[j].state = "unused"
            /\ job' = [job EXCEPT ![j].state = "waiting", ![j].notif = n]

Enqueue(n) ==
    /\ posting[n] > 0
    /\ posting' = [posting EXCEPT ![n] = @ - 1]
    /\ AddJob(n)
    /\ UNCHANGED <<notification, delivery, worker, requests, calls, faults>>

\* Redis rejects the add, or the process dies first: the request fails, and a
\* notification that was just created stays without a job.
EnqueueFails(n) ==
    /\ posting[n] > 0
    /\ Fault("queue")
    /\ posting' = [posting EXCEPT ![n] = @ - 1]
    /\ UNCHANGED <<notification, delivery, job, worker, requests, calls>>

-----------------------------------------------------------------------------
(* BullMQ's own steps.                                                     *)

\* An idle worker takes a waiting job and locks it.
Take(w, j) ==
    /\ worker[w].pc = "idle"
    /\ job[j].state = "waiting"
    /\ job' = [job EXCEPT ![j].state = "active", ![j].owner = w]
    /\ worker' = [worker EXCEPT ![w] = [Idle EXCEPT !.pc = "load", !.job = j]]
    /\ UNCHANGED <<notification, delivery, requests, posting, calls, faults>>

\* The backoff delay of a retried job is over.
Promote(j) ==
    /\ job[j].state = "delayed"
    /\ job' = [job EXCEPT ![j].state = "waiting"]
    /\ UNCHANGED <<notification, delivery, worker, requests, posting, calls, faults>>

\* The lock of an active job has expired: the job waits again, unless it has
\* stalled before.
ForgetStalled(j) == [job[j] EXCEPT !.state = "failed", !.owner = None]

NeverNoticeStalled(j) == job[j]

Stalled(j) ==
    IF job[j].stalls < MaxStalledCount
    THEN [job[j] EXCEPT !.state = "waiting", !.owner = None, !.stalls = @ + 1]
    ELSE [job[j] EXCEPT !.state = "failed", !.owner = None]

\* No worker is left to renew the lock.
Stall(j) ==
    /\ job[j].state = "active"
    /\ job[j].owner = None
    /\ job' = [job EXCEPT ![j] = Stalled(j)]
    /\ UNCHANGED <<notification, delivery, worker, requests, posting, calls, faults>>

\* A running worker did not renew it in time, and goes on unaware of it.
LoseLock(j) ==
    /\ job[j].state = "active"
    /\ job[j].owner # None
    /\ Fault("lock")
    /\ job' = [job EXCEPT ![j] = Stalled(j)]
    /\ UNCHANGED <<notification, delivery, worker, requests, posting, calls>>

\* The process of a busy worker dies and comes back without its work.
Crash(w) ==
    /\ worker[w].pc # "idle"
    /\ Fault("crash")
    /\ worker' = [worker EXCEPT ![w] = Idle]
    /\ job' = IF Holds(w) THEN [job EXCEPT ![worker[w].job].owner = None] ELSE job
    /\ UNCHANGED <<notification, delivery, requests, posting, calls>>

-----------------------------------------------------------------------------
(* NotificationDeliveryService.send, as the processor runs it.             *)

Goto(w, step) == worker' = [worker EXCEPT ![w].pc = step]

\* send throws: what the processor then sees is the error.
Throw(w, error) ==
    worker' = [worker EXCEPT ![w].pc = "settle", ![w].error = error]

SenderOnly == UNCHANGED <<job, requests, posting>>

\* findFirst by id and owner. A NotFoundException is not a provider error, so
\* the job is retried.
Load(w) ==
    /\ worker[w].pc = "load"
    /\ \/ /\ Live(Target(w))
          /\ worker' = [worker EXCEPT ![w].pc = "readLast",
                                      ![w].edition = notification[Target(w)].edition]
       \/ /\ ~Live(Target(w))
          /\ Throw(w, "transient")
    /\ UNCHANGED <<notification, delivery, calls, faults>>
    /\ SenderOnly

\* createDeliveryAttempt, first statement: the last attempt number.
ReadLast(w) ==
    /\ worker[w].pc = "readLast"
    /\ worker' = [worker EXCEPT ![w].pc = "insert", ![w].last = LastAttempt(Target(w))]
    /\ UNCHANGED <<notification, delivery, calls, faults>>
    /\ SenderOnly

\* createDeliveryAttempt, the writes and the commit. A deleted notification
\* breaks the foreign key. A number taken in between breaks the unique
\* constraint, and the transaction is tried again at most twice.
InsertAttempt(w) ==
    LET n == Target(w)
        k == worker[w].last + 1
    IN  /\ worker[w].pc = "insert"
        /\ \/ /\ Live(n)
              /\ k > LastAttempt(n)
              /\ InsertDelivery(n, worker[w].edition)
              /\ worker' = [worker EXCEPT ![w].pc = "call", ![w].attempt = k]
           \/ /\ Live(n)
              /\ k <= LastAttempt(n)
              /\ worker[w].retry < CreationRetries - 1
              /\ worker' = [worker EXCEPT ![w].pc = "readLast", ![w].retry = @ + 1]
              /\ UNCHANGED storeVars
           \/ /\ Live(n)
              /\ k <= LastAttempt(n)
              /\ worker[w].retry = CreationRetries - 1
              /\ Throw(w, "transient")
              /\ UNCHANGED storeVars
           \/ /\ ~Live(n)
              /\ Throw(w, "transient")
              /\ UNCHANGED storeVars
        /\ UNCHANGED <<calls, faults>>
        /\ SenderOnly

\* An answer leads to the success transaction, an error to the catch block.
SwallowError(error) == "recordSuccess"

DistrustAnswer(error) == "recordFailure"

AfterCall(error) == IF error = "none" THEN "recordSuccess" ELSE "recordFailure"

\* dispatcher.send: the provider is called, and answers or throws.
CallProvider(w, accepted, error) ==
    /\ worker[w].pc = "call"
    /\ calls' = calls \cup
            {[job |-> worker[w].job, notif |-> Target(w), attempt |-> worker[w].attempt,
              edition |-> worker[w].edition, accepted |-> accepted, error |-> error]}
    /\ worker' = [worker EXCEPT ![w].pc = AfterCall(error), ![w].error = error]
    /\ UNCHANGED storeVars
    /\ SenderOnly

ProviderAccepts(w) == CallProvider(w, TRUE, "none") /\ UNCHANGED faults

\* A retryable or a non-retryable NotificationProviderError.
ProviderRefuses(w) ==
    /\ \E error \in {"transient", "permanent"} : CallProvider(w, FALSE, error)
    /\ UNCHANGED faults

\* The provider took the message and its reply does not arrive. The Resend
\* provider reports that as retryable, the Twilio provider as permanent.
ReplyLost(w) ==
    /\ Fault("reply")
    /\ \E error \in {"transient", "permanent"} : CallProvider(w, TRUE, error)

RecordSuccessThenThrow(w) ==
    /\ worker[w].pc = "recordSuccess"
    /\ Live(Target(w))
    /\ MarkSent(Target(w), worker[w].attempt)
    /\ worker' = [worker EXCEPT ![w].pc = "recordFailure", ![w].error = "transient"]
    /\ UNCHANGED <<calls, faults>>
    /\ SenderOnly

\* The success transaction. The notification may be gone (P2025): the throw
\* lands in the same catch block as a provider error.
RecordSuccess(w) ==
    /\ worker[w].pc = "recordSuccess"
    /\ \/ /\ Live(Target(w))
          /\ MarkSent(Target(w), worker[w].attempt)
          /\ Goto(w, "settle")
       \/ /\ ~Live(Target(w))
          /\ worker' = [worker EXCEPT ![w].pc = "recordFailure", ![w].error = "transient"]
          /\ UNCHANGED storeVars
    /\ UNCHANGED <<calls, faults>>
    /\ SenderOnly

\* The catch block: record the failure, throw the error again. When recording
\* it throws, that error replaces the one being handled.
RecordFailure(w) ==
    /\ worker[w].pc = "recordFailure"
    /\ \/ /\ Live(Target(w))
          /\ MarkFailed(Target(w), worker[w].attempt)
          /\ Goto(w, "settle")
       \/ /\ ~Live(Target(w))
          /\ Throw(w, "transient")
          /\ UNCHANGED storeVars
    /\ UNCHANGED <<calls, faults>>
    /\ SenderOnly

\* Any of the database calls above fails.
DatabaseFails(w) ==
    /\ Fault("db")
    /\ \/ /\ worker[w].pc \in {"load", "readLast", "insert", "recordFailure"}
          /\ Throw(w, "transient")
       \/ /\ worker[w].pc = "recordSuccess"
          /\ worker' = [worker EXCEPT ![w].pc = "recordFailure", ![w].error = "transient"]
    /\ UNCHANGED <<notification, delivery, calls>>
    /\ SenderOnly

\* process returns or throws and BullMQ settles the job: an UnrecoverableError
\* or the last attempt fails it, any other error delays it. A worker that has
\* lost the lock changes nothing.
IgnorePermanent(j, error) ==
    IF error = "none" THEN "completed"
    ELSE IF job[j].made + 1 < JobAttempts THEN "delayed" ELSE "failed"

RetryOnceMore(j, error) ==
    CASE error = "none" -> "completed"
      [] error = "permanent" -> "failed"
      [] error = "transient" -> IF job[j].made < JobAttempts THEN "delayed" ELSE "failed"

Outcome(j, error) ==
    CASE error = "none" -> "completed"
      [] error = "permanent" -> "failed"
      [] error = "transient" -> IF job[j].made + 1 < JobAttempts THEN "delayed" ELSE "failed"

Settled(j, error) ==
    [job[j] EXCEPT !.state = Outcome(j, error), !.owner = None, !.made = @ + 1]

Settle(w) ==
    /\ worker[w].pc = "settle"
    /\ worker' = [worker EXCEPT ![w] = Idle]
    /\ job' = IF Holds(w)
              THEN [job EXCEPT ![worker[w].job] = Settled(worker[w].job, worker[w].error)]
              ELSE job
    /\ UNCHANGED <<notification, delivery, requests, posting, calls, faults>>

-----------------------------------------------------------------------------
WorkerStep(w) ==
    \/ Load(w)
    \/ ReadLast(w)
    \/ InsertAttempt(w)
    \/ ProviderAccepts(w)
    \/ ProviderRefuses(w)
    \/ ReplyLost(w)
    \/ RecordSuccess(w)
    \/ RecordFailure(w)
    \/ DatabaseFails(w)
    \/ Settle(w)

ClientStep(n) ==
    \/ Create(n)
    \/ Send(n)
    \/ Update(n)
    \/ Enqueue(n)
    \/ EnqueueFails(n)

QueueStep(j) ==
    \/ Promote(j)
    \/ Stall(j)
    \/ LoseLock(j)
    \/ \E w \in Workers : Take(w, j)

Next ==
    \/ \E n \in Notifications : ClientStep(n) \/ Remove(n)
    \/ \E j \in Jobs : QueueStep(j)
    \/ \E w \in Workers : WorkerStep(w) \/ Crash(w)

Spec == Init /\ [][Next]_vars

\* Every await of the code returns or throws in the end, BullMQ runs its timers,
\* and a worker that is free takes a waiting job. Clients owe nothing, and
\* neither does a fault.
Fairness ==
    /\ \A n \in Notifications : WF_vars(Enqueue(n))
    /\ \A j \in Jobs : WF_vars(Promote(j)) /\ WF_vars(Stall(j))
    /\ \A j \in Jobs : WF_vars(\E w \in Workers : Take(w, j))
    /\ \A w \in Workers : WF_vars(WorkerStep(w))

FairSpec == Spec /\ Fairness

-----------------------------------------------------------------------------
(* Safety                                                                  *)

NoFault(kinds) == \A f \in kinds : faults[f] = 0

CallsOf(j) == {c \in calls : c.job = j}

\* A provider has accepted attempt k of n.
Accepted(n, k) == \E c \in calls : c.notif = n /\ c.attempt = k /\ c.accepted

Agrees(n) ==
    LET k == LastAttempt(n)
    IN  IF k = 0 THEN notification[n].status = "PENDING"
        ELSE /\ notification[n].status = delivery[n][k].status
             /\ notification[n].error = delivery[n][k].error

\* What a client reads in the notification row is what the row of the latest
\* attempt says, error included, and PENDING exactly when there is none: the
\* three transactions of notification-delivery.service.ts never drift apart,
\* as long as no job is handed to two workers.
StatusAgrees ==
    NoFault({"lock"}) => \A n \in Notifications : Live(n) => Agrees(n)

\* Deduplication keeps two workers from sending one notification at the same
\* time: only a lost lock does that.
OneSender ==
    NoFault({"lock"}) =>
        \A v, w \in Workers :
            v # w /\ worker[v].pc # "idle" /\ worker[w].pc # "idle" => Target(v) # Target(w)

\* The retry loop of createDeliveryAttempt is entered only when two workers
\* have the same job.
CollisionNeedsLostLock ==
    (\E w \in Workers : worker[w].retry > 0) => ~NoFault({"lock"})

\* A job calls the provider once per configured attempt, and once more for the
\* one stall BullMQ forgives; whatever fails, it does not go on for ever.
AttemptBudget ==
    \A j \in Jobs : Cardinality(CallsOf(j)) <= JobAttempts + MaxStalledCount

\* A recipient gets the message of one job twice only when something failed:
\* every further message is paid for by a fault of its own.
DuplicatesNeedFault ==
    \A j \in Jobs :
        Cardinality({c \in CallsOf(j) : c.accepted}) <=
            1 + faults["crash"] + faults["lock"] + faults["db"] + faults["reply"]

\* After a permanent provider error the job makes no further attempt
\* (UnrecoverableError in the processor), as long as the worker lives and holds
\* its lock until it has reported the error, and the database takes the record of
\* it: an error of that replaces the provider's.
PermanentErrorStops ==
    NoFault({"crash", "lock", "db"}) =>
        \A c, d \in calls :
            c.job = d.job /\ c.error = "permanent" => d.attempt <= c.attempt

\* When the provider's acceptance has come back and been handled, the attempt
\* says SENT (README: "Provider acceptance records SENT"), unless a process has
\* died or the database has failed on the way.
AcceptedIsSent ==
    NoFault({"crash", "db"}) =>
        \A c \in calls :
            /\ Live(c.notif)
            /\ c.error = "none"
            /\ \A w \in Workers :
                worker[w].job = c.job => worker[w].pc \notin {"recordSuccess", "recordFailure"}
            => delivery[c.notif][c.attempt].status = "SENT"

\* An attempt says SENT, and has a provider message id, only if the provider
\* accepted that very attempt.
SentWasAccepted ==
    \A n \in Notifications : \A k \in DOMAIN delivery[n] :
        delivery[n][k].status = "SENT" \/ delivery[n][k].msg =>
            Accepted(n, k)

\* An attempt says FAILED although its message went out only if the reply or
\* a database call was lost.
FailedWasRefused ==
    \A c \in calls :
        Live(c.notif) /\ c.accepted /\ NoFault({"db", "reply"}) =>
            delivery[c.notif][c.attempt].status # "FAILED"

\* The payload an attempt records is the one that was sent, although the
\* notification may be edited between any two steps of the worker.
PayloadMatchesSent ==
    \A c \in calls :
        Live(c.notif) => delivery[c.notif][c.attempt].edition = c.edition

-----------------------------------------------------------------------------
(* Action property                                                         *)

\* The history of attempts is append-only: a sender never changes an attempt
\* that has been closed, not even a worker that comes back from the dead.
ClosedAttemptsStay ==
    [][\A n \in Notifications : \A k \in DOMAIN delivery[n] :
            delivery[n][k].status \in {"SENT", "FAILED"} /\ notification'[n].state = "live"
                => delivery'[n][k] = delivery[n][k]]_vars

-----------------------------------------------------------------------------
(* Why those hold: the inductive invariant.                                *)

\* A job or a request that exists is about a notification that was created, and
\* a busy worker has a job.
JobsAreNamed ==
    /\ \A j \in Jobs : job[j].state # "unused" =>
            job[j].notif \in Notifications /\ notification[job[j].notif].state # "absent"
    /\ \A n \in Notifications : posting[n] > 0 => notification[n].state # "absent"

BusyHasJob ==
    \A w \in Workers : worker[w].pc # "idle" =>
        worker[w].job \in Jobs /\ job[worker[w].job].state # "unused"

\* A worker about to insert has read a number that existed, and from the
\* insertion on, the attempt it is busy with is a row.
InRange(local, last) ==
    /\ local.pc = "insert" => local.last <= last
    /\ local.pc \in {"call", "recordSuccess", "recordFailure"} => local.attempt \in 1 .. last

AttemptExists ==
    \A w \in Workers :
        worker[w].pc # "idle" /\ Live(Target(w)) => InRange(worker[w], LastAttempt(Target(w)))

NothingBeforeCreation == \A n \in Notifications : notification[n].state = "absent" =>
    notification[n] = Absent /\ delivery[n] = <<>>

\* What holds whatever fails.
Shape == TypeOK /\ JobsAreNamed /\ BusyHasJob /\ AttemptExists /\ NothingBeforeCreation

\* Deduplication: one job per notification.
OneJob ==
    \A i, j \in Jobs : Pending(i) /\ Pending(j) /\ job[i].notif = job[j].notif => i = j

\* A busy worker holds the lock on its job.
BusyHolds == \A w \in Workers : worker[w].pc # "idle" => Holds(w)

\* The number read last is still the last one, and the attempt a worker is
\* busy with is the latest and open.
UpToDate(local, last) ==
    /\ local.pc = "insert" => local.last = last
    /\ local.pc \in {"call", "recordSuccess", "recordFailure"} => local.attempt = last

SenderIsCurrent ==
    \A w \in Workers :
        /\ worker[w].retry = 0
        /\ worker[w].pc # "idle" /\ Live(Target(w)) =>
                UpToDate(worker[w], LastAttempt(Target(w)))

\* Deduplication and BullMQ's locks make sending sequential.
Sequential ==
    /\ OneJob
    /\ NoFault({"lock"}) => BusyHolds /\ SenderIsCurrent

\* Every step of the sender, whatever fails, leads from a state like this to
\* another: a shape of tables and locals, one sender at a time, and a status
\* that agrees with the latest attempt.
IndInv == Shape /\ Sequential /\ StatusAgrees

\* The worker has inserted its attempt and not recorded the result yet.
Sending(w) == worker[w].pc \in {"call", "recordSuccess", "recordFailure"}

\* Whatever fails, a lost lock included, the attempt a worker is busy with is a
\* row of its own: open, without a message id, with the text the worker sends.
OwnAttempt ==
    \A w \in Workers : Sending(w) /\ Live(Target(w)) =>
        LET row == delivery[Target(w)][worker[w].attempt]
        IN  row.status = "PROCESSING" /\ ~row.msg /\ row.edition = worker[w].edition

AttemptsApart ==
    \A v, w \in Workers :
        v # w /\ Sending(v) /\ Sending(w) /\ Live(Target(v)) /\ Target(v) = Target(w)
            => worker[v].attempt # worker[w].attempt

\* What was called is an attempt of a notification that was created.
CallsAreNamed ==
    \A c \in calls :
        /\ notification[c.notif].state # "absent"
        /\ Live(c.notif) => c.attempt \in 1 .. LastAttempt(c.notif)

\* A worker records success only after an acceptance.
AnswerWasGiven ==
    \A w \in Workers :
        worker[w].pc = "recordSuccess" => Accepted(Target(w), worker[w].attempt)

\* The rows are a history of the calls, without any assumption on locks: every
\* worker writes to an attempt of its own, which it closes once.
HistoryInv ==
    /\ OwnAttempt
    /\ AttemptsApart
    /\ CallsAreNamed
    /\ AnswerWasGiven
    /\ PayloadMatchesSent
    /\ SentWasAccepted

-----------------------------------------------------------------------------
(* Refinement                                                              *)

\* What a reader sees: the row, and how many attempts there are.
LifecycleView ==
    [n \in Notifications |->
        [state |-> notification[n].state, status |-> notification[n].status,
         attempts |-> LastAttempt(n)]]

Lifecycle == INSTANCE NotificationLifecycle WITH view <- LifecycleView

\* The sending side implements the lifecycle, whatever crashes and is retried,
\* up to the first time a job is handed to two workers.
ImplementsLifecycle ==
    /\ Lifecycle!LifecycleInit
    /\ [][faults'["lock"] = 0 => [Lifecycle!LifecycleNext]_LifecycleView]_vars

-----------------------------------------------------------------------------
(* Liveness, of FairSpec                                                   *)

\* Every job ends, whatever faults happen on the way.
JobsEnd == \A j \in Jobs : Pending(j) ~> ~Pending(j)

\* BullMQ forgives a job one stall (maxStalledCount); the next one ends it
\* wherever it stands, and its notification then keeps the status it had.
StalledTwice == faults["crash"] + faults["lock"] > MaxStalledCount

\* No client waits for ever on PROCESSING, unless a job has stalled twice or the
\* database has failed under the last try of one.
ProcessingEnds ==
    \A n \in Notifications :
        notification[n].status = "PROCESSING" ~>
            (notification[n].status # "PROCESSING" \/ StalledTwice \/ ~NoFault({"db"}))

\* A notification that has been created is attempted (notifications.controller.ts:
\* "and immediately queues its first asynchronous delivery attempt"), unless its
\* job has stalled twice.
EveryNotificationIsAttempted ==
    \A n \in Notifications :
        Live(n) ~> (LastAttempt(n) > 0 \/ ~Live(n) \/ StalledTwice)
=============================================================================
