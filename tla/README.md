# Verification of the notification service

This directory holds TLA+ models of the notification service, TLC runs that
check them on small instances, and TLAPS proofs about them for every instance.
All paths are relative to `src/`; `B` stands for
`src/backend_notifications/src/modules/notifications`.

The question behind all of it: a client creates a notification, a queue and a
pool of workers send it through a provider, the provider reports back by
webhook — what may a client believe of the status it reads, when workers crash,
jobs are retried, requests race each other, calls are lost and webhooks come
late, twice and out of order?

## 1. Inventory

### Parts, their state, and how they meet

`A` stands for `src/backend_notifications/src/modules`, `F` for
`src/frontend_notifications/src`.

| Part | Code | State it keeps | Operations that change state |
| --- | --- | --- | --- |
| delivery store | `prisma/models/*.prisma`, migrations | tables `notifications`, `notification_deliveries` (unique on notification and attempt number), `notification_delivery_events` (unique on provider and provider event id); deletes cascade | every transaction below |
| request handlers | `B/notifications.controller.ts`, `B/notifications.service.ts` | none between requests | create, update, send, remove; list and dashboard only read |
| delivery queue | `B/queue/*` | BullMQ jobs in Redis: state, attempts made, deduplication key | `enqueueSend`; BullMQ takes, retries, stalls |
| delivery worker | `B/notification-delivery.service.ts`, `B/queue/notification-queue.processor.ts` | locals of one `send` per job | `send`, `createDeliveryAttempt` |
| senders, providers | `B/senders/*` | Firebase access token cache | one call per attempt, one token request when the cache is stale |
| webhooks | `B/webhooks/*` | none | verify, map, hand to tracking |
| delivery tracking | `B/delivery-tracking/*` | one interactive transaction per webhook | `recordProviderEvent` |
| delivery history | `B/notification-delivery-query.service.ts` | none | reads only |
| users, identities | `A/users/*` | `users`, `user_identities` | register, sign in with an external identity, remove |
| authentication | `A/auth/*`, `common/authorization` | none: tokens and OAuth states are signed, not stored | login, OAuth start and callback, guards |
| configuration | `config/*`, `main.ts` | the environment as validated | start |
| client session | `F/core`, `F/app`, `F/features/auth` | token in session storage, user in the Redux store | start-up, login, logout, 401 answers |
| client queries | `F/features/notifications/{hooks,api}` | TanStack Query cache | polling, invalidation, send, update, remove |
| client push | `F/lib/firebase.ts`, `PushForegroundListener.tsx`, the form | the promise of a registration, the subscription | register, subscribe |
| client list page | `F/features/notifications/pages/NotificationsPage.tsx` | search field and its timer, filters, page | type, filter, turn pages |

The request handlers commit a row and then call the queue. Workers take jobs
and read and write the rows in several transactions, with the provider's call
between two of them. Webhooks find the attempt by the provider message id that
the worker has written, and change the same two rows. Nothing but the database's
own locks and unique keys orders these three. Logins race each other over the
two tables of users in the same way. The client keeps copies of what the server
said, and every answer it gets is older than the moment it is used.

### What is hard

- **No lock spans a send.** Read of the notification, creation of the attempt,
  provider call and record of the result are four calls. A crash, an edit, a
  deletion or another worker fits between any two.
- **At-least-once jobs.** BullMQ retries what throws and what stalls. A worker
  that lost its lock keeps running.
- **The transaction of a webhook reads, judges, and writes by id** under READ
  COMMITTED: what it judged may have changed.
- **Webhooks are unordered and repeated**, and may overtake the transaction
  that makes them recognisable.
- **Errors in error handling**: the success transaction is inside the `try` of
  the provider's call, the failure transaction is in its `catch`.
- **First logins race**: two callbacks both find no account, and a unique key
  decides; the loser must end up with the account of the winner.
- **A request acts on what its guard has read**, while accounts are disabled,
  removed, and their addresses registered anew.
- **Time is read twice**: a token's lifetime is counted by two clocks, an OAuth
  state is dated by one process and judged by another.
- **The client's answers are late**: a 401 of an old token, an answer read before
  a mutation, a callback of a registration that was given up.

The hazards that weigh most are listed, each at its line, under `hazards` in
`PROJECT.json`; the smaller ones that no property covers are named under "Not
modelled".

### What makes each part correct

| Part | Correct means | Stated as |
| --- | --- | --- |
| store | a notification says what its latest attempt says | `StatusAgrees`, `NotificationFollows` |
| queue | one sender per notification; jobs end; bounded calls | `OneSender`, `JobsEnd`, `AttemptBudget` |
| worker | attempts say what happened; history is append-only; a second message needs a fault; a permanent error ends the job | `SentWasAccepted`, `AcceptedIsSent`, `FailedWasRefused`, `PayloadMatchesSent`, `ClosedAttemptsStay`, `DuplicatesNeedFault`, `PermanentErrorStops` |
| handlers | what is created is attempted | `EveryNotificationIsAttempted` |
| tracking | acknowledged means stored, once; outcomes are reported ones, not lost, and taken back by no sender and no later webhook | `AckedIsStored`, `StoredOnce`, `OutcomeWasReported`, `LostOnlyToEarlierRead`, `NoLostOutcome`, `DeliveredUntilResent` |
| pipeline | sender and webhooks do not overwrite each other; waiting ends | `WorkersLeaveTracked`, `SystemInv`, `DeliveryIsSeen`, `ProcessingEnds` |
| providers | only what may pass is retried; a cached token outlasts the margin | `CallsInv` |
| lists, dashboard, history | pages miss nothing that stays; counts and list add up; an empty history is an honest one | `ListInv` |
| users | one account per address and identity; a login finds its own; statement by statement as good as atomic | `AccountsInv`, `SignedInToOwn`, `ImplementsDirectory` |
| authentication | who is banned or removed stays out, whatever tokens are left; a state lives as long as it says | `BannedStaysOut`, `StateInv` |
| configuration | what has started has what it needs, and hears its own callbacks | `ConfigInv` |
| client session | who is shown is who acts; loading ends | `SessionInv`, `NothingLoadsForEver` |
| client queries | never backwards; polled pages catch up; a mutation is seen | `ViewsInv`, `PolledViewsCatchUp`, `MutationIsSeen` |
| client push, list page | nothing is left behind; what has settled is what was chosen | `PushInv`, `PageInv` |

## 2. Modules

```
DeliveryModels           statuses, transition guards, event mappings (pure)
  DeliveryStore          the two shared tables and the transactions on them
    DeliveryWorker       handlers + queue + workers      -> NotificationLifecycle (refined)
      DeliveryWorkerProofs       the invariant on locks, and what follows
        DeliveryHistoryProofs    the invariant on the history of attempts
          DeliveryRefinementProofs   the refinement of NotificationLifecycle
      NotificationSystem worker + tracking on one store  -> DeliveryTrackingAlone (refined)
        NotificationSystemProofs  what each side promises, kept by both together
    DeliveryTracking     webhooks and recordProviderEvent
      DeliveryTrackingAlone   tracking among clients and senders of any kind
        DeliveryTrackingProofs    what holds of it however webhooks interleave
AccountDirectory         users and identities, each operation atomic
  Accounts               requests over them, one statement at a time  -> AccountDirectory (refined)
    AccountsProofs
ProviderCalls, OAuthState, Configuration, NotificationList   the server's smaller parts
  ServerPartsProofs
ClientSession, NotificationViews, PushRegistration, ListPage the web client
  WebClientProofs
MCDeliveryWorker, MCDeliveryTracking, MCNotificationSystem,
MCAccounts, MCServerParts, MCWebClient                       instances for TLC
```

### DeliveryModels

`CanTransitionDelivery` and `CanTransitionNotification` are the two guards of the
tracking service. `ResendEvent` and `TwilioStatus` are what `mapEvent` and
`mapStatus` make of a provider's event: the type stored, and the status asked for.

### DeliveryStore

`notification[n]` is a row or its absence; `delivery[n]` is the sequence of its
attempts, so the index is the attempt number and the unique constraint says that
the next index is free. Each operator is the effect of one committed
transaction: `InsertDelivery`, `MarkSent`, `MarkFailed` and so on.

Abstractions, here and in what builds on it:

- The text of a notification is its `edition`, the number of edits so far: all
  that matters is *which* text was sent. An error message is its presence.
- Timestamps are left out. `deliveredAt` is kept as the attempt whose event set it.
- The provider message id of an attempt is the attempt itself: providers
  generate distinct ids, and the unique index on them is never hit.
- Every query filters by owner. Owners never change, so ownership is constant,
  and the foreign owner's 404 is the 404 of an absent row.
- A commit is atomic and its result is known. A commit that succeeds while its
  acknowledgement is lost is not modelled.

### DeliveryWorker

| Model | Code |
| --- | --- |
| `Create`, `Send`, `Update`, `Remove` | the handlers of `notifications.controller.ts` with the service calls they make; `Create` and `Send` leave `posting[n]` behind, a request that has yet to call the queue |
| `Enqueue`, `EnqueueFails` | `enqueueSend`: `queue.add` with deduplication id `n`, or the request dying first |
| `Take`, `Promote`, `Stall`, `LoseLock` | BullMQ: lock a job, end of backoff, expired lock of a dead or of a slow worker (`maxStalledCount` 1) |
| `Load` | the `findFirst` at the head of `send` |
| `ReadLast`, `InsertAttempt` | `createDeliveryAttempt`: number read, rows written; a taken number is retried at most twice |
| `ProviderAccepts`, `ProviderRefuses`, `ReplyLost` | `dispatcher.send` |
| `RecordSuccess`, `RecordFailure` | the two transactions of `send`; a failing success transaction goes to the `catch` |
| `Settle` | the processor returns or throws, and BullMQ completes, delays or fails the job (`attempts: 3`) |
| `DatabaseFails`, `Crash` | faults |

`worker[w]` is the program counter and the locals of one `send`. `calls` is a
history variable: the provider's side of the story, against which the rows are
judged. `faults` counts what has failed; properties may say "unless a lock was
lost" by reading it. `FaultBudget` bounds each kind separately, so a run says
exactly which failures it covers. A run with a zero budget leaves that fault out.

BullMQ, Redis, PostgreSQL and the providers are not under `src/`; they are
modelled from how the code calls them and marked external in `PROJECT.json`.

### NotificationLifecycle

What a reader of the sending side is promised: attempts open one after the
other, an open attempt reads PROCESSING and closes at most once as SENT or
FAILED. `ImplementsLifecycle` states that `DeliveryWorker` refines it under the
mapping `LifecycleView`, in every step before a lock is lost. After that a late
worker may change the status of a notification whose newer attempt is already
closed, which is a step the lifecycle does not have.

### DeliveryTracking, DeliveryTrackingAlone

A `hook` is one webhook request in flight, and its program counter stands
between two statements of `recordProviderEvent`:

| Model | Code |
| --- | --- |
| `Receive` | verified webhook, `occurredAt` chosen (Resend: from the event; Twilio: the receipt time) |
| `Find` | lookup by provider message id; unknown: 404 |
| `Insert` | `notificationDeliveryEvent.create` and `findFirst` of newer events; a duplicate (P2002) answers 2xx; an event without effect commits here |
| `Update` | `notificationDelivery.update`, then the lookup of the latest attempt |
| `ReadNotification`, `Commit` | read, judge and update the notification, commit |
| `Abort` | anything that rolls the transaction back, including the deadlock with a deletion; no 2xx |

Reads see what is committed at their step; writes appear at the commit and until
then hold locks: the unique key from `Insert` on (`KeyLocked`), the attempt's row
from `Update` on (`RowLocked`), and the foreign key against a deletion
(`Deletable`). Two statements share a step only where delaying the first lets it
see more and decide nothing differently.

A provider reports what became of a message in order (`Phase`): under way, then
an outcome, then reactions of readers. Both outcomes may be reported, as for a
mail that bounces after it was delivered. Any report may be received at any
time, again and again.

`DeliveryTrackingAlone` puts this among clients that create, edit and delete, and
senders that open the next attempt with whatever text they have read and close
any attempt that is still open, in any order (`Attempts` and `Editions` bound
them). It asks less of its environment than the real sender gives, so that the
real one can be shown to be such an environment.

### NotificationSystem

`DeliveryWorker` and `DeliveryTracking` on the same tables. The provider reports
only on messages it has accepted in `calls`. `Remove` is blocked by the locks of
webhook transactions and cascades to events. `ImplementsTracking` says that the
whole is a `DeliveryTrackingAlone` to somebody who sees the tables and the
webhooks only: handlers, queue and workers, whatever fails there, do nothing
that its clients and senders may not do.

### AccountDirectory, Accounts

`Accounts` runs several requests at a time over the tables `users` and
`user_identities`, a database statement per step. An account is `free` before it
is created, `live`, or `removed` for good: ids are generated once.

| Model | Code |
| --- | --- |
| `Create` | `create` of the users service: one insert, whose unique key answers 409 |
| `StartLocal`, `Verify` | `LocalStrategy`: the row by address, then the hash; the two outcomes of Argon2 are both possible |
| `StartGoogle`, `FindIdentity`, `FindByEmail`, `LinkIdentity`, `CreateWithIdentity`, `FindAgain` | `findOrCreateByExternalIdentity`: the lookup before the transaction, the two statements in it, and the lookup in the `catch` |
| `Sign` | `assertActive` on the row that was read, `login` |
| `Admit`, `ReadOnly`, `Remove` | `JwtAuthGuard` with `JwtStrategy`, `RolesGuard`, the handlers |
| `Administer`, `Expire`, `Fail` | external: SQL by an operator, the token's end, a database error |

An uncommitted insert blocks the conflicting ones on its unique key, so an insert
and its commit are one step. `AccountDirectory` promises the same tables with
atomic operations (`Register`, `Attach`, `Open`, `Close`, `Administer`).

### ProviderCalls

One send at a time: `Send`, the token request of Firebase (`IssueToken`,
`ReceiveToken`, `TokenFails`), `ProviderAnswers`. An answer is a status and
whether its body holds an id; `ResendOutcome`, `TwilioOutcome` and
`FirebaseOutcome` are what the three providers make of it. The process counts a
token's lifetime from the time it read before it asked, Google from when it
answered; the clock ticks in between. An answer that cannot be read makes the
Resend client throw, or report an `application_error`: both are retried.

### OAuthState

`Store` and `Verify` of the state store, which keeps nothing: a state is a time
and a signature. Every process has a clock that is off by up to `Skew` and may
restart with another clock and another secret.

### Configuration

`Start` is `validateEnv`: an environment is refused, or normalised and used. The
actions after it read what the providers, the Google guard and the webhooks read
when they run. `Deploy` starts another environment while messages of the last
one still await their callbacks. Twilio signs the URL that was given with the
message; `SignedURL` is what the webhook rebuilds.

### NotificationList

A client that turns pages (`FindPage`, `Count`), the dashboard's two queries,
which run side by side, and the two of the history, each with the rows of its
own moment. Rows are inserted, change status and are deleted at any time. Rows
with equal sort keys come in any order. Search and channel filters act as the
status filter does and are left out.

### ClientSession

One tab with a bearer token: `Load`, `SubmitLogin`, `AskList`, `Logout`, and the
answers. A request carries the token that was stored when it was sent; the
interceptor's `Unauthorized` clears the token that is stored when the answer
comes. `Patient` says whether somebody may log in while the start-up's
`/auth/me` is under way: the login page is reachable then.

### NotificationViews

One query of the cache, followed through all pages and mutations: it is asked,
served (with the server's state of that moment), and the answer lands.
Polling rules are those of the four queries, invalidations those of the three
mutations. TanStack Query is external, modelled from the options the code gives
it: a refetch cancels the one under way, except the first load.

### PushRegistration

The promise of `registerForPushNotifications` with its timer, its listener and
its call, two registrations overlapping; and the subscription of
`PushForegroundListener`, which may arrive after the unmount. Before the timer is
armed (`Start`), the registration waits for the service worker and for the user's
answer to the permission prompt, without a limit; `Refuse` and `Start` may never come.

### ListPage

The text field, the 400 ms timer, filters, the grid's page, and data from the
server or from the cache. A list that shrinks takes the grid to its last page.

## 3. Runs

Deadlock checking is off in every run: a system with no request left and no
job pending rightly stops, and the bounds stop clients and clocks.

| Run | Instance | Shows |
| --- | --- | --- |
| `worker_lock` | 1 notification, 2 workers, 2 jobs, 2 requests, 1 edit, 1 lost lock | numbers collide and are retried, calls stay bounded, closed attempts stay closed and record the text that was sent, an answered acceptance is SENT; until the lock is lost senders are apart and a permanent error ends the job |
| `worker_faults` | 1 notification, 1 worker, 2 jobs, 2 requests; 1 crash, 1 database error, 1 lost reply, 1 lost request | the rows agree and tell only what happened; every further message is paid for by a fault, FAILED over an accepted message needs one; the lifecycle is refined |
| `tracking_resend` | 2 hooks, 3 reports of 4 kinds, 1 attempt, 1 edit, 1 abort | acknowledged is stored; deliveries are not lost; DELIVERED of a notification sent once stays until it is sent again |
| `tracking_twilio` | 2 hooks, 2 attempts, 2 reports of 3 kinds | outcomes are reported ones and show in the notification unless reports contradict each other; only a webhook that had looked the attempt up before replaces one; one status is one event, however often and at whatever time it is called back |
| `system` | 2 workers on one job, 1 crash, 1 lost lock, 1 hook, fairness | webhooks touch only accepted attempts and late workers leave them alone; FAILED over an accepted message was reported; what was answered can be found by its webhooks; the sender is an environment of the tracking side; jobs end, PROCESSING ends, creations are attempted; whichever attempt is reported delivered, the first to the fourth, does not stay SENT |
| `accounts` | 3 accounts, 1 address, 2 Google ids, 2 requests | keys hold; a login finds its own account; who is banned or removed gets in by no request and no login that starts afterwards; the directory is refined |
| `client` | one part of the client per behaviour, fairness | session, views, push and list page |
| `server` | one of the server's smaller parts per behaviour | providers, OAuth state, configuration, lists |

In `client` and `server` the variable `part` of the MC module chooses which part
moves; the others keep an initial state. The parts share no variable, so this is
the union of their state spaces instead of the product.

Four further runs refute what a document, comment or test of the repository says:

| Run | Refutes | How |
| --- | --- | --- |
| `worker_never_attempted` | `EveryNotificationIsAttempted` | the queue call after the committed creation fails, and nothing makes up for it |
| `tracking_final` | `OutcomeIsFinal` | two webhooks judge the same SENT, the second commit overwrites the first outcome |
| `tracking_old` | `OldAttemptKeepsCurrent` | a new attempt opens between the lookup of the latest one and the update of the notification |
| `session_unauthorized` | `ShownIsSignedIn` | a login is submitted while the start-up asks for the old token's user: one answer's 401 clears whatever token is stored when it arrives, the old or the new one, and the other's success shows a user without one |

Each passing property is also known to fail when the code is changed in a
plausible way; those changes are the `mutants` of `PROJECT.json`, and their
definitions stand before the ones they replace.

Other weaknesses that the models show, and that the properties except because no
document promises otherwise:

- When the success transaction fails, the accepted attempt is recorded FAILED and
  the message is sent again (`notification-delivery.service.ts:76`):
  `AcceptedIsSent` speaks of histories without a crash or a failing database, and
  `FailedWasRefused` excepts a lost reply and a failing database.
- An error while a failure is recorded replaces the provider's, so a permanent
  error is retried (line 111): `PermanentErrorStops` excepts histories with a
  database failure.
- A request to send that comes while a job is pending is answered 202 and dropped
  by the deduplication (`notification-queue.producer.ts:61`).
- A job's second stall ends it wherever it is, and PROCESSING stays
  (`StalledTwice`).
- An account that is registered between `FindByEmail` and `CreateWithIdentity`
  turns a Google login into a 409, though a second try would link it.
- Logout keeps the query cache, whose keys do not name the user: `ListsAreOwn` of
  `ClientSession` does not hold.
- A network failure of the Twilio client has no status and counts as permanent;
  with Resend and Firebase it is retried.
- The Firebase token that Google refuses stays cached until its time is over.
- A message that Resend has accepted with an answer that cannot be read is sent again
  (`resend-email.provider.ts:93`): `CallsInv` lets unreadable answers be retried.
- The button that registers the browser for push loads for as long as the service
  worker does not get ready, or the user does not answer the permission prompt: the
  15 seconds of `firebase.ts:65` are counted only afterwards.

### Bounds, and why they are enough

- **Two workers, one notification.** Interference is between two senders of one
  notification, or a sender and a webhook of it. Different notifications share
  only the job pool and the workers; the proofs hold for any number of them.
  Without a lost lock deduplication leaves one sender per notification, so
  `worker_faults` needs one worker only.
- **Two jobs and two requests** per notification give a repeated send during,
  and after, the first one. With three tries per job that is six attempts and more.
- **One fault of a kind.** A single lost lock produces two senders of one job, and
  `worker_faults` has four different faults in one history. The proofs carry every safety property
  of the worker to every number of them.
- **Two hooks** are two concurrent transactions on one attempt, all that the
  guards of the tracking service can be caught between. `MaxReports` 3 gives an
  event before, at and after the outcome, or both outcomes.
  `tracking_twilio` has kinds for under way, delivered and failed, on each of two
  attempts, and no abort: aborts and events without effect are in `tracking_resend`.
- **The composed system** has one hook and reports `email.delivered` only, and no
  edits, since its temporal properties are costly. What more hooks, reports
  and edits could break is safety, and `NotificationSystemProofs` covers
  every number of them. One job opens up to four attempts (`MostAttempts`), and each of
  them can be the one that is reported delivered before it is seen.
- `MaxTime` bounds the receipt times of one message, which for Twilio grow with
  each request: three in `tracking_twilio`, one for each of its two reports and one
  for a repetition.
- Receipt times of one message are distinct: two webhooks in one millisecond
  are not modelled.
- **Accounts.** Two requests are what a unique key decides between. Three
  accounts leave one to register after a removal, two Google ids race for the
  one address. `AccountsProofs` covers every number of each.
- The proofs of `ServerPartsProofs` and `WebClientProofs` cover every value of the
  bounds below. The runs show that the interesting cases exist.
- **ProviderCalls.** A margin of 2, lifetimes of 0 (none or a bad one), 1 (shorter
  than the margin) and 4 in 6 units of time: a token is reused, runs out within
  the margin, and is replaced.
- **OAuthState.** Two processes with clocks one off, a limit of 4 and an allowance
  of 2, 7 units of time: states are judged on both sides of the limit.
- **Configuration.** Every environment that lacks one setting at most, with all
  providers real or none, with a base URL with and without slashes or none.
- **NotificationList.** Four rows in pages of two with inserts and deletions: up to
  two full pages, a page that empties, and a last page that is full.
- **ClientSession.** Two users and two logins: an old and a new token.
- **NotificationViews.** Four versions: creation, the user's change, and two of the
  worker, the second after a retried failure (`MaxRuns` 2).
- **PushRegistration.** Two registrations and two mounts: one that is given up and
  the next.
- **ListPage.** Five rows in pages of two: a page before, at, and beyond the last.

### Fairness, and why the code justifies it

- `SystemFairSpec` is fair to the sending side only. What is assumed of webhooks and
  providers, `TrackingFairness`, is a premise of the one property that needs it,
  `DeliveryIsSeen`.
- `WF` of `Enqueue`, `WorkerStep` and `HookStep`: an `await` of the code returns
  or throws. A provider call, too: the fault-free alternatives are enabled.
- `WF` of `Promote`, `Stall`, and of some worker taking a job: BullMQ's timers run,
  and a free worker takes a waiting job.
- `SF` of `Redeliver` for each report by itself: a provider retries it until it
  gets 2xx for it, however often the server is busy in between, and whatever
  becomes of the reports about other attempts.
- `SessionFairness`: every request of the client is answered, refused or ends
  with the client's 10 second timeout, and its handler runs.
- `ViewsFairness`: a query that polls has a running interval, which assumes that the
  tab is visible and online (TanStack Query pauses intervals otherwise); requests are
  served and land or are lost. Nothing obliges the user to look, click or refocus.
- `PushFairness`: once the timer is armed it fires, and the continuations of the
  promise run. Firebase, the service worker and the user's answer to the permission
  prompt may never come: `NothingLoadsForEver` speaks of the push button only from
  the timer on.
- Clients and faults owe nothing.

Without these the liveness properties would say nothing about the code. BullMQ
gives a job up at its second stall, and its attempt then stays PROCESSING:
`ProcessingEnds` and `EveryNotificationIsAttempted` except exactly that
(`StalledTwice`), and the run `system` has a crash and a lost lock, so that the
exception is reached and the case before it is not excused.

### What the properties do not say

- `DeliveryIsSeen` speaks of attempts whose message id is stored. A worker that dies
  after the provider's acceptance, a lost reply and a failing success transaction
  leave an attempt without one, and the webhooks of that message get 404 for ever.
  `AcceptedIsFound` says when the id is there.
- `EveryNotificationIsAttempted` excepts a failing database, and holds in a run
  without faults of the queue: with one it is refuted (`worker_never_attempted`).
- `DashboardAddsUp` speaks of dashboards between whose two queries nothing is written.
- `DeliveredUntilResent` and `NotificationFollows` speak of a notification that
  was sent once. With two attempts, the webhook of the older one can overwrite
  the status of the newer (`tracking_old`).
- Two webhooks that judge the same SENT overwrite each other's outcome
  (`tracking_final`). `LostOnlyToEarlierRead` bounds the damage: the one that
  overwrites had looked the attempt up before the outcome was written. Notification
  and attempt may then disagree for good, which `NotificationFollows` allows where
  both a delivery and a failure were reported, and nowhere else.
- `StatusAgrees`, `AcceptedIsSent` and `FailedWasRefused` are promises of the sender
  alone. A webhook may rightly turn SENT into FAILED, so in the composed system
  they are not true as they stand. What is left of the last two is in `SystemInv`:
  `FailureHasReason` and `AcceptedIsFound`.
- `NoLostOutcome` is checked for Resend. With two Twilio callbacks in flight,
  the receipt times that order them are not the order of the events, and an
  overtaken "delivered" counts as stale.

## 4. Proofs

For every set of notifications, workers, jobs and webhooks, every bound and
every fault budget:

| Module | Theorem | Says |
| --- | --- | --- |
| `DeliveryWorkerProofs` | `Invariance` | `Spec => []IndInv` |
| | `TypeCorrectness` | `Spec => []TypeOK` |
| | `StatusAgreement` | `Spec => []StatusAgrees` |
| | `SendersApart` | `Spec => []OneSender` |
| | `CollisionsNeedLostLock` | `Spec => []CollisionNeedsLostLock` |
| `DeliveryHistoryProofs` | `HistoryInvariance` | `Spec => [](Shape /\ HistoryInv)` |
| | `SentIsBacked` | `Spec => []SentWasAccepted` |
| | `PayloadIsBacked` | `Spec => []PayloadMatchesSent` |
| | `ClosedStay` | `Spec => ClosedAttemptsStay` |
| | `FailuresAreRefusals` | `Spec => []FailedWasRefused` |
| | `AnswersAreRecorded` | `Spec => []AcceptedIsSent` |
| | `PermanentErrorsEnd` | `Spec => []PermanentErrorStops` |
| | `CallsAreBounded` | `Spec => []AttemptBudget` |
| | `DuplicatesArePaid` | `Spec => []DuplicatesNeedFault` |
| `DeliveryRefinementProofs` | `LifecycleIsImplemented` | `Spec => ImplementsLifecycle` |
| `DeliveryTrackingProofs` | `OutcomesAreReported` | `Spec => [](Inv /\ OutcomeWasReported)` |
| | `TrackingTypes` | `Spec => []TypeOK` |
| | `EventsAreStoredOnce` | `Spec => []StoredOnce` |
| | `AcknowledgedIsStored` | `Spec => []AckedIsStored` |
| | `OutcomesAreKept` | `Spec => []NoLostOutcome`, if `Provider = "resend"` |
| | `DeliveryTimeIsKnown` | `Spec => []DeliveredAtIsKnown` |
| | `DeliveredIsStable` | `Spec => DeliveredUntilResent` |
| | `OutcomesAreLostOnlyToEarlierReads` | `Spec => LostOnlyToEarlierRead` |
| | `NotificationsFollow` | `Spec => []NotificationFollows` |
| `NotificationSystemProofs` | `JointInvariance` | `SystemSpec => []Joint` |
| | `SystemTracks` | `SystemSpec => ImplementsTracking` |
| | `SystemIsSound` | `SystemSpec => []SystemInv` |
| | `SendersLeaveTracked` | `SystemSpec => WorkersLeaveTracked` |
| | `SystemSendsSoundly` | `SystemSpec => []`(seven promises of the sender, below) |
| | `SystemKeepsReports` | `SystemSpec => []`(`StoredOnce`, `AckedIsStored`, `OutcomeWasReported`) |
| | `SystemKeepsOutcomes` | `SystemSpec => []T!NoLostOutcome`, if `Provider = "resend"` |
| | `SystemKeepsDelivered` | `SystemSpec => T!DeliveredUntilResent` |
| | `SystemFollows` | `SystemSpec => T!LostOnlyToEarlierRead /\ []T!NotificationFollows` |
| `AccountsProofs` | `RowsStaySound` | `AccountsSpec => []AccountsInv` |
| | `LoginsFindTheirOwn` | `AccountsSpec => []SignedInToOwn` |
| | `BannedStayOut` | `AccountsSpec => BannedStaysOut` |
| | `DirectoryIsImplemented` | `AccountsSpec => ImplementsDirectory` |
| `ServerPartsProofs` | `CallsAreSound` | `CallsSpec => []CallsInv` |
| | `StatesAreTimely` | `StateSpec => []StateInv` |
| | `SettingsAreComplete` | `ConfigSpec => []ConfigInv` |
| | `QueriesAreSound` | `ListSpec => []ListInv` |
| `WebClientProofs` | `ShownUserActs` | `SessionSpec => []SessionInv` |
| | `ViewsGoForward` | `ViewsSpec => []ViewsInv` |
| | `NothingCallsBack` | `PushSpec => []PushInv` |
| | `SettledPageIsRight` | `PageSpec => []PageInv` |

They assume what the modules assume of their constants, and TLC evaluates it in
every run:

- `DeliveryWorker`: `SentinelAssumption` (`None` is not a worker or a job),
  `BoundAssumption` (bounds are numbers).
- `DeliveryTracking`: `ProviderAssumption` (Resend or Twilio, with reports of its
  own types), `TrackingBoundAssumption`; `DeliveryTrackingAlone`:
  `AttemptAssumption` (attempts and texts are numbers). `NotificationSystem` has
  the same as `SystemProviderAssumption` and `SystemBoundAssumption`.
- `Accounts`, `ClientSession`, `Configuration`: `None` is no id, address, user or
  host; what is deployed is an environment.
- `NotificationList`: finitely many rows, numbered as they are created; pages that
  hold at least one. `ListPage`: the same of its pages, and that no search and no
  filter are choices. `NotificationViews`, `PushRegistration`, `ProviderCalls`,
  `OAuthState`: bounds and times are numbers.

**The status.** "The status agrees with the latest attempt" is not inductive:
a worker that records a result writes to the attempt in its local variable, and
that must still be the latest. That holds because there is no other sender, and
there is no other sender because of two independent mechanisms. The
deduplication key allows one pending job per notification (`OneJob`), and the
job's lock allows one worker per job (`BusyHolds`). So

```
IndInv     == Shape /\ Sequential /\ StatusAgrees
Shape      == types, jobs are about created notifications, a busy worker has a
              job, its attempt is a row, nothing precedes creation
Sequential == OneJob /\ (no lost lock => BusyHolds /\ SenderIsCurrent)
```

`Shape` and `OneJob` hold whatever fails. The rest holds until a lock is lost,
and survives crashes, database errors, lost replies and lost requests. One
lemma per conjunct shows that each action preserves it; frame lemmas cover the
actions that do not touch what a conjunct reads.

**The history.** What an attempt records must hold with lost locks as well, so
its proof may not use locks. It rests on the unique constraint instead: an
attempt is created by the worker that goes on to call and to close it. So

```
HistoryInv == OwnAttempt        the attempt a worker is busy with is open, without
                                message id, with the text the worker sends
           /\ AttemptsApart     two workers never have the same attempt
           /\ CallsAreNamed     calls are about attempts that exist
           /\ AnswerWasGiven    a worker records success after an acceptance
           /\ PayloadMatchesSent /\ SentWasAccepted
```

Only `MarkSent` and `MarkFailed` write to an existing attempt, both to the
worker's own, and `OwnAttempt` says that it is still open: `ClosedAttemptsStay`.

On it rest five further results, each from a strengthening of its own:

- `FailedWasRefused`: an attempt has one call (`CallsOnce`), and a worker that is
  about to record a failure was refused, or lost a reply or a database call
  (`FailureWasRefused`).
- `AcceptedIsSent`: an answer that has come back is in the row or with the worker
  that got it (`AnswerIsKept`).
- `PermanentErrorStops`: while locks hold, calls of a job come in the order of its
  attempts (`CallsInOrder`); after a permanent error nobody but the caller has the
  job, and that worker settles it with this error (`GivenUp`).
- `AttemptBudget` counts: calls of a job, and workers about to make one, are at
  most the times it was taken (`CallsArePaid`), and those are limited by its retries
  and by the one stall that BullMQ forgives (`TriesLeft`).
- `DuplicatesNeedFault` counts: accepted messages of a job, workers that may still
  send one, and the job's own offer to be taken are at most one more than the
  faults so far (`MessagesArePaid`). Only a fault turns an acceptance into another
  offer.

**The refinement** needs both. A worker's record of a result is the lifecycle's
`CloseAttempt` if the notification reads PROCESSING: its attempt is open
(`OwnAttempt`), it is the latest (`SenderIsCurrent`), and the notification says
what the latest attempt says (`StatusAgrees`).

**Tracking.** A step of a webhook is one of two kinds (`HookStepKinds`): a quiet
one, which writes nothing that others see, or a commit, which adds one event and
then the statuses it implies. What has to be shown is that a commit still may do
what its transaction decided from rows it read earlier. So

```
Inv == TypeOK /\ TimesBounded
    /\ ReportsKnown    a report is about a notification that was created
    /\ RowsKnown       an attempt with a message id is SENT, DELIVERED or FAILED,
                       and a deleted notification has no attempts
    /\ EventsBacked    a stored event was reported, about an attempt that exists
    /\ HooksKnown      what a transaction has found still holds (FoundHolds):
                       its attempt, and the event behind an outcome it has read
    /\ KeysApart       two uncommitted inserts never have the same unique key
```

`FoundHolds` needs the locks: an uncommitted insert holds off the deletion of its
attempt's notification. `KeysApart` is what the unique index gives while both
transactions are open, and `StoredOnce` follows when one of them commits. An
outcome in a row was written by a commit that also stored its event, hence
`OutcomeWasReported`. `NoLostOutcome` looks at the event of a delivery that is
not reflected: its transaction found it stale, or the row refused the
transition. With Resend a later report has a later time and no earlier phase
(`ReportsOrdered`), so what made it stale was an outcome as well, and what
refused it had one (`NotAppliedIsKnown`). Twilio's reports are dated when they are
received, and there it need not hold (see "What the properties do not say").

`DeliveredUntilResent` is about what a webhook has read and not locked: the
notification. While a notification has one attempt, whoever writes its status is
a webhook of this attempt, or a sender while the attempt is open
(`StatusWriters`). Between reading the notification and writing it, a webhook
holds the row lock of the attempt, and no two webhooks do (`RowsApart`), so what
it has read holds when it commits (`SeenHolds`). The transition it judged is then
the one it makes, and from DELIVERED there is none. The row lock of the attempt
is what protects the notification, although nothing in the code says so.

The attempt itself is read before it is locked, so what was found need not be there
any more at the commit. What holds is that the transaction still does what it was
allowed to do by what it had found (`StillAllowed`): that was no outcome if the
commit writes one. Hence `LostOnlyToEarlierRead`. A commit that changes the attempt
and leaves the notification alone has read an outcome there (`SeenHolds`), which is
the one it writes, or one that its own event contradicts; and the outcome it has read
was reported, directly or because the attempt had it. Hence `NotificationFollows`.

**The pipeline.** The two sides write the same two tables, and what is proved of
one has to survive the other. Neither gets an assumption about the other: one
induction carries both invariants.

```
Joint == Shape /\ HistoryInv                     of the sending side
      /\ TextsBounded                            editions stay below their bound
      /\ P!Inv /\ P!OutcomeWasReported           of the tracking side
```

From `HistoryInv`, a step of a worker is a move of the tracking side's
environment (`WorkerMoves`): it opens the next attempt, or closes its own, which
is open. From `P!Inv`, a step of a webhook leaves alone what the sender's
invariants are about (`WebhooksTouch`, `WebhooksKeepSender`): it changes only
attempts with a message id, and no open attempt has one. So `SystemSpec` implies
the specification of the tracking side, and its theorems hold of the whole.
`T` and `P` are instances of one module without and with its proofs; the lemmas
`Same...` say that they mean the same.

The rest of the sender's invariants are carried along in the same way
(`SendingInv`): `OneSender`, `CollisionNeedsLostLock`, `AttemptBudget`,
`DuplicatesNeedFault`, `PermanentErrorStops`, `PayloadMatchesSent` and
`SentWasAccepted` hold with webhooks as without. An attempt that is DELIVERED was
reported so, and what is reported was accepted: `DeliveredWasAccepted`.

Two promises of the sender need another form, because webhooks write FAILED and
DELIVERED over its SENT. What stays is the message id. A FAILED without message id
was written by a worker that was refused or had lost something
(`UnreportedWasRefused`), and a FAILED with one was reported: together
`FailureHasReason`. An answer has left its message id in the row or is still with
its worker (`AnswerIsFound`), hence `AcceptedIsFound`: the webhooks of the message
do not get 404.

**Accounts.** `SignedInToOwn` says of a request that is about to sign a token
that the identity is still linked to its account. A request between its lookup
and its insert must know enough to keep that: `Knows` lists what each point of
the code has read, and `LiveHasEmail` that a row it read has an address. The
step of interest is an insert that succeeds: the identity had no account before
(the unique key), so nobody was signed in with it, except by accounts that were
removed (`LinkedKeepsSignedIn`). `BannedStaysOut` looks at one account: a request
that begins to be at work for it has found it active in this very step, by its token
or by its row (`EngagedStep`), since what a request has read changes only when it
reads (`RequestsBecome`); and a token is issued only by a request that was at work
(`TokensStep`). Each insert or removal is then one operation of
`AccountDirectory`, every other statement a stutter.

**Provider calls.** A cached token was good for more than the margin when the
send began (`TokenInUse`), and it was never believed in for longer than Google
does, because its lifetime is counted from before the request. Both together
bound the age of a reused token.

**OAuth state.** Two clocks that are off by `Skew` at most disagree about an age
by twice that (`AgeByTwoClocks`); the rest is the comparison of `Timely`.

**Client session.** With nobody logging in during the start-up, the start-up's
request runs alone (`StartUpAlone`): nothing else is under way that could
replace the token it asks for. Every other answer that shows a user stores the
token it came with, and tokens keep their holders (`AnswersAreTrue`).

**What the pages show.** Nothing that was read is from the future, and an attempt
under way has a run left (`ViewsIndInv`). That an answer which lands is no older
than what is shown follows from the way a refetch cancels the one before it.

**Push.** A subscription is live only while its mount is active and keeps it, and
one mount is active at a time (`PushIndInv`): the cleanup then ends whatever is
live. A registration that has settled has neither timer nor listener
(`RegistrationStep`).

**The list page.** Without a running timer the typed text is the search in effect;
without a request or an error the data on the screen is that of the current
choices (`PageIndInv`). The grid stays within its pages because fewer rows have
no more pages (`LastPageGrows`).

**Configuration.** What is up is valid and has a base URL without slashes; a
message of this deployment came from the provider that is switched on, with the
URL that is checked (`ConfigIndInv`).

**Lists.** In an order of creation a row has one position (`OrderIsPosition`), and
it never moves forward while the list loses no row (`PositionsGrow`). So what a client has not seen of the rows it began with is not
before the page it reads next (`PassOnItsWay`), and when there is no next page,
the pages held all of it (`PagesHoldAll`). A dashboard is right while nothing is
written between its queries (`DashboardIsCurrent`): what it lists is then among
what it counts, and all of it if it fits (`CurrentAddsUp`).

Left to TLC:

- Liveness, since fairness and `ENABLED` are beyond the prover: `JobsEnd`,
  `ProcessingEnds`, `EveryNotificationIsAttempted`, `DeliveryIsSeen`,
  `NothingLoadsForEver`, `PolledViewsCatchUp` and `MutationIsSeen`.
- What is refuted: the four properties of the violation runs.

Every invariant and every safety action property that a passing run checks is
proved, with the hypotheses in the table.

## 5. Not modelled

- Signature algorithms, body parsing and DTO validation: they decide whether a
  request counts, and a model starts from requests that do. Which secret and URL
  decide is in `Configuration`.
- Channel lookup on create and update: it fails before anything is written.
- Password hashing: Argon2 is a library call with two outcomes, both in
  `Accounts`. The signing of tokens likewise.
- The connection set-up of Prisma and Redis, and the translation of database
  errors to HTTP exceptions other than by their effect.
- The cookie transport of the client's session: it needs endpoints that the API
  does not have.
- The creation form of the client: its mutation opens another page, and the query
  of that page starts from an empty cache, as every query in `NotificationViews`
  may. Two tabs that edit one notification: nothing compares versions.
- Rendering: DashboardPage, the login and profile pages, theme, layout and
  translations; Swagger decorators and DTO classes; seed, CI and deployment. None
  of these keeps state beyond what is modelled above.
- Shutdown of the process other than as `Crash`, `Fail` and `Restart`.

## 6. Plan

What is left to do, in order:

1. The sender's lifecycle in the composed system: what a reader is promised of an
   attempt when sender and webhooks both write it, as one abstract specification.
2. More about `DeliveryIsSeen`: its safety part, that a stored delivery event without
   a failure and an attempt that is still SENT do not meet, is `NoLostOutcome`; the
   rest is liveness.
