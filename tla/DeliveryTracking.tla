-------------------------- MODULE DeliveryTracking --------------------------
(***************************************************************************)
(* The tracking side: a provider reports what became of a message, its     *)
(* webhook is received, and recordProviderEvent of                         *)
(* notification-delivery-tracking.service.ts runs it as one interactive    *)
(* transaction under READ COMMITTED.  A hook is one webhook request in     *)
(* flight.  Every read of the transaction is a step of its own and sees    *)
(* what has been committed by then; its writes are published together at   *)
(* the commit; until then they only make others wait for their locks:      *)
(*   - the unique key of the event, from its insertion on;                 *)
(*   - the row of the attempt, from its update on (other updates wait),    *)
(*     and from the insertion on against deletion (foreign key).           *)
(* Adjacent statements are one step where the second can only see more     *)
(* because the first is delayed.                                           *)
(***************************************************************************)
EXTENDS DeliveryStore, FiniteSetsExt

CONSTANTS
    Hooks,              \* webhook requests that can be in flight at a time
    Provider,           \* "resend" or "twilio"
    ProviderTypes,      \* the provider's names of the events it reports
    MaxReports,         \* bound: reports per message
    MaxAborts,          \* bound: webhook transactions that fail
    MaxTime             \* bound: receipt times on one message

ASSUME ProviderAssumption ==
    \/ Provider = "resend" /\ ProviderTypes \subseteq ResendTypes
    \/ Provider = "twilio" /\ ProviderTypes \subseteq TwilioTypes

ASSUME TrackingBoundAssumption ==
    MaxReports \in Nat /\ MaxAborts \in Nat /\ MaxTime \in Nat

VARIABLES
    report,             \* what the provider has reported, each report once
    acked,              \* the reports a webhook has answered with 2xx
    event,              \* the committed rows of notification_delivery_events
    hook,               \* the state of each webhook request
    aborts              \* how many webhook transactions have failed

trackingVars == <<report, acked, event, hook, aborts>>

\* The attempt of a notification stands for the provider's message id.
Report == [notif : Notifications, attempt : Nat, seq : Nat, type : ProviderTypes]

\* provider_event_id: Resend's svix-id names the report; for Twilio the service
\* builds twilio:<sid>:<status>.
EventId == [type : ProviderTypes, seq : Nat]

EventRow ==
    [notif : Notifications, attempt : Nat, id : EventId,
     eventType : DeliveryEventType, at : Nat]

NoReport == [notif |-> "none", attempt |-> 0, seq |-> 0, type |-> "none"]

HookRecord ==
    [pc : {"idle", "find", "insert", "update", "readNotification", "commit"},
     report : Report \cup {NoReport}, at : Nat, found : DeliveryStatus,
     seen : NotificationStatus]

NoHook ==
    [pc |-> "idle", report |-> NoReport, at |-> 0, found |-> "PENDING", seen |-> "PENDING"]

TrackingTypeOK ==
    /\ report \subseteq Report
    /\ acked \subseteq report
    /\ event \subseteq EventRow
    /\ hook \in [Hooks -> HookRecord]
    /\ aborts \in 0 .. MaxAborts

TrackingInit ==
    /\ report = {}
    /\ acked = {}
    /\ event = {}
    /\ hook = [h \in Hooks |-> NoHook]
    /\ aborts = 0

-----------------------------------------------------------------------------
(* The provider (external).                                                *)

MeaningOf(type) == IF Provider = "resend" THEN ResendEvent(type) ELSE TwilioStatus(type)

\* A message is first under way, then has an outcome, then readers react to it.
Phase(type) ==
    LET m == MeaningOf(type)
    IN  CASE m.target \in {"DELIVERED", "FAILED"} -> 2
          [] m.eventType \in {"QUEUED", "SENDING", "SENT", "DELAYED"} -> 1
          [] OTHER -> 3

ReportsOf(n, k) == {r \in report : r.notif = n /\ r.attempt = k}

\* The provider reports on an attempt it has accepted: one whose worker has not
\* recorded the answer yet, or has recorded a message id.
ProviderReports(n, k, type) ==
    LET seq == Cardinality(ReportsOf(n, k)) + 1
    IN  /\ seq <= MaxReports
        /\ delivery[n][k].status = "PROCESSING" \/ delivery[n][k].msg
        /\ \A r \in ReportsOf(n, k) : Phase(r.type) <= Phase(type)
        /\ report' = report \cup
                {[notif |-> n, attempt |-> k, seq |-> seq, type |-> type]}
        /\ UNCHANGED <<notification, delivery, acked, event, hook, aborts>>

-----------------------------------------------------------------------------
(* The webhook services.                                                   *)

SameMessage(r, s) == r.notif = s.notif /\ r.attempt = s.attempt

IdOf(r) == [type |-> r.type, seq |-> IF Provider = "twilio" THEN 0 ELSE r.seq]

\* Receipt times on one message only grow.
Latest(r) ==
    Max({0} \cup {v.at : v \in {x \in event : SameMessage(x, r)}}
            \cup {hook[g].at : g \in {x \in Hooks : SameMessage(hook[x].report, r)}})

\* occurredAt: Resend's created_at, which follows the order of the reports;
\* for Twilio the time at which this server handles the webhook.
OccurredAt(r) == IF Provider = "twilio" THEN Latest(r) + 1 ELSE r.seq

\* A verified webhook arrives: a first delivery, a retry, or a duplicate.
Receive(h, r) ==
    /\ hook[h].pc = "idle"
    /\ r \in report
    /\ OccurredAt(r) <= MaxTime
    /\ hook' = [hook EXCEPT ![h] =
            [NoHook EXCEPT !.pc = "find", !.report = r, !.at = OccurredAt(r)]]
    /\ UNCHANGED <<notification, delivery, report, acked, event, aborts>>

-----------------------------------------------------------------------------
(* recordProviderEvent.                                                    *)

Done(h) == hook' = [hook EXCEPT ![h] = NoHook]

Acknowledge(h) == acked' = acked \cup {hook[h].report}

NotFoundIsFine(h) == Done(h) /\ Acknowledge(h)

\* An unknown message id is answered with 404, so that the provider tries again.
NotFound(h) == Done(h) /\ UNCHANGED acked

\* Lookup by provider and providerMessageId.
Find(h) ==
    LET n == hook[h].report.notif
        k == hook[h].report.attempt
        found == k \in DOMAIN delivery[n] /\ delivery[n][k].msg
    IN  /\ hook[h].pc = "find"
        /\ \/ /\ found
              /\ hook' = [hook EXCEPT ![h].pc = "insert", ![h].found = delivery[n][k].status]
              /\ UNCHANGED acked
           \/ /\ ~found
              /\ NotFound(h)
        /\ UNCHANGED <<notification, delivery, report, event, aborts>>

MeantBy(h) == MeaningOf(hook[h].report.type)

EventOf(h) ==
    LET r == hook[h].report
    IN  [notif |-> r.notif, attempt |-> r.attempt, id |-> IdOf(r),
         eventType |-> MeantBy(h).eventType, at |-> hook[h].at]

StoreAgain(h) == FALSE

\* The unique key (provider, provider_event_id) is taken.
Stored(h) ==
    \E v \in event : SameMessage(v, hook[h].report) /\ v.id = IdOf(hook[h].report)

\* The requests whose insertion is not committed yet.
Uncommitted == {g \in Hooks : hook[g].pc \in {"update", "readNotification", "commit"}}

NeverLocked(h) == FALSE

\* Their unique key and row locks.
KeyLocked(h) ==
    \E g \in Uncommitted :
        /\ SameMessage(hook[g].report, hook[h].report)
        /\ IdOf(hook[g].report) = IdOf(hook[h].report)

RowLocked(h) ==
    \E g \in Uncommitted :
        hook[g].pc # "update" /\ SameMessage(hook[g].report, hook[h].report)

\* Deleting a notification waits for them, and cascades to the events.
Deletable(n) == ~ \E g \in Uncommitted : hook[g].report.notif = n

DeleteEvents(n) == event' = {v \in event : v.notif # n}

AnyNewerEvent(h) ==
    \E v \in event : SameMessage(v, hook[h].report) /\ v.at > hook[h].at

\* A newer state-changing event of this attempt is already there.
Stale(h) ==
    \E v \in event :
        /\ SameMessage(v, hook[h].report)
        /\ v.at > hook[h].at
        /\ v.eventType \in StateChangingEventTypes

\* The event asks for a status, is not stale, and the status read at the
\* beginning of the transaction may change to it.
Applies(h) ==
    /\ MeantBy(h).target # "NONE"
    /\ ~Stale(h)
    /\ CanTransitionDelivery(hook[h].found, MeantBy(h).target)

CommitEvent(h) ==
    /\ event' = event \cup {EventOf(h)}
    /\ Acknowledge(h)
    /\ Done(h)

ForgetEvent(h) ==
    /\ UNCHANGED <<event, notification, delivery>>
    /\ Acknowledge(h)
    /\ Done(h)

CommitEventOnly(h) == CommitEvent(h) /\ UNCHANGED storeVars

\* Insert the event and look for newer ones. A duplicate is acknowledged, the
\* foreign key of a deleted attempt is an error, and an event that does not
\* apply is all that is committed.
Insert(h) ==
    LET r == hook[h].report
    IN  /\ hook[h].pc = "insert"
        /\ ~KeyLocked(h)
        /\ \/ /\ Stored(h)
              /\ Acknowledge(h)
              /\ Done(h)
              /\ UNCHANGED <<notification, delivery, event>>
           \/ /\ ~Stored(h)
              /\ ~Live(r.notif)
              /\ Done(h)
              /\ UNCHANGED <<notification, delivery, event, acked>>
           \/ /\ ~Stored(h)
              /\ Live(r.notif)
              /\ ~Applies(h)
              /\ CommitEventOnly(h)
           \/ /\ ~Stored(h)
              /\ Live(r.notif)
              /\ Applies(h)
              /\ hook' = [hook EXCEPT ![h].pc = "update"]
              /\ UNCHANGED <<notification, delivery, event, acked>>
        /\ UNCHANGED <<report, aborts>>

\* What the update of the attempt writes: by id, whatever the row says now.
Tracked(row, target) ==
    [row EXCEPT !.status = target,
                !.error = CASE target = "DELIVERED" -> FALSE
                            [] target = "FAILED" -> TRUE
                            [] OTHER -> @]

UpdateLatest(h) ==
    LET r == hook[h].report
    IN  delivery' = [delivery EXCEPT
            ![r.notif][LastAttempt(r.notif)] = Tracked(@, MeantBy(h).target)]

UpdateDelivery(h) ==
    LET r == hook[h].report
    IN  delivery' = [delivery EXCEPT
            ![r.notif][r.attempt] = Tracked(@, MeantBy(h).target)]

IsLatestAttempt(r) == r.attempt = LastAttempt(r.notif)

\* Update the attempt, which waits for its row lock, and read which attempt is
\* the latest. The event of an older one leaves the notification alone.
Update(h) ==
    LET r == hook[h].report
    IN  /\ hook[h].pc = "update"
        /\ ~RowLocked(h)
        /\ \/ /\ IsLatestAttempt(r)
              /\ hook' = [hook EXCEPT ![h].pc = "readNotification"]
              /\ UNCHANGED <<notification, delivery, event, acked>>
           \/ /\ ~IsLatestAttempt(r)
              /\ UpdateDelivery(h)
              /\ CommitEvent(h)
              /\ UNCHANGED notification
        /\ UNCHANGED <<report, aborts>>

\* Read the status the notification has now.
ReadNotification(h) ==
    /\ hook[h].pc = "readNotification"
    /\ hook' = [hook EXCEPT ![h].pc = "commit",
                            ![h].seen = notification[hook[h].report.notif].status]
    /\ UNCHANGED <<notification, delivery, report, acked, event, aborts>>

\* notification.deliveredAt ?? occurredAt, when the target is DELIVERED.
FirstDelivered(time, target, k) == IF target = "DELIVERED" /\ time = 0 THEN k ELSE time

\* Update the notification if the status just read allows it, and commit.
UpdateNotification(h) ==
    LET r == hook[h].report
        target == MeantBy(h).target
    IN  IF CanTransitionNotification(hook[h].seen, target)
        THEN notification' = [notification EXCEPT
                ![r.notif].status = target,
                ![r.notif].error = CASE target = "DELIVERED" -> FALSE
                                     [] target = "FAILED" -> TRUE
                                     [] OTHER -> @,
                ![r.notif].deliveredAt = FirstDelivered(@, target, r.attempt)]
        ELSE UNCHANGED notification

Commit(h) ==
    /\ hook[h].pc = "commit"
    /\ UpdateDelivery(h)
    /\ UpdateNotification(h)
    /\ CommitEvent(h)
    /\ UNCHANGED <<report, aborts>>

\* The transaction fails at any of its calls (an error, its timeout, a deadlock
\* with a deletion, a dying process): everything is rolled back, no 2xx.
Abort(h) ==
    /\ hook[h].pc # "idle"
    /\ aborts < MaxAborts
    /\ aborts' = aborts + 1
    /\ Done(h)
    /\ UNCHANGED <<notification, delivery, report, acked, event>>

HookStep(h) ==
    \/ Find(h)
    \/ Insert(h)
    \/ Update(h)
    \/ ReadNotification(h)
    \/ Commit(h)

WebhookStep ==
    \E h \in Hooks : HookStep(h) \/ Abort(h) \/ \E r \in report : Receive(h, r)
=============================================================================
