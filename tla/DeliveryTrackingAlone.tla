------------------------ MODULE DeliveryTrackingAlone ------------------------
(***************************************************************************)
(* The tracking side against an environment that feeds it: clients that    *)
(* create, edit and delete, and senders whose attempts open and close by   *)
(* the transactions of DeliveryStore, at any time and in any order.        *)
(* NotificationSystem implements it: its handlers, queue and workers are   *)
(* such an environment.                                                    *)
(***************************************************************************)
EXTENDS DeliveryTracking

CONSTANTS
    Attempts,               \* bound: attempt numbers
    Editions                \* bound: texts of a notification, and of its attempts

ASSUME AttemptAssumption == Attempts \subseteq Nat /\ Editions \subseteq Nat

vars == <<notification, delivery, report, acked, event, hook, aborts>>

\* Rows, stored events and the state of each webhook request have their types;
\* only what was reported is acknowledged.
TypeOK == StoreTypeOK /\ TrackingTypeOK

Init == StoreInit /\ TrackingInit

Appear(n) == InsertNotification(n) /\ UNCHANGED trackingVars

Edit(n) ==
    /\ notification[n].edition + 1 \in Editions
    /\ EditNotification(n)
    /\ UNCHANGED trackingVars

\* A sender opens the next attempt, with the text it has read.
Open(n, edition) ==
    /\ Live(n)
    /\ LastAttempt(n) + 1 \in Attempts
    /\ InsertDelivery(n, edition)
    /\ UNCHANGED trackingVars

\* A sender closes an attempt that is open, the latest or one before.
Close(n, k) ==
    /\ Live(n)
    /\ delivery[n][k].status = "PROCESSING"
    /\ MarkSent(n, k) \/ MarkFailed(n, k)
    /\ UNCHANGED trackingVars

\* The deletion waits for the webhook transactions that hold the attempts.
Disappear(n) ==
    /\ Deletable(n)
    /\ DeleteNotification(n)
    /\ DeleteEvents(n)
    /\ UNCHANGED <<report, acked, hook, aborts>>

Next ==
    \/ WebhookStep
    \/ \E n \in Notifications : \E k \in DOMAIN delivery[n], type \in ProviderTypes :
            ProviderReports(n, k, type)
    \/ \E n \in Notifications :
            \/ Appear(n) \/ Edit(n) \/ Disappear(n)
            \/ \E edition \in Editions : Open(n, edition)
            \/ \E k \in DOMAIN delivery[n] : Close(n, k)

Spec == Init /\ [][Next]_vars

-----------------------------------------------------------------------------
(* Safety                                                                  *)

StoredFor(n, k) == {v \in event : v.notif = n /\ v.attempt = k}

Failures == {"FAILED", "BOUNCED", "SUPPRESSED", "CANCELED"}

HasEvent(n, k, types) == \E v \in StoredFor(n, k) : v.eventType \in types

\* Webhooks are idempotent: however often a status is called back, and at however
\* many times it is received, it is one row.
StoredOnce ==
    \A u, v \in event : SameMessage(u, v) /\ u.id = v.id => u = v

\* A report that was answered with 2xx, and will not be sent again, has been
\* stored, applied or not (class comment of the tracking service), unless its
\* attempt is gone.
AckedIsStored ==
    \A r \in acked :
        Live(r.notif) => \E v \in event : SameMessage(v, r) /\ v.id = IdOf(r)

\* A client reads DELIVERED only for a notification of which an attempt was
\* reported delivered, and an attempt is changed only by reports about itself.
OutcomeWasReported ==
    \A n \in Notifications :
        /\ notification[n].status = "DELIVERED" =>
                \E k \in DOMAIN delivery[n] : HasEvent(n, k, {"DELIVERED"})
        /\ \A k \in DOMAIN delivery[n] :
                /\ delivery[n][k].status = "DELIVERED" => HasEvent(n, k, {"DELIVERED"})
                /\ delivery[n][k].status = "FAILED" /\ delivery[n][k].msg =>
                        HasEvent(n, k, Failures)

\* deliveredAt is the time of an attempt that was delivered, and is there when
\* the notification is DELIVERED.
DeliveredAtIsKnown ==
    \A n \in Notifications :
        LET k == notification[n].deliveredAt
        IN  /\ notification[n].status = "DELIVERED" => k > 0
            /\ k > 0 => HasEvent(n, k, {"DELIVERED"})

\* When a delivery has been reported and stored, and no failure has, the attempt
\* does not stay SENT: no interleaving, retry or duplicate loses the outcome.
NoLostOutcome ==
    \A n \in Notifications : \A k \in DOMAIN delivery[n] :
        HasEvent(n, k, {"DELIVERED"}) /\ ~HasEvent(n, k, Failures)
            => delivery[n][k].status = "DELIVERED"

\* The notification is as far as its attempt: when the attempt has an outcome, a
\* client who polls the notification sees it too, until it is sent again. Only
\* reports that contradict each other can leave the two apart.
NotificationFollows ==
    \A n \in Notifications :
        Live(n) /\ LastAttempt(n) = 1 =>
            \/ notification[n].status = delivery[n][1].status
            \/ HasEvent(n, 1, {"DELIVERED"}) /\ HasEvent(n, 1, Failures)

-----------------------------------------------------------------------------
(* Action properties                                                       *)

\* DELIVERED and FAILED are final for an attempt
\* (notification-delivery-tracking.service.spec.ts: "should not transition a
\* DELIVERED delivery to FAILED").
OutcomeIsFinal ==
    [][\A n \in Notifications : \A k \in DOMAIN delivery[n] :
            delivery[n][k].status \in {"DELIVERED", "FAILED"} /\ notification'[n].state = "live"
                => delivery'[n][k].status = delivery[n][k].status]_vars

\* An outcome of an attempt is never taken back by a sender, nor by a webhook that
\* could have known it: whoever replaces it had looked the attempt up before the
\* outcome was written, and holds a contradicting report.
LostOnlyToEarlierRead ==
    [][\A n \in Notifications : \A k \in DOMAIN delivery[n] :
            /\ delivery[n][k].status \in {"DELIVERED", "FAILED"}
            /\ notification'[n].state = "live"
            /\ delivery'[n][k].status # delivery[n][k].status
            => \E h \in Hooks :
                    /\ hook[h].report.notif = n /\ hook[h].report.attempt = k
                    /\ hook[h].pc # "idle" /\ hook'[h].pc = "idle"
                    /\ hook[h].found \notin {"DELIVERED", "FAILED"}
                    /\ delivery'[n][k].status = MeantBy(h).target]_vars

\* A report about an attempt that is no longer the latest leaves the
\* notification alone (notification-delivery-tracking.service.spec.ts: "should
\* update an old delivery attempt without changing the current notification
\* status").
OldAttemptKeepsCurrent ==
    [][\A v \in event' \ event :
            v.attempt < LastAttempt(v.notif) =>
                notification'[v.notif] = notification[v.notif]]_vars

\* A reader who has seen DELIVERED of a notification sent once sees it until it is
\* sent again or deleted, although two webhooks may both have read SENT before.
DeliveredUntilResent ==
    [][\A n \in Notifications :
            notification[n].status = "DELIVERED" /\ Len(delivery[n]) = 1 =>
                \/ notification'[n].status = "DELIVERED"
                \/ Len(delivery'[n]) # Len(delivery[n])]_vars
=============================================================================
