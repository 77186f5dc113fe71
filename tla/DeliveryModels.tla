--------------------------- MODULE DeliveryModels ---------------------------
(***************************************************************************)
(* The vocabulary of notification delivery and its pure rules: statuses,   *)
(* normalized event types, the transition guards of the tracking service,  *)
(* and what the two webhook services turn a provider's event name into.    *)
(***************************************************************************)
EXTENDS Naturals, FiniteSets

\* delivery-status.ts and notification-status.ts declare the same five values.
DeliveryStatus == {"PENDING", "PROCESSING", "SENT", "DELIVERED", "FAILED"}

NotificationStatus == {"PENDING", "PROCESSING", "SENT", "DELIVERED", "FAILED"}

DeliveryEventType ==
    {"QUEUED", "SENDING", "SENT", "DELIVERED", "FAILED", "DELAYED", "BOUNCED",
     "SUPPRESSED", "COMPLAINED", "OPENED", "CLICKED", "CANCELED", "UNKNOWN"}

\* Only an event of one of these types makes an older event stale.
StateChangingEventTypes ==
    {"SENT", "DELIVERED", "FAILED", "BOUNCED", "SUPPRESSED", "CANCELED"}

-----------------------------------------------------------------------------
\* Wrong forms of the guards, for the checks that must notice them.
CanLeaveFailed(current, target) ==
    /\ current # target
    /\ current # "DELIVERED"
    /\ target = "SENT" => current \in {"PENDING", "PROCESSING"}
    /\ target \in {"SENT", "DELIVERED", "FAILED"}

CanLeaveAnyStatus(current, target) ==
    /\ current # target
    /\ target \in {"SENT", "DELIVERED", "FAILED"}

OnlyBeforeSent(current, target) ==
    /\ current \in {"PENDING", "PROCESSING"}
    /\ target \in {"SENT", "DELIVERED", "FAILED"}

\* canTransitionDelivery: DELIVERED and FAILED are final, and SENT is entered
\* only from a status that precedes it.
CanTransitionDelivery(current, target) ==
    /\ current # target
    /\ current \notin {"DELIVERED", "FAILED"}
    /\ target = "SENT" => current \in {"PENDING", "PROCESSING"}
    /\ target \in {"SENT", "DELIVERED", "FAILED"}

\* canTransitionNotification: the same rule, written a second time in the code.
CanTransitionNotification(current, target) ==
    /\ current # target
    /\ current \notin {"DELIVERED", "FAILED"}
    /\ target = "SENT" => current \in {"PENDING", "PROCESSING"}
    /\ target \in {"SENT", "DELIVERED", "FAILED"}

-----------------------------------------------------------------------------
\* A webhook's meaning: the event type stored, and the status it asks for
\* ("NONE": the event is stored and changes nothing).
Meaning == [eventType : DeliveryEventType,
            target : {"NONE", "SENT", "DELIVERED", "FAILED"}]

Means(eventType, target) == [eventType |-> eventType, target |-> target]

\* mapEvent of the Resend webhook service. A type that is not in the domain
\* is acknowledged without reaching the tracking service.
ResendEvent(type) ==
    CASE type = "email.sent"             -> Means("SENT", "SENT")
      [] type = "email.delivered"        -> Means("DELIVERED", "DELIVERED")
      [] type = "email.bounced"          -> Means("BOUNCED", "FAILED")
      [] type = "email.failed"           -> Means("FAILED", "FAILED")
      [] type = "email.suppressed"       -> Means("SUPPRESSED", "FAILED")
      [] type = "email.delivery_delayed" -> Means("DELAYED", "NONE")
      [] type = "email.complained"       -> Means("COMPLAINED", "NONE")
      [] type = "email.opened"           -> Means("OPENED", "NONE")
      [] type = "email.clicked"          -> Means("CLICKED", "NONE")
      [] type = "email.scheduled"        -> Means("QUEUED", "NONE")

ResendTypes ==
    {"email.sent", "email.delivered", "email.bounced", "email.failed",
     "email.suppressed", "email.delivery_delayed", "email.complained",
     "email.opened", "email.clicked", "email.scheduled"}

\* mapStatus of the Twilio webhook service. Every status is mapped.
TwilioStatus(status) ==
    CASE status \in {"accepted", "queued"}    -> Means("QUEUED", "SENT")
      [] status = "sending"                   -> Means("SENDING", "SENT")
      [] status = "sent"                      -> Means("SENT", "SENT")
      [] status = "delivered"                 -> Means("DELIVERED", "DELIVERED")
      [] status \in {"failed", "undelivered"} -> Means("FAILED", "FAILED")
      [] status = "canceled"                  -> Means("CANCELED", "FAILED")
      [] OTHER                                -> Means("UNKNOWN", "NONE")

TwilioTypes ==
    {"accepted", "queued", "sending", "sent", "delivered", "failed",
     "undelivered", "canceled", "read"}
=============================================================================
