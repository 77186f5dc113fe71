---------------------------- MODULE DeliveryStore ----------------------------
(***************************************************************************)
(* The two tables the sender and the webhooks share, and the effect of     *)
(* every transaction that the request handlers and the sender commit on    *)
(* them.  A notification's attempts are the rows of a sequence: the        *)
(* attempt number is the index, so the unique constraint on                *)
(* (notification_id, attempt_number) is "the next index is still free".    *)
(*                                                                         *)
(* Abstracted: the text of a notification is its edition (how often it has *)
(* been edited), an error message is its presence, a timestamp is left out *)
(* except deliveredAt, which is the attempt whose DELIVERED event wrote it *)
(* (0: null).  Ownership is constant: every query carries the owner's id.  *)
(***************************************************************************)
EXTENDS DeliveryModels, Sequences

CONSTANT Notifications      \* the notifications clients may create

VARIABLES
    notification,           \* the row of each notification
    delivery                \* its delivery attempts, in attempt order

storeVars == <<notification, delivery>>

NotificationRow ==
    [state : {"absent", "live", "deleted"}, status : NotificationStatus,
     error : BOOLEAN, edition : Nat, deliveredAt : Nat]

DeliveryRow ==
    [status : DeliveryStatus, error : BOOLEAN, edition : Nat, msg : BOOLEAN]

Absent ==
    [state |-> "absent", status |-> "PENDING", error |-> FALSE,
     edition |-> 0, deliveredAt |-> 0]

StoreTypeOK ==
    /\ notification \in [Notifications -> NotificationRow]
    /\ delivery \in [Notifications -> Seq(DeliveryRow)]

StoreInit ==
    /\ notification = [n \in Notifications |-> Absent]
    /\ delivery = [n \in Notifications |-> <<>>]

\* The row is there: what a query by id and owner finds.
Live(n) == notification[n].state = "live"

\* findFirst ordered by attemptNumber desc: the highest number, 0 if none.
LastAttempt(n) == Len(delivery[n])

-----------------------------------------------------------------------------
\* notification.create: the database defaults the status to PENDING.
InsertNotification(n) ==
    /\ notification[n].state = "absent"
    /\ notification' = [notification EXCEPT ![n].state = "live"]
    /\ UNCHANGED delivery

\* notification.update with the editable fields: the status is not one.
EditNotification(n) ==
    /\ Live(n)
    /\ notification' = [notification EXCEPT ![n].edition = @ + 1]
    /\ UNCHANGED delivery

\* notification.delete: the foreign keys cascade to the attempts.
DeleteNotification(n) ==
    /\ Live(n)
    /\ notification' = [notification EXCEPT ![n] = [Absent EXCEPT !.state = "deleted"]]
    /\ delivery' = [delivery EXCEPT ![n] = <<>>]

InsertCurrentText(n, edition) ==
    /\ delivery' = [delivery EXCEPT ![n] =
            Append(@, [status |-> "PROCESSING", error |-> FALSE,
                       edition |-> notification[n].edition, msg |-> FALSE])]
    /\ notification' = [notification EXCEPT ![n].status = "PROCESSING",
                                            ![n].error = FALSE]

InsertDeliveryOnly(n, edition) ==
    /\ delivery' = [delivery EXCEPT ![n] =
            Append(@, [status |-> "PROCESSING", error |-> FALSE,
                       edition |-> edition, msg |-> FALSE])]
    /\ UNCHANGED notification

\* The transaction of createDeliveryAttempt, once the number is known to be
\* free: a PROCESSING attempt holding what is about to be sent, and the
\* notification PROCESSING without error.
InsertDelivery(n, edition) ==
    /\ delivery' = [delivery EXCEPT ![n] =
            Append(@, [status |-> "PROCESSING", error |-> FALSE,
                       edition |-> edition, msg |-> FALSE])]
    /\ notification' = [notification EXCEPT ![n].status = "PROCESSING",
                                            ![n].error = FALSE]

MarkSentNotification(n, k) ==
    /\ notification' = [notification EXCEPT ![n].status = "SENT",
                                            ![n].error = FALSE]
    /\ UNCHANGED delivery

\* The success transaction of send: attempt k and the notification are SENT.
MarkSent(n, k) ==
    /\ delivery' = [delivery EXCEPT ![n][k].status = "SENT",
                                    ![n][k].error = FALSE,
                                    ![n][k].msg = TRUE]
    /\ notification' = [notification EXCEPT ![n].status = "SENT",
                                            ![n].error = FALSE]

MarkFailedWithoutError(n, k) ==
    /\ delivery' = [delivery EXCEPT ![n][k].status = "FAILED",
                                    ![n][k].error = TRUE]
    /\ notification' = [notification EXCEPT ![n].status = "FAILED"]

MarkLastFailed(n, k) ==
    /\ delivery' = [delivery EXCEPT ![n][Len(delivery[n])].status = "FAILED",
                                    ![n][Len(delivery[n])].error = TRUE]
    /\ notification' = [notification EXCEPT ![n].status = "FAILED",
                                            ![n].error = TRUE]

\* The failure transaction of send: both are FAILED, with the error.
MarkFailed(n, k) ==
    /\ delivery' = [delivery EXCEPT ![n][k].status = "FAILED",
                                    ![n][k].error = TRUE]
    /\ notification' = [notification EXCEPT ![n].status = "FAILED",
                                            ![n].error = TRUE]
=============================================================================
