-------------------------- MODULE NotificationSystem --------------------------
(***************************************************************************)
(* The whole delivery pipeline: the sending side and the tracking side on  *)
(* the same two tables.  A provider reports on messages it has accepted,   *)
(* and the deletion of a notification, which the tracking transactions     *)
(* block by their locks, cascades to the events.                           *)
(***************************************************************************)
EXTENDS DeliveryWorker

CONSTANTS Hooks, Provider, ProviderTypes, MaxReports, MaxAborts, MaxTime

\* What the tracking side and its instance below ask of these constants.
ASSUME SystemProviderAssumption ==
    \/ Provider = "resend" /\ ProviderTypes \subseteq ResendTypes
    \/ Provider = "twilio" /\ ProviderTypes \subseteq TwilioTypes

ASSUME SystemBoundAssumption ==
    MaxReports \in Nat /\ MaxAborts \in Nat /\ MaxTime \in Nat

VARIABLES report, acked, event, hook, aborts

\* The tracking side. Its attempts have no bound of their own, and its texts are
\* those that the notifications of DeliveryWorker may have.
T == INSTANCE DeliveryTrackingAlone WITH Attempts <- Nat, Editions <- 0 .. MaxEdits

trackingVars == <<report, acked, event, hook, aborts>>

sendingVars == <<job, worker, requests, posting, calls, faults>>

systemVars == <<vars, trackingVars>>

\* The tables shared by sender and webhooks keep their types under both.
SystemTypeOK == TypeOK /\ T!TrackingTypeOK

SystemInit == Init /\ T!TrackingInit

SendingStep ==
    /\ \/ \E n \in Notifications : ClientStep(n)
       \/ \E j \in Jobs : QueueStep(j)
       \/ \E w \in Workers : WorkerStep(w) \/ Crash(w)
    /\ UNCHANGED trackingVars

RemoveWithoutEvents(n) == T!Deletable(n) /\ Remove(n) /\ UNCHANGED trackingVars

RemoveTracked(n) ==
    /\ T!Deletable(n)
    /\ Remove(n)
    /\ T!DeleteEvents(n)
    /\ UNCHANGED <<report, acked, hook, aborts>>

ProviderStep ==
    /\ \E n \in Notifications : \E k \in DOMAIN delivery[n], type \in ProviderTypes :
            Accepted(n, k) /\ T!ProviderReports(n, k, type)
    /\ UNCHANGED sendingVars

TrackingStep == T!WebhookStep /\ UNCHANGED sendingVars

SystemNext ==
    \/ SendingStep
    \/ \E n \in Notifications : RemoveTracked(n)
    \/ ProviderStep
    \/ TrackingStep

SystemSpec == SystemInit /\ [][SystemNext]_systemVars

\* A provider sends its report number seq of an attempt again, as long as it has had
\* no 2xx for it.
Redeliver(n, k, seq) ==
    \E h \in Hooks : \E r \in T!ReportsOf(n, k) \ acked :
        r.seq = seq /\ T!Receive(h, r) /\ UNCHANGED sendingVars

\* At most so many attempts are opened by the jobs of a notification.
MostAttempts == MaxRequests * (JobAttempts + MaxStalledCount)

\* Sending is as fair as when it is alone. Of webhooks nothing is assumed here.
SystemFairSpec ==
    /\ SystemSpec
    /\ \A n \in Notifications : WF_systemVars(Enqueue(n) /\ UNCHANGED trackingVars)
    /\ \A j \in Jobs :
        /\ WF_systemVars(Promote(j) /\ UNCHANGED trackingVars)
        /\ WF_systemVars(Stall(j) /\ UNCHANGED trackingVars)
        /\ WF_systemVars((\E w \in Workers : Take(w, j)) /\ UNCHANGED trackingVars)
    /\ \A w \in Workers : WF_systemVars(WorkerStep(w) /\ UNCHANGED trackingVars)

\* The statements of a webhook return, and a provider retries every report until it
\* gets a 2xx for that one.
TrackingFairness ==
    /\ \A h \in Hooks : WF_systemVars(T!HookStep(h) /\ UNCHANGED sendingVars)
    /\ \A n \in Notifications, k \in 1 .. MostAttempts, seq \in 1 .. MaxReports :
        SF_systemVars(Redeliver(n, k, seq))

-----------------------------------------------------------------------------
\* An attempt is DELIVERED, or was closed by the provider, only if a provider
\* accepted that attempt: webhooks never invent a message.
DeliveredWasAccepted ==
    \A n \in Notifications : \A k \in DOMAIN delivery[n] :
        delivery[n][k].status = "DELIVERED" => Accepted(n, k)

\* The sender and the webhooks never fight over an attempt: what a webhook has
\* written there is not overwritten by a worker, even one that comes back late.
WorkersLeaveTracked ==
    [][\A n \in Notifications : \A v \in event :
            /\ v.notif = n
            /\ worker' # worker
            /\ v.attempt \in DOMAIN delivery[n]
            => delivery'[n][v.attempt] = delivery[n][v.attempt]]_systemVars

\* FAILED over a message that was accepted has a reason: the provider reported a
\* failure, or the sender lost a reply or a call of the database.
FailureHasReason ==
    \A c \in calls :
        /\ Live(c.notif) /\ c.accepted /\ NoFault({"db", "reply"})
        /\ delivery[c.notif][c.attempt].status = "FAILED"
        => T!HasEvent(c.notif, c.attempt, T!Failures)

\* What the provider has accepted, and said so, is found by its webhooks once it has
\* been handled, as long as no process dies and the database answers.
AcceptedIsFound ==
    NoFault({"crash", "db"}) =>
        \A c \in calls :
            /\ Live(c.notif)
            /\ c.error = "none"
            /\ \A w \in Workers :
                worker[w].job = c.job => worker[w].pc \notin {"recordSuccess", "recordFailure"}
            => delivery[c.notif][c.attempt].msg

\* What senders and webhooks write together is backed by what happened, in rows of
\* their types.
SystemInv ==
    /\ SystemTypeOK
    /\ DeliveredWasAccepted
    /\ FailureHasReason
    /\ AcceptedIsFound
    /\ T!DeliveredAtIsKnown

\* Handlers, queue and workers are an environment in which the webhooks have been
\* checked alone: whatever fails on the sending side, they open attempts one after
\* the other, close what is open, and let a deletion wait and cascade.
ImplementsTracking == T!Spec

\* The attempts that a provider has reported delivered, which a reader still sees as
\* SENT, and whose message id is on record. AcceptedIsFound says when it is.
Unseen(n) ==
    {k \in DOMAIN delivery[n] :
        /\ delivery[n][k].msg
        /\ delivery[n][k].status = "SENT"
        /\ \E r \in T!ReportsOf(n, k) : T!MeaningOf(r.type).target = "DELIVERED"}

\* End to end: an attempt that the provider reports delivered does not stay SENT, be it
\* the first, a retry or the attempt of a second worker, although the webhook may come
\* before the message id is stored, and is answered with 404 then.
DeliveryIsSeen ==
    TrackingFairness => \A n \in Notifications : (Unseen(n) # {}) ~> (Unseen(n) = {})
=============================================================================
