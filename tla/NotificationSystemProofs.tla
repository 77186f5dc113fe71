---------------------- MODULE NotificationSystemProofs ----------------------
(***************************************************************************)
(* The whole pipeline: the sending side is an environment in which the     *)
(* webhooks have been verified alone, so that what is proved of each side  *)
(* holds of both together.  The two sides share rows, and neither is given *)
(* an assumption about the other: that a worker closes only what is open,  *)
(* and that a webhook touches only what has a message id, is proved in one *)
(* induction.                                                              *)
(***************************************************************************)
EXTENDS NotificationSystem, DeliveryHistoryProofs

\* The tracking side with its proofs; T is the same without them.
P == INSTANCE DeliveryTrackingProofs WITH Attempts <- Nat, Editions <- 0 .. MaxEdits

\* The texts of the tracking side bound the editions there are.
TextsBounded ==
    /\ \A n \in Notifications : notification[n].edition <= MaxEdits
    /\ \A w \in Workers : worker[w].edition <= MaxEdits

\* The inductive invariant: what is known of the sending side, whatever fails
\* there, and of the tracking side.
Joint ==
    /\ Shape
    /\ HistoryInv
    /\ TextsBounded
    /\ P!Inv
    /\ P!OutcomeWasReported

-----------------------------------------------------------------------------
(* T and P are instances of one module.                                    *)

\* The constants are as the tracking side asks.
LEMMA TrackingAssumptions ==
    /\ P!ProviderAssumption
    /\ P!TrackingBoundAssumption
    /\ P!AttemptAssumption
  <1>1. P!ResendTypes = ResendTypes /\ P!TwilioTypes = TwilioTypes
    BY DEF P!ResendTypes, P!TwilioTypes, ResendTypes, TwilioTypes
  <1> QED
    BY <1>1, SystemProviderAssumption, SystemBoundAssumption, BoundAssumption
       DEF P!ProviderAssumption, P!TrackingBoundAssumption, P!AttemptAssumption

LEMMA SameMeaning ==
    ASSUME NEW type
    PROVE  P!MeaningOf(type) = T!MeaningOf(type) /\ P!Phase(type) = T!Phase(type)
  <1>1. P!MeaningOf(type) = T!MeaningOf(type)
    BY DEF P!MeaningOf, T!MeaningOf, P!ResendEvent, T!ResendEvent, P!TwilioStatus,
           T!TwilioStatus, P!Means, T!Means
  <1> QED
    BY <1>1 DEF P!Phase, T!Phase

LEMMA SameCardinality ==
    ASSUME NEW S
    PROVE  P!Cardinality(S) = T!Cardinality(S)
  BY DEF P!Cardinality, T!Cardinality

LEMMA SameReports ==
    ASSUME NEW n, NEW k, NEW type
    PROVE  P!ProviderReports(n, k, type) <=> T!ProviderReports(n, k, type)
  BY SameMeaning, SameCardinality
     DEF P!ProviderReports, T!ProviderReports, P!ReportsOf, T!ReportsOf

LEMMA SameReceive ==
    ASSUME NEW h, NEW r
    PROVE  P!Receive(h, r) <=> T!Receive(h, r)
  BY DEF P!Receive, T!Receive, P!OccurredAt, T!OccurredAt, P!Latest, T!Latest, P!Max, T!Max,
         P!SameMessage, T!SameMessage, P!NoHook, T!NoHook, P!NoReport, T!NoReport

\* The conditions that the statements of a webhook check.
LEMMA SameConditions ==
    ASSUME NEW h
    PROVE  /\ P!MeantBy(h) = T!MeantBy(h)
           /\ P!Stored(h) <=> T!Stored(h)
           /\ P!KeyLocked(h) <=> T!KeyLocked(h)
           /\ P!RowLocked(h) <=> T!RowLocked(h)
           /\ P!Applies(h) <=> T!Applies(h)
           /\ P!EventOf(h) = T!EventOf(h)
  <1>1. P!MeantBy(h) = T!MeantBy(h)
    BY SameMeaning DEF P!MeantBy, T!MeantBy
  <1>2. P!Stored(h) <=> T!Stored(h)
    BY DEF P!Stored, T!Stored, P!SameMessage, T!SameMessage, P!IdOf, T!IdOf
  <1>3. P!KeyLocked(h) <=> T!KeyLocked(h)
    BY DEF P!KeyLocked, T!KeyLocked, P!SameMessage, T!SameMessage, P!IdOf, T!IdOf,
           P!Uncommitted, T!Uncommitted
  <1>4. P!RowLocked(h) <=> T!RowLocked(h)
    BY DEF P!RowLocked, T!RowLocked, P!SameMessage, T!SameMessage, P!Uncommitted, T!Uncommitted
  <1>5. P!Applies(h) <=> T!Applies(h)
    BY <1>1 DEF P!Applies, T!Applies, P!Stale, T!Stale, P!SameMessage, T!SameMessage,
                P!StateChangingEventTypes, T!StateChangingEventTypes,
                P!CanTransitionDelivery, T!CanTransitionDelivery
  <1>6. P!EventOf(h) = T!EventOf(h)
    BY <1>1 DEF P!EventOf, T!EventOf, P!IdOf, T!IdOf
  <1> QED
    BY <1>1, <1>2, <1>3, <1>4, <1>5, <1>6

\* The writes that they publish.
LEMMA SameWrites ==
    ASSUME NEW h
    PROVE  /\ P!Done(h) <=> T!Done(h)
           /\ P!Acknowledge(h) <=> T!Acknowledge(h)
           /\ P!CommitEvent(h) <=> T!CommitEvent(h)
           /\ P!UpdateDelivery(h) <=> T!UpdateDelivery(h)
           /\ P!UpdateNotification(h) <=> T!UpdateNotification(h)
  <1>1. /\ P!Done(h) <=> T!Done(h)
        /\ P!Acknowledge(h) <=> T!Acknowledge(h)
    BY DEF P!Done, T!Done, P!NoHook, T!NoHook, P!NoReport, T!NoReport,
           P!Acknowledge, T!Acknowledge
  <1>2. P!CommitEvent(h) <=> T!CommitEvent(h)
    BY <1>1, SameConditions DEF P!CommitEvent, T!CommitEvent
  <1>3. P!UpdateDelivery(h) <=> T!UpdateDelivery(h)
    BY SameConditions DEF P!UpdateDelivery, T!UpdateDelivery, P!Tracked, T!Tracked
  <1>4. P!UpdateNotification(h) <=> T!UpdateNotification(h)
    BY DEF P!UpdateNotification, T!UpdateNotification, P!FirstDelivered, T!FirstDelivered,
           P!CanTransitionNotification, T!CanTransitionNotification, P!MeantBy, T!MeantBy,
           P!MeaningOf, T!MeaningOf, P!ResendEvent, T!ResendEvent, P!TwilioStatus,
           T!TwilioStatus, P!Means, T!Means
  <1> QED
    BY <1>1, <1>2, <1>3, <1>4

LEMMA SameWebhooks == P!WebhookStep <=> T!WebhookStep
  <1> SUFFICES ASSUME NEW h \in Hooks
               PROVE  (P!HookStep(h) <=> T!HookStep(h)) /\ (P!Abort(h) <=> T!Abort(h))
    BY SameReceive DEF P!WebhookStep, T!WebhookStep
  <1>1. P!Find(h) <=> T!Find(h)
    BY SameWrites DEF P!Find, T!Find, P!NotFound, T!NotFound
  <1>2. P!Insert(h) <=> T!Insert(h)
    BY SameWrites, SameConditions
       DEF P!Insert, T!Insert, P!Live, T!Live, P!CommitEventOnly, T!CommitEventOnly,
           P!storeVars, T!storeVars
  <1>3. P!Update(h) <=> T!Update(h)
    BY SameWrites, SameConditions
       DEF P!Update, T!Update, P!IsLatestAttempt, T!IsLatestAttempt, P!LastAttempt, T!LastAttempt
  <1>4. P!ReadNotification(h) <=> T!ReadNotification(h)
    BY DEF P!ReadNotification, T!ReadNotification
  <1>5. P!Commit(h) <=> T!Commit(h)
    BY SameWrites DEF P!Commit, T!Commit
  <1>6. P!Abort(h) <=> T!Abort(h)
    BY SameWrites DEF P!Abort, T!Abort
  <1> QED
    BY <1>1, <1>2, <1>3, <1>4, <1>5, <1>6 DEF P!HookStep, T!HookStep

\* The environment.
LEMMA SameMoves ==
    ASSUME NEW n
    PROVE  /\ P!Appear(n) <=> T!Appear(n)
           /\ P!Edit(n) <=> T!Edit(n)
           /\ P!Disappear(n) <=> T!Disappear(n)
           /\ \A edition : P!Open(n, edition) <=> T!Open(n, edition)
           /\ \A k : P!Close(n, k) <=> T!Close(n, k)
  <1>1. P!Appear(n) <=> T!Appear(n)
    BY DEF P!Appear, T!Appear, P!InsertNotification, T!InsertNotification,
           P!trackingVars, T!trackingVars
  <1>2. P!Edit(n) <=> T!Edit(n)
    BY DEF P!Edit, T!Edit, P!EditNotification, T!EditNotification, P!Live, T!Live,
           P!trackingVars, T!trackingVars
  <1>3. P!Disappear(n) <=> T!Disappear(n)
    BY DEF P!Disappear, T!Disappear, P!Deletable, T!Deletable, P!Uncommitted, T!Uncommitted,
           P!DeleteNotification, T!DeleteNotification, P!Live, T!Live, P!Absent, T!Absent,
           P!DeleteEvents, T!DeleteEvents
  <1>4. ASSUME NEW edition
        PROVE  P!Open(n, edition) <=> T!Open(n, edition)
    BY DEF P!Open, T!Open, P!Live, T!Live, P!LastAttempt, T!LastAttempt,
           P!InsertDelivery, T!InsertDelivery, P!trackingVars, T!trackingVars
  <1>5. ASSUME NEW k
        PROVE  P!Close(n, k) <=> T!Close(n, k)
    BY DEF P!Close, T!Close, P!Live, T!Live, P!MarkSent, T!MarkSent,
           P!MarkFailed, T!MarkFailed, P!trackingVars, T!trackingVars
  <1> QED
    BY <1>1, <1>2, <1>3, <1>4, <1>5

\* So the two specifications are one.
LEMMA SameSpec == P!Spec <=> T!Spec
  <1>1. P!Init <=> T!Init
    BY DEF P!Init, T!Init, P!StoreInit, T!StoreInit, P!Absent, T!Absent,
           P!TrackingInit, T!TrackingInit, P!NoHook, T!NoHook, P!NoReport, T!NoReport
  <1>2. [P!Next]_P!vars <=> [T!Next]_T!vars
    <2>1. P!Next <=> T!Next
      BY SameWebhooks, SameReports, SameMoves DEF P!Next, T!Next
    <2> QED
      BY <2>1 DEF P!vars, T!vars
  <1> QED
    BY <1>1, <1>2, PTL DEF P!Spec, T!Spec

-----------------------------------------------------------------------------
(* Each side's steps, seen from the other.                                 *)

\* A sender's step opens an attempt, closes one of its own that is open, or does
\* not touch the rows.
LEMMA WorkerMoves ==
    ASSUME Shape, HistoryInv, TextsBounded, NEW w \in Workers, WorkerStep(w),
           UNCHANGED trackingVars
    PROVE  [P!Next]_P!vars
  <1>1. CASE UNCHANGED storeVars
    BY <1>1 DEF storeVars, trackingVars, P!vars
  <1>2. CASE ~UNCHANGED storeVars
    <2>1. \/ InsertAttempt(w)
          \/ /\ RecordSuccess(w) \/ RecordFailure(w)
             /\ worker[w].pc \in {"recordSuccess", "recordFailure"}
             /\ Live(Target(w))
      BY <1>2 DEF WorkerStep, Load, ReadLast, ProviderAccepts, ProviderRefuses, ReplyLost,
                  CallProvider, RecordSuccess, RecordFailure, DatabaseFails, Settle, storeVars
    <2>2. PICK n \in Notifications : n = Target(w)
      BY <2>1, TargetExists DEF InsertAttempt
    <2>3. CASE InsertAttempt(w)
      <3>1. Live(n) /\ InsertDelivery(n, worker[w].edition)
        BY <1>2, <2>2, <2>3 DEF InsertAttempt
      <3>2. worker[w].edition \in 0 .. MaxEdits
        BY BoundAssumption DEF Shape, TypeOK, WorkerRecord, TextsBounded
      <3>3. LastAttempt(n) + 1 \in Nat
        BY DEF Shape, TypeOK, StoreTypeOK, LastAttempt
      <3>4. P!Open(n, worker[w].edition)
        BY <3>1, <3>3 DEF P!Open, P!Live, Live, P!LastAttempt, LastAttempt,
                          P!InsertDelivery, InsertDelivery, P!trackingVars, trackingVars
      <3> QED
        BY <3>2, <3>4 DEF P!Next
    <2>4. CASE /\ RecordSuccess(w) \/ RecordFailure(w)
               /\ worker[w].pc \in {"recordSuccess", "recordFailure"}
               /\ Live(Target(w))
      <3> DEFINE k == worker[w].attempt
      <3>1. delivery[n][k].status = "PROCESSING"
        BY <2>2, <2>4 DEF HistoryInv, OwnAttempt, Sending
      <3>2. k \in DOMAIN delivery[n]
        <4>1. k \in 1 .. Len(delivery[n])
          BY <2>2, <2>4 DEF Shape, AttemptExists, InRange, LastAttempt
        <4>2. delivery[n] \in Seq(DeliveryRow)
          BY DEF Shape, TypeOK, StoreTypeOK
        <4> QED
          BY <4>1, <4>2
      <3>3. MarkSent(n, k) \/ MarkFailed(n, k)
        BY <2>2, <2>4 DEF RecordSuccess, RecordFailure
      <3>4. P!Close(n, k)
        BY <2>2, <2>4, <3>1, <3>3
           DEF P!Close, P!Live, Live, P!MarkSent, MarkSent, P!MarkFailed, MarkFailed,
               P!trackingVars, trackingVars
      <3> QED
        BY <3>2, <3>4 DEF P!Next
    <2> QED
      BY <2>1, <2>3, <2>4
  <1> QED
    BY <1>1, <1>2

\* To the webhooks, every step of the system is one of theirs, of the environment
\* in which they were verified, or nothing.
LEMMA EveryStepIsKnown ==
    ASSUME Shape, HistoryInv, TextsBounded, [SystemNext]_systemVars
    PROVE  [P!Next]_P!vars
  <1>1. CASE UNCHANGED systemVars
    BY <1>1 DEF systemVars, vars, trackingVars, P!vars
  <1>2. ASSUME NEW n \in Notifications, ClientStep(n), UNCHANGED trackingVars
        PROVE  [P!Next]_P!vars
    <2>1. CASE Create(n)
      <3>1. P!Appear(n)
        BY <1>2, <2>1 DEF Create, InsertNotification, P!Appear, P!InsertNotification,
                          P!trackingVars, trackingVars
      <3> QED
        BY <3>1 DEF P!Next
    <2>2. CASE Update(n)
      <3>1. notification[n].edition + 1 \in 0 .. MaxEdits
        BY <2>2, BoundAssumption DEF Update, Shape, TypeOK, StoreTypeOK, NotificationRow
      <3>2. P!Edit(n)
        BY <1>2, <2>2, <3>1 DEF Update, EditNotification, P!Edit, P!EditNotification,
                                Live, P!Live, P!trackingVars, trackingVars
      <3> QED
        BY <3>2 DEF P!Next
    <2>3. CASE Send(n) \/ Enqueue(n) \/ EnqueueFails(n)
      BY <1>2, <2>3 DEF Send, Enqueue, EnqueueFails, storeVars, trackingVars, P!vars
    <2> QED
      BY <1>2, <2>1, <2>2, <2>3 DEF ClientStep
  <1>3. ASSUME UNCHANGED trackingVars,
               \/ \E j \in Jobs : QueueStep(j)
               \/ \E w \in Workers : Crash(w)
        PROVE  [P!Next]_P!vars
    BY <1>3 DEF QueueStep, Promote, Stall, LoseLock, Take, Crash, trackingVars, P!vars
  <1>4. ASSUME NEW n \in Notifications, RemoveTracked(n)
        PROVE  [P!Next]_P!vars
    <2>1. P!Disappear(n)
      BY <1>4 DEF RemoveTracked, Remove, DeleteNotification, Live, Absent, T!Deletable,
                  T!Uncommitted, T!DeleteEvents, P!Disappear, P!DeleteNotification, P!Live,
                  P!Absent, P!Deletable, P!Uncommitted, P!DeleteEvents
    <2> QED
      BY <2>1 DEF P!Next
  <1>5. CASE ProviderStep
    BY <1>5, SameReports DEF ProviderStep, P!Next
  <1>6. CASE TrackingStep
    BY <1>6, SameWebhooks DEF TrackingStep, P!Next
  <1> QED
    BY <1>1, <1>2, <1>3, <1>4, <1>5, <1>6, WorkerMoves DEF SystemNext, SendingStep

\* To the sender, a webhook or provider changes the outcome of a notification,
\* and attempts that have a message id.
LEMMA WebhooksTouch ==
    ASSUME P!Inv, ProviderStep \/ TrackingStep
    PROVE  /\ StoreTypeOK'
           /\ \A n \in Notifications :
                 /\ DOMAIN delivery'[n] = DOMAIN delivery[n]
                 /\ notification'[n].state = notification[n].state
                 /\ notification'[n].edition = notification[n].edition
                 /\ ~Live(n) => notification'[n] = notification[n]
                 /\ delivery[n] = <<>> => delivery'[n] = <<>>
                 /\ \A k \in DOMAIN delivery[n] :
                       \/ delivery'[n][k] = delivery[n][k]
                       \/ /\ delivery[n][k].msg /\ delivery'[n][k].msg
                          /\ delivery'[n][k].edition = delivery[n][k].edition
  <1>1. \/ P!WebhookStep
        \/ \E n \in Notifications : \E k \in DOMAIN delivery[n], type \in ProviderTypes :
               P!ProviderReports(n, k, type)
    BY SameReports, SameWebhooks DEF ProviderStep, TrackingStep
  <1>2. /\ P!StoreTypeOK'
        /\ \A n \in Notifications :
              /\ DOMAIN delivery'[n] = DOMAIN delivery[n]
              /\ notification'[n].state = notification[n].state
              /\ notification'[n].edition = notification[n].edition
              /\ ~P!Live(n) => notification'[n] = notification[n]
              /\ delivery[n] = <<>> => delivery'[n] = <<>>
              /\ \A k \in DOMAIN delivery[n] :
                    \/ delivery'[n][k] = delivery[n][k]
                    \/ /\ delivery[n][k].msg /\ delivery'[n][k].msg
                       /\ delivery'[n][k].edition = delivery[n][k].edition
    BY <1>1, TrackingAssumptions, P!WebhookEffect
  <1>3. P!StoreTypeOK' => StoreTypeOK'
    BY DEF P!StoreTypeOK, StoreTypeOK, P!NotificationRow, NotificationRow,
           P!NotificationStatus, NotificationStatus, P!DeliveryRow, DeliveryRow,
           P!DeliveryStatus, DeliveryStatus
  <1> QED
    BY <1>2, <1>3 DEF P!Live, Live

-----------------------------------------------------------------------------
(* The induction.                                                          *)

\* Webhooks leave the sending side as it is: they never touch an attempt whose
\* sender has not recorded an answer.
LEMMA WebhooksKeepSender ==
    ASSUME Shape, HistoryInv, P!Inv, ProviderStep \/ TrackingStep
    PROVE  Shape' /\ HistoryInv'
  <1>1. UNCHANGED <<job, worker, requests, posting, calls, faults>>
    BY DEF ProviderStep, TrackingStep, sendingVars
  <1>2. StoreTypeOK'
    BY WebhooksTouch
  <1>3. ASSUME NEW n \in Notifications
        PROVE  /\ DOMAIN delivery'[n] = DOMAIN delivery[n]
               /\ notification'[n].state = notification[n].state
               /\ ~Live(n) => notification'[n] = notification[n]
               /\ delivery[n] = <<>> => delivery'[n] = <<>>
               /\ \A k \in DOMAIN delivery[n] :
                     \/ delivery'[n][k] = delivery[n][k]
                     \/ /\ delivery[n][k].msg /\ delivery'[n][k].msg
                        /\ delivery'[n][k].edition = delivery[n][k].edition
    BY WebhooksTouch
  <1>4. ASSUME NEW n \in Notifications
        PROVE  /\ LastAttempt(n)' = LastAttempt(n)
               /\ Live(n)' <=> Live(n)
               /\ DOMAIN delivery[n] = 1 .. LastAttempt(n)
    <2>1. StoreTypeOK
      BY DEF Shape, TypeOK
    <2> QED
      BY <1>2, <1>3, <2>1 DEF StoreTypeOK, LastAttempt, Live
  <1>5. \A w \in Workers : worker[w].pc # "idle" => Target(w) \in Notifications
    BY TargetExists
  <1>6. \A w \in Workers : Target(w)' = Target(w)
    BY <1>1 DEF Target
  <1>7. Shape'
    <2>1. TypeOK'
      BY <1>1, <1>2 DEF Shape, TypeOK
    <2>2. JobsAreNamed' /\ BusyHasJob'
      BY <1>1, <1>3 DEF Shape, JobsAreNamed, BusyHasJob
    <2>3. AttemptExists'
      BY <1>1, <1>4, <1>5, <1>6 DEF Shape, AttemptExists
    <2>4. NothingBeforeCreation'
      BY <1>3 DEF Shape, NothingBeforeCreation, Live
    <2> QED
      BY <2>1, <2>2, <2>3, <2>4 DEF Shape
  <1>8. OwnAttempt'
    <2> SUFFICES ASSUME NEW w \in Workers, Sending(w), Live(Target(w))
                 PROVE  delivery'[Target(w)][worker[w].attempt] =
                            delivery[Target(w)][worker[w].attempt]
      BY <1>1, <1>4, <1>5, <1>6 DEF HistoryInv, OwnAttempt, Sending
    <2>1. Target(w) \in Notifications
      BY <1>5 DEF Sending
    <2>2. worker[w].attempt \in 1 .. LastAttempt(Target(w))
      BY DEF Sending, Shape, AttemptExists, InRange
    <2>3. ~delivery[Target(w)][worker[w].attempt].msg
      BY DEF HistoryInv, OwnAttempt
    <2> QED
      BY ZenonT(40), <1>3, <1>4, <2>1, <2>2, <2>3
  <1>9. AttemptsApart' /\ AnswerWasGiven'
    BY <1>1, <1>4, <1>5, <1>6 DEF HistoryInv, AttemptsApart, AnswerWasGiven, Sending, Accepted
  <1>10. \A c \in calls : c.notif \in Notifications
    BY DEF Shape, TypeOK, Call
  <1>11. CallsAreNamed'
    BY <1>1, <1>3, <1>4, <1>10 DEF HistoryInv, CallsAreNamed
  <1>12. PayloadMatchesSent'
    <2> SUFFICES ASSUME NEW c \in calls, Live(c.notif)
                 PROVE  delivery'[c.notif][c.attempt].edition = delivery[c.notif][c.attempt].edition
      BY <1>1, <1>4, <1>10 DEF HistoryInv, PayloadMatchesSent
    <2>1. c.attempt \in 1 .. LastAttempt(c.notif)
      BY DEF HistoryInv, CallsAreNamed
    <2>2. PICK n \in Notifications : n = c.notif
      BY <1>10
    <2>3. c.attempt \in DOMAIN delivery[n]
      BY <1>4, <2>1, <2>2
    <2>4. \A k \in DOMAIN delivery[n] : delivery'[n][k].edition = delivery[n][k].edition
      BY <1>3
    <2> QED
      BY <2>2, <2>3, <2>4
  <1>13. SentWasAccepted'
    BY <1>1, <1>3 DEF HistoryInv, SentWasAccepted, Accepted
  <1> QED
    BY <1>7, <1>8, <1>9, <1>11, <1>12, <1>13 DEF HistoryInv

\* What the sending side does in a step of the system.
LEMMA SendersNext ==
    ASSUME [SystemNext]_systemVars
    PROVE  [Next]_vars \/ ProviderStep \/ TrackingStep
  BY DEF SystemNext, systemVars, SendingStep, Next, RemoveTracked

\* A text is the one a client has written, or the one a worker has read.
LEMMA TextsStep ==
    ASSUME Shape, TextsBounded, P!Inv, [SystemNext]_systemVars
    PROVE  TextsBounded'
  <1>1. /\ MaxEdits \in Nat
        /\ notification \in [Notifications -> NotificationRow]
        /\ worker \in [Workers -> WorkerRecord]
    BY BoundAssumption DEF Shape, TypeOK, StoreTypeOK
  <1>2. CASE ProviderStep \/ TrackingStep
    <2>1. worker' = worker
      BY <1>2 DEF ProviderStep, TrackingStep, sendingVars
    <2>2. \A n \in Notifications : notification'[n].edition = notification[n].edition
      BY <1>2, WebhooksTouch
    <2> QED
      BY <2>1, <2>2 DEF TextsBounded
  <1>3. ASSUME [Next]_vars
        PROVE  \A n \in Notifications : notification'[n].edition <= MaxEdits
    <2> SUFFICES ASSUME NEW n \in Notifications
                 PROVE  notification'[n].edition <= MaxEdits
      OBVIOUS
    <2>1. notification[n].edition <= MaxEdits /\ notification[n].edition \in Nat
      BY <1>1 DEF TextsBounded, NotificationRow
    <2>2. CASE notification' = notification
      BY <2>1, <2>2
    <2>3. ASSUME NEW m \in Notifications, ClientStep(m) \/ Remove(m)
          PROVE  notification'[n].edition <= MaxEdits
      <3>1. CASE Create(m)
        BY <1>1, <2>1, <3>1 DEF Create, InsertNotification, NotificationRow
      <3>2. CASE Update(m)
        BY <1>1, <2>1, <3>2 DEF Update, EditNotification, NotificationRow
      <3>3. CASE Remove(m)
        BY <1>1, <2>1, <3>3 DEF Remove, DeleteNotification, Absent
      <3>4. CASE Send(m) \/ Enqueue(m) \/ EnqueueFails(m)
        BY <2>2, <3>4 DEF Send, Enqueue, EnqueueFails, storeVars
      <3> QED
        BY <2>3, <3>1, <3>2, <3>3, <3>4 DEF ClientStep
    <2>4. ASSUME \/ \E j \in Jobs : QueueStep(j)
                 \/ \E w \in Workers : Crash(w) \/ Settle(w)
          PROVE  notification'[n].edition <= MaxEdits
      BY <2>2, <2>4 DEF QueueStep, Promote, Stall, LoseLock, Take, Crash, Settle
    <2>5. ASSUME NEW w \in Workers, WorkerStep(w), ~Settle(w)
          PROVE  notification'[n].edition <= MaxEdits
      <3>1. PICK m \in Notifications : m = Target(w)
        BY <2>5, StepOfOne, TargetExists
      <3>2. \/ notification' = notification
            \/ InsertDelivery(m, worker[w].edition)
            \/ MarkSent(m, worker[w].attempt)
            \/ MarkFailed(m, worker[w].attempt)
        BY <2>5, <3>1 DEF WorkerStep, Load, ReadLast, InsertAttempt, ProviderAccepts,
                          ProviderRefuses, ReplyLost, CallProvider, RecordSuccess,
                          RecordFailure, DatabaseFails, storeVars
      <3>3. \/ notification' = notification
            \/ \E status, error :
                  notification' = [notification EXCEPT ![m].status = status, ![m].error = error]
        BY <3>2 DEF InsertDelivery, MarkSent, MarkFailed
      <3>4. ASSUME NEW status, NEW error,
                   notification' = [notification EXCEPT ![m].status = status, ![m].error = error]
            PROVE  notification'[n].edition = notification[n].edition
        <4>1. CASE m = n
          <5>1. notification'[n] = [notification[n] EXCEPT !.status = status, !.error = error]
            BY <1>1, <3>4, <4>1
          <5> QED
            BY <5>1
        <4>2. CASE m # n
          BY <1>1, <3>4, <4>2
        <4> QED
          BY <4>1, <4>2
      <3> QED
        BY <2>1, <2>2, <3>3, <3>4
    <2> QED
      BY <1>3, <2>2, <2>3, <2>4, <2>5 DEF Next, vars
  <1>4. ASSUME [Next]_vars
        PROVE  \A w \in Workers : worker'[w].edition <= MaxEdits
    <2> SUFFICES ASSUME NEW w \in Workers
                 PROVE  worker'[w].edition <= MaxEdits
      OBVIOUS
    <2>1. worker[w].edition <= MaxEdits /\ worker[w].edition \in Nat
      BY <1>1 DEF TextsBounded, WorkerRecord
    <2>2. CASE worker'[w] = worker[w]
      BY <2>1, <2>2
    <2>3. ASSUME NEW v \in Workers, NEW j \in Jobs, Take(v, j)
          PROVE  worker'[w].edition <= MaxEdits
      BY <1>1, <2>1, <2>3 DEF Take, Idle
    <2>4. ASSUME NEW v \in Workers, Crash(v) \/ Settle(v)
          PROVE  worker'[w].edition <= MaxEdits
      BY <1>1, <2>1, <2>4 DEF Crash, Settle, Idle
    <2>5. ASSUME NEW v \in Workers, WorkerStep(v), ~Settle(v)
          PROVE  worker'[w].edition <= MaxEdits
      <3>1. CASE v # w
        BY <2>2, <2>5, <3>1, StepOfOne
      <3>2. CASE v = w /\ Load(v)
        <4>1. Target(w) \in Notifications
          BY <3>2, TargetExists DEF Load
        <4>2. notification[Target(w)].edition <= MaxEdits
          BY <4>1 DEF TextsBounded
        <4> QED
          BY <1>1, <2>1, <3>2, <4>2 DEF Load, Throw, WorkerRecord
      <3>3. CASE v = w /\ ~Load(v)
        <4>1. worker'[w].edition = worker[w].edition
          BY <1>1, <2>5, <3>3
             DEF WorkerStep, ReadLast, InsertAttempt, ProviderAccepts, ProviderRefuses,
                 ReplyLost, CallProvider, RecordSuccess, RecordFailure, DatabaseFails,
                 Throw, Goto, WorkerRecord
        <4> QED
          BY <2>1, <4>1
      <3> QED
        BY <3>1, <3>2, <3>3
    <2>6. CASE worker' = worker
      BY <2>1, <2>6
    <2>7. ASSUME NEW n \in Notifications, ClientStep(n) \/ Remove(n)
          PROVE  worker' = worker
      BY <2>7 DEF ClientStep, Create, Send, Post, Update, Enqueue, EnqueueFails, Remove
    <2>8. ASSUME NEW j \in Jobs, QueueStep(j)
          PROVE  worker'[w].edition <= MaxEdits
      BY <2>3, <2>6, <2>8 DEF QueueStep, Promote, Stall, LoseLock
    <2> QED
      BY <1>4, <2>4, <2>5, <2>6, <2>7, <2>8 DEF Next, vars
  <1> QED
    BY <1>2, <1>3, <1>4, SendersNext DEF TextsBounded

\* Everything holds at first.
LEMMA JointInit ==
    ASSUME SystemInit
    PROVE  Joint /\ P!Init
  <1>1. P!Init
    BY DEF SystemInit, Init, P!Init, StoreInit, P!StoreInit, Absent, P!Absent, T!TrackingInit,
           P!TrackingInit, T!NoHook, P!NoHook, T!NoReport, P!NoReport
  <1>2. P!Inv /\ P!OutcomeWasReported
    BY <1>1, TrackingAssumptions, P!Start
  <1>3. Shape /\ HistoryInv
    BY ShapeInit, HistoryInit DEF SystemInit
  <1>4. TextsBounded
    BY BoundAssumption DEF SystemInit, Init, StoreInit, TextsBounded, Absent, Idle
  <1> QED
    BY <1>1, <1>2, <1>3, <1>4 DEF Joint

\* Every step of either side keeps it.
LEMMA JointStep ==
    ASSUME Joint, [SystemNext]_systemVars
    PROVE  Joint'
  <1>1. [P!Next]_P!vars
    BY EveryStepIsKnown DEF Joint
  <1>2. P!Inv' /\ P!OutcomeWasReported'
    BY <1>1, TrackingAssumptions, P!InvStep, P!OutcomeStep DEF Joint
  <1>3. Shape' /\ HistoryInv'
    BY SendersNext, ShapeStep, HistoryStep, WebhooksKeepSender DEF Joint
  <1>4. TextsBounded'
    BY TextsStep DEF Joint
  <1> QED
    BY <1>2, <1>3, <1>4 DEF Joint

\* The two sides together keep what each keeps alone.
THEOREM JointInvariance == SystemSpec => []Joint
  <1>1. SystemInit => Joint
    BY JointInit
  <1>2. Joint /\ [SystemNext]_systemVars => Joint'
    BY JointStep
  <1> QED
    BY <1>1, <1>2, PTL DEF SystemSpec

\* Request handlers, queue and workers, whatever fails there, are an environment
\* in which the webhooks were verified.
THEOREM SystemTracks == SystemSpec => ImplementsTracking
  <1>1. SystemInit => P!Init
    BY JointInit
  <1>2. Joint /\ [SystemNext]_systemVars => [P!Next]_P!vars
    BY EveryStepIsKnown DEF Joint
  <1>3. SystemSpec => P!Spec
    BY <1>1, <1>2, JointInvariance, PTL DEF SystemSpec, P!Spec
  <1> QED
    BY <1>3, SameSpec DEF ImplementsTracking

-----------------------------------------------------------------------------
(* What follows for the pipeline.                                          *)

\* What is proved of the webhooks alone holds when the real senders feed them.
LEMMA SystemIsTracked == SystemSpec => P!Spec
  BY SystemTracks, SameSpec DEF ImplementsTracking

-----------------------------------------------------------------------------
(* What the rows say of the calls.                                         *)

\* An accepted attempt that says FAILED without a message id was recorded so by
\* its sender, who had lost something.
UnreportedWasRefused ==
    \A c \in calls :
        /\ Live(c.notif) /\ c.accepted /\ NoFault({"db", "reply"})
        /\ delivery[c.notif][c.attempt].status = "FAILED"
        => delivery[c.notif][c.attempt].msg

\* An answer has left its message id in the row, or is still with its worker.
AnswerIsFound ==
    \A c \in calls : c.error = "none" /\ Live(c.notif) =>
        \/ delivery[c.notif][c.attempt].msg
        \/ \E w \in Workers :
                /\ worker[w].pc = "recordSuccess"
                /\ worker[w].job = c.job
                /\ Target(w) = c.notif
                /\ worker[w].attempt = c.attempt

RecordsInv ==
    /\ RefusalInv
    /\ UnreportedWasRefused
    /\ NoFault({"crash", "db"}) => AnswerIsFound

\* A call is about an attempt that is there as long as its notification.
LEMMA CalledAttempt ==
    ASSUME Shape, HistoryInv, NEW c \in calls
    PROVE  /\ c.notif \in Notifications /\ notification[c.notif].state # "absent"
           /\ Live(c.notif) => /\ c.attempt \in 1 .. LastAttempt(c.notif)
                               /\ c.attempt \in DOMAIN delivery[c.notif]
  <1>1. c.notif \in Notifications /\ StoreTypeOK
    BY DEF Shape, TypeOK, Call
  <1> QED
    BY <1>1 DEF HistoryInv, CallsAreNamed, LastAttempt, StoreTypeOK

\* Webhooks change attempts that have a message id, and they keep it.
LEMMA WebhooksKeepRecords ==
    ASSUME Shape, HistoryInv, P!Inv, RecordsInv, ProviderStep \/ TrackingStep
    PROVE  RecordsInv'
  <1>1. UNCHANGED <<job, worker, requests, posting, calls, faults>>
    BY DEF ProviderStep, TrackingStep, sendingVars
  <1>2. \A n \in Notifications : Live(n)' <=> Live(n)
    BY WebhooksTouch DEF Live
  <1>3. \A w \in Workers : /\ Target(w)' = Target(w)
                           /\ worker[w].pc # "idle" => Target(w) \in Notifications
    BY <1>1, TargetExists DEF Target
  <1>4. RefusalInv'
    <2>1. CallsOnce'
      BY <1>1, <1>2, <1>3 DEF RecordsInv, RefusalInv, CallsOnce
    <2>2. FailureWasRefused => FailureWasRefused'
      BY <1>1, <1>2, <1>3 DEF FailureWasRefused, Accepted
    <2> QED
      BY <1>1, <2>1, <2>2 DEF RecordsInv, RefusalInv, NoFault
  <1>5. ASSUME NEW c \in calls, Live(c.notif)
        PROVE  \/ delivery'[c.notif][c.attempt] = delivery[c.notif][c.attempt]
               \/ delivery[c.notif][c.attempt].msg /\ delivery'[c.notif][c.attempt].msg
    <2>1. PICK n \in Notifications : n = c.notif
      BY CalledAttempt
    <2>2. PICK k \in DOMAIN delivery[n] : k = c.attempt
      BY <1>5, <2>1, CalledAttempt
    <2>3. \/ delivery'[n][k] = delivery[n][k]
          \/ delivery[n][k].msg /\ delivery'[n][k].msg
      BY WebhooksTouch
    <2> QED
      BY <2>1, <2>2, <2>3
  <1>6. \A c \in calls : Live(c.notif)' <=> Live(c.notif)
    BY <1>2, CalledAttempt
  <1>7. UnreportedWasRefused'
    BY <1>1, <1>5, <1>6 DEF RecordsInv, UnreportedWasRefused, NoFault
  <1>8. AnswerIsFound => AnswerIsFound'
    BY <1>1, <1>3, <1>5, <1>6 DEF AnswerIsFound
  <1> QED
    BY <1>1, <1>4, <1>7, <1>8 DEF RecordsInv, NoFault

\* A sender fails only what was refused.
LEMMA SendersFailRefused ==
    ASSUME Shape, HistoryInv, RecordsInv, [Next]_vars
    PROVE  UnreportedWasRefused'
  <1> SUFFICES ASSUME NEW c \in calls', Live(c.notif)', c.accepted, NoFault({"db", "reply"})',
                      delivery'[c.notif][c.attempt].status = "FAILED",
                      ~delivery'[c.notif][c.attempt].msg
               PROVE  FALSE
    BY DEF UnreportedWasRefused
  <1>1. NoFault({"db", "reply"})
    BY FaultsGrow DEF NoFault, FaultKinds
  <1>2. CASE c \in calls
    <2>1. c.notif \in Notifications /\ Live(c.notif)
      BY <1>2, CalledAttempt, NothingComesBack
    <2>2. c.attempt \in 1 .. LastAttempt(c.notif) /\ c.attempt \in DOMAIN delivery[c.notif]
      BY <1>2, <2>1, CalledAttempt
    <2>3. CASE delivery[c.notif][c.attempt].status = "FAILED"
      <3>1. delivery'[c.notif][c.attempt] = delivery[c.notif][c.attempt]
        BY <2>1, <2>2, <2>3, ClosedAttemptsKept DEF Live
      <3> QED
        BY <1>1, <1>2, <2>1, <2>3, <3>1 DEF RecordsInv, UnreportedWasRefused
    <2>4. CASE delivery[c.notif][c.attempt].status # "FAILED"
      <3>1. PICK w \in Workers : /\ worker[w].pc = "recordFailure"
                                 /\ Target(w) = c.notif /\ worker[w].attempt = c.attempt
        BY <2>1, <2>2, <2>4, OnlyFailuresFail
      <3> QED
        BY <1>1, <1>2, <2>1, <3>1 DEF RecordsInv, RefusalInv, FailureWasRefused, Accepted
    <2> QED
      BY <2>3, <2>4
  <1>3. CASE c \notin calls
    <2>1. PICK v \in Workers : /\ Sending(v) /\ UNCHANGED <<notification, delivery>>
                               /\ c.notif = Target(v) /\ c.attempt = worker[v].attempt
      BY <1>3, NewCall
    <2> QED
      BY <2>1 DEF HistoryInv, OwnAttempt, Live
  <1> QED
    BY <1>2, <1>3

\* A worker that has an answer leaves its message id.
LEMMA SendersLeaveAnswers ==
    ASSUME Shape, HistoryInv, P!Inv, AnswerIsFound, [Next]_vars, ~Fault("db"), ~Fault("crash")
    PROVE  AnswerIsFound'
  <1> SUFFICES ASSUME NEW c \in calls', c.error = "none", Live(c.notif)',
                      ~delivery'[c.notif][c.attempt].msg
               PROVE  \E w \in Workers :
                        /\ worker'[w].pc = "recordSuccess"
                        /\ worker'[w].job = c.job
                        /\ Target(w)' = c.notif
                        /\ worker'[w].attempt = c.attempt
    BY DEF AnswerIsFound
  <1>1. CASE c \in calls
    <2>1. c.notif \in Notifications /\ Live(c.notif)
      BY <1>1, CalledAttempt, NothingComesBack
    <2>2. c.attempt \in DOMAIN delivery[c.notif]
      BY <1>1, <2>1, CalledAttempt
    <2>3. ~delivery[c.notif][c.attempt].msg
      <3>1. delivery[c.notif][c.attempt].msg => delivery[c.notif][c.attempt].status # "PROCESSING"
        BY <2>1, <2>2 DEF P!Inv, P!RowsKnown
      <3> QED
        BY <2>1, <2>2, <3>1, ClosedAttemptsKept DEF Live
    <2>4. PICK w \in Workers : /\ worker[w].pc = "recordSuccess"
                               /\ worker[w].job = c.job
                               /\ Target(w) = c.notif
                               /\ worker[w].attempt = c.attempt
      BY <1>1, <2>1, <2>3 DEF AnswerIsFound
    <2>5. worker'[w] = worker[w]
      BY <2>1, <2>4, AnswerRecorded
    <2>6. Target(w)' = Target(w)
      BY <2>4, <2>5, TargetStays
    <2> QED
      BY <2>4, <2>5, <2>6
  <1>2. CASE c \notin calls
    <2>1. PICK v \in Workers : /\ worker'[v].pc = AfterCall(c.error)
                               /\ worker[v].pc = "call"
                               /\ worker'[v].job = worker[v].job
                               /\ worker'[v].attempt = worker[v].attempt
                               /\ c.job = worker[v].job /\ c.notif = Target(v)
                               /\ c.attempt = worker[v].attempt
      BY <1>2, NewCall
    <2>2. Target(v)' = Target(v)
      BY <2>1, TargetStays
    <2> QED
      BY <2>1, <2>2 DEF AfterCall
  <1> QED
    BY <1>1, <1>2

LEMMA RecordsStep ==
    ASSUME Joint, RecordsInv, [SystemNext]_systemVars
    PROVE  RecordsInv'
  <1>1. CASE ProviderStep \/ TrackingStep
    BY <1>1, WebhooksKeepRecords DEF Joint
  <1>2. CASE [Next]_vars
    <2>1. RefusalInv'
      BY <1>2, CallsOnceStep, FailureStep DEF Joint, RecordsInv, RefusalInv
    <2>2. UnreportedWasRefused'
      BY <1>2, SendersFailRefused DEF Joint
    <2>3. ASSUME NoFault({"crash", "db"})'
          PROVE  AnswerIsFound'
      <3>1. NoFault({"crash", "db"}) /\ ~Fault("db") /\ ~Fault("crash")
        BY <1>2, <2>3, FaultsGrow DEF NoFault, FaultKinds, Joint
      <3> QED
        BY <1>2, <3>1, SendersLeaveAnswers DEF Joint, RecordsInv
    <2> QED
      BY <2>1, <2>2, <2>3 DEF RecordsInv
  <1> QED
    BY <1>1, <1>2, SendersNext

\* Rows shared by senders and webhooks keep their types, DELIVERED is said only of
\* an attempt that a provider accepted and FAILED of such a one only for a reason,
\* what was answered is found, and a time of delivery is that of one.
THEOREM SystemIsSound == SystemSpec => []SystemInv
  <1>1. SystemSpec => []P!DeliveredAtIsKnown
    BY SystemIsTracked, TrackingAssumptions, P!DeliveryTimeIsKnown
  <1>2. Joint /\ RecordsInv /\ P!DeliveredAtIsKnown => SystemInv
    <2> SUFFICES ASSUME Joint, RecordsInv, P!DeliveredAtIsKnown
                 PROVE  SystemInv
      OBVIOUS
    <2>1. SystemTypeOK
      <3>1. TypeOK
        BY DEF Joint, Shape
      <3>2. P!TrackingTypeOK
        BY DEF Joint, P!Inv, P!TypeOK
      <3>3. P!TrackingTypeOK => T!TrackingTypeOK
        BY DEF P!TrackingTypeOK, T!TrackingTypeOK, P!Report, T!Report, P!EventRow, T!EventRow,
               P!EventId, T!EventId, P!DeliveryEventType, T!DeliveryEventType, P!HookRecord,
               T!HookRecord, P!NoReport, T!NoReport, P!DeliveryStatus, T!DeliveryStatus,
               P!NotificationStatus, T!NotificationStatus
      <3> QED
        BY <3>1, <3>2, <3>3 DEF SystemTypeOK
    <2>2. DeliveredWasAccepted
      <3> SUFFICES ASSUME NEW n \in Notifications, NEW k \in DOMAIN delivery[n],
                          delivery[n][k].status = "DELIVERED"
                   PROVE  Accepted(n, k)
        BY DEF DeliveredWasAccepted
      <3>1. PICK v \in event : v.notif = n /\ v.attempt = k
        BY DEF Joint, P!OutcomeWasReported, P!HasEvent, P!StoredFor
      <3>2. delivery[n][k].msg
        BY <3>1 DEF Joint, P!Inv, P!EventsBacked
      <3> QED
        BY <3>2 DEF Joint, HistoryInv, SentWasAccepted
    <2>3. T!DeliveredAtIsKnown
      BY DEF T!DeliveredAtIsKnown, P!DeliveredAtIsKnown, T!HasEvent, P!HasEvent,
             T!StoredFor, P!StoredFor
    <2>4. FailureHasReason
      <3> SUFFICES ASSUME NEW c \in calls, Live(c.notif), c.accepted, NoFault({"db", "reply"}),
                          delivery[c.notif][c.attempt].status = "FAILED"
                   PROVE  T!HasEvent(c.notif, c.attempt, T!Failures)
        BY DEF FailureHasReason
      <3>1. PICK n \in Notifications : n = c.notif
        BY CalledAttempt DEF Joint
      <3>2. PICK k \in DOMAIN delivery[n] : k = c.attempt
        BY <3>1, CalledAttempt DEF Joint
      <3>3. delivery[n][k].msg
        BY <3>1, <3>2 DEF RecordsInv, UnreportedWasRefused
      <3>4. P!HasEvent(n, k, P!Failures)
        BY <3>1, <3>2, <3>3 DEF Joint, P!OutcomeWasReported
      <3> QED
        BY <3>1, <3>2, <3>4
           DEF P!HasEvent, T!HasEvent, P!StoredFor, T!StoredFor, P!Failures, T!Failures
    <2>5. AcceptedIsFound
      BY DEF RecordsInv, AnswerIsFound, AcceptedIsFound
    <2> QED
      BY <2>1, <2>2, <2>3, <2>4, <2>5 DEF SystemInv
  <1>3. SystemInit => RecordsInv
    BY DEF SystemInit, Init, RecordsInv, RefusalInv, CallsOnce, FailureWasRefused,
           UnreportedWasRefused, AnswerIsFound, Idle
  <1>4. Joint /\ RecordsInv /\ [SystemNext]_systemVars => RecordsInv'
    BY RecordsStep
  <1> QED
    BY <1>1, <1>2, <1>3, <1>4, JointInvariance, PTL DEF SystemSpec

\* The step that a worker takes writes no attempt that has a message id.
LEMMA WorkersStayAway ==
    ASSUME Joint, [SystemNext]_systemVars, worker' # worker,
           NEW n \in Notifications, NEW k \in DOMAIN delivery[n], delivery[n][k].msg
    PROVE  delivery'[n][k] = delivery[n][k]
  <1>1. CASE delivery' = delivery
    BY <1>1
  <1>2. ASSUME NEW w \in Workers, WorkerStep(w), ~Settle(w)
        PROVE  delivery'[n][k] = delivery[n][k]
    <2>1. StoreTypeOK
      BY DEF Joint, Shape, TypeOK
    <2>2. PICK m \in Notifications : m = Target(w)
      BY <1>2, StepOfOne, TargetExists DEF Joint
    <2>3. CASE m # n
      BY <1>2, <2>2, <2>3, StepOfOne DEF Joint
    <2>4. CASE m = n /\ InsertDelivery(n, worker[w].edition)
      <3>1. worker[w].edition \in Nat
        BY DEF Joint, Shape, TypeOK, WorkerRecord
      <3>2. k \in 1 .. LastAttempt(n)
        BY <2>1 DEF StoreTypeOK, LastAttempt
      <3> QED
        BY <2>1, <2>4, <3>1, <3>2, InsertedRows
    <2>5. CASE /\ m = n
               /\ MarkSent(n, worker[w].attempt) \/ MarkFailed(n, worker[w].attempt)
               /\ Sending(w) /\ Live(n)
      <3>1. ~delivery[n][worker[w].attempt].msg
        BY <2>2, <2>5 DEF Joint, HistoryInv, OwnAttempt
      <3>2. worker[w].attempt # k
        BY <3>1
      <3>3. worker[w].attempt \in 1 .. LastAttempt(n) /\ k \in 1 .. LastAttempt(n)
        <4>1. worker[w].attempt \in 1 .. LastAttempt(n)
          BY <2>2, <2>5 DEF Joint, Shape, AttemptExists, InRange, Sending
        <4>2. DOMAIN delivery[n] = 1 .. LastAttempt(n)
          BY <2>1 DEF StoreTypeOK, LastAttempt
        <4> QED
          BY <4>1, <4>2
      <3> QED
        BY <2>1, <2>5, <3>2, <3>3, ClosedRows
    <2>6. \/ delivery' = delivery
          \/ InsertDelivery(m, worker[w].edition)
          \/ /\ MarkSent(m, worker[w].attempt) \/ MarkFailed(m, worker[w].attempt)
             /\ Sending(w) /\ Live(m)
      BY <1>2, <2>2 DEF WorkerStep, Load, ReadLast, InsertAttempt, ProviderAccepts,
                        ProviderRefuses, ReplyLost, CallProvider, RecordSuccess,
                        RecordFailure, DatabaseFails, storeVars, Sending
    <2> QED
      BY <1>1, <2>3, <2>4, <2>5, <2>6
  <1>3. \/ delivery' = delivery
        \/ \E w \in Workers : WorkerStep(w) /\ ~Settle(w)
    BY DEF SystemNext, systemVars, vars, SendingStep, ClientStep, Create, Send, Post, Update,
           InsertNotification, EditNotification, Enqueue, EnqueueFails, storeVars, QueueStep,
           Promote, Stall, LoseLock, Take, Crash, Settle, RemoveTracked, Remove, ProviderStep,
           TrackingStep, sendingVars
  <1> QED
    BY <1>1, <1>2, <1>3

\* Senders never overwrite what a webhook has recorded of an attempt, not even a
\* worker that has lost its lock.
THEOREM SendersLeaveTracked == SystemSpec => WorkersLeaveTracked
  <1> DEFINE Left == \A n \in Notifications : \A v \in event :
                        /\ v.notif = n
                        /\ worker' # worker
                        /\ v.attempt \in DOMAIN delivery[n]
                        => delivery'[n][v.attempt] = delivery[n][v.attempt]
  <1>1. Joint /\ [SystemNext]_systemVars => Left
    <2> SUFFICES ASSUME Joint, [SystemNext]_systemVars,
                        NEW n \in Notifications, NEW v \in event, v.notif = n,
                        worker' # worker, v.attempt \in DOMAIN delivery[n]
                 PROVE  delivery'[n][v.attempt] = delivery[n][v.attempt]
      OBVIOUS
    <2>1. delivery[n][v.attempt].msg
      BY DEF Joint, P!Inv, P!EventsBacked
    <2> QED
      BY <2>1, WorkersStayAway
  <1>2. Joint /\ [SystemNext]_systemVars => [Left]_systemVars
    BY <1>1
  <1>3. SystemSpec => [][Left]_systemVars
    <2> HIDE DEF Left
    <2> QED
      BY <1>2, JointInvariance, PTL DEF SystemSpec
  <1> QED
    BY <1>3 DEF WorkersLeaveTracked

\* What webhooks promise of reports holds when the real senders feed them: an event
\* is stored once, a report that is acknowledged is stored, and an outcome that
\* a row shows was reported.
THEOREM SystemKeepsReports ==
    SystemSpec => [](T!StoredOnce /\ T!AckedIsStored /\ T!OutcomeWasReported)
  <1>1. SystemSpec => []P!StoredOnce /\ []P!AckedIsStored
    BY SystemIsTracked, TrackingAssumptions, P!EventsAreStoredOnce, P!AcknowledgedIsStored
  <1>2. P!StoredOnce => T!StoredOnce
    BY DEF P!StoredOnce, T!StoredOnce, P!SameMessage, T!SameMessage
  <1>3. P!AckedIsStored => T!AckedIsStored
    BY DEF P!AckedIsStored, T!AckedIsStored, P!SameMessage, T!SameMessage,
           P!StoredFor, T!StoredFor, P!IdOf, T!IdOf, P!Live, T!Live
  <1>4. Joint => T!OutcomeWasReported
    BY DEF Joint, P!OutcomeWasReported, T!OutcomeWasReported, P!HasEvent, T!HasEvent,
           P!StoredFor, T!StoredFor, P!Failures, T!Failures
  <1> QED
    BY <1>1, <1>2, <1>3, <1>4, JointInvariance, PTL

\* With Resend, a delivery that was reported and stored is seen in its attempt,
\* whatever the senders do with the rows meanwhile.
THEOREM SystemKeepsOutcomes ==
    ASSUME Provider = "resend"
    PROVE  SystemSpec => []T!NoLostOutcome
  <1>1. SystemSpec => []P!NoLostOutcome
    BY SystemIsTracked, TrackingAssumptions, P!OutcomesAreKept
  <1>2. P!NoLostOutcome => T!NoLostOutcome
    BY DEF P!NoLostOutcome, T!NoLostOutcome, P!HasEvent, T!HasEvent, P!StoredFor, T!StoredFor,
           P!Failures, T!Failures
  <1> QED
    BY <1>1, <1>2, PTL

\* In the pipeline, too, DELIVERED of a notification sent once is seen until it is
\* sent again.
THEOREM SystemKeepsDelivered == SystemSpec => T!DeliveredUntilResent
  <1> DEFINE Stable == \A n \in Notifications :
                notification[n].status = "DELIVERED" /\ Len(delivery[n]) = 1 =>
                    \/ notification'[n].status = "DELIVERED"
                    \/ Len(delivery'[n]) # Len(delivery[n])
  <1>1. P!DeliveredUntilResent <=> [][Stable]_P!vars
    BY DEF P!DeliveredUntilResent
  <1>2. T!DeliveredUntilResent <=> [][Stable]_T!vars
    BY DEF T!DeliveredUntilResent
  <1>3. [Stable]_P!vars <=> [Stable]_T!vars
    BY DEF P!vars, T!vars
  <1>4. SystemSpec => P!DeliveredUntilResent
    BY SystemIsTracked, TrackingAssumptions, P!DeliveredIsStable
  <1> HIDE DEF Stable
  <1> QED
    BY <1>1, <1>2, <1>3, <1>4, PTL

\* In the pipeline, too, an outcome is replaced only by a webhook that had looked the
\* attempt up before, never by a sender; and a notification sent once says what its
\* attempt says, unless reports contradict each other.
THEOREM SystemFollows ==
    SystemSpec => T!LostOnlyToEarlierRead /\ []T!NotificationFollows
  <1> DEFINE Kept(Wanted(_)) == \A n \in Notifications : \A k \in DOMAIN delivery[n] :
                /\ delivery[n][k].status \in {"DELIVERED", "FAILED"}
                /\ notification'[n].state = "live"
                /\ delivery'[n][k].status # delivery[n][k].status
                => \E h \in Hooks :
                        /\ hook[h].report.notif = n /\ hook[h].report.attempt = k
                        /\ hook[h].pc # "idle" /\ hook'[h].pc = "idle"
                        /\ hook[h].found \notin {"DELIVERED", "FAILED"}
                        /\ delivery'[n][k].status = Wanted(h)
             KeptP == Kept(LAMBDA h : P!MeantBy(h).target)
             KeptT == Kept(LAMBDA h : T!MeantBy(h).target)
  <1>1. P!LostOnlyToEarlierRead <=> [][KeptP]_P!vars
    BY DEF P!LostOnlyToEarlierRead
  <1>2. T!LostOnlyToEarlierRead <=> [][KeptT]_T!vars
    BY DEF T!LostOnlyToEarlierRead
  <1>3. [KeptP]_P!vars <=> [KeptT]_T!vars
    <2>1. \A h \in Hooks : P!MeantBy(h) = T!MeantBy(h)
      BY DEF P!MeantBy, T!MeantBy, P!MeaningOf, T!MeaningOf, P!ResendEvent, T!ResendEvent,
             P!TwilioStatus, T!TwilioStatus, P!Means, T!Means
    <2> QED
      BY <2>1 DEF P!vars, T!vars
  <1>4. P!NotificationFollows <=> T!NotificationFollows
    BY DEF P!NotificationFollows, T!NotificationFollows, P!Live, T!Live,
           P!LastAttempt, T!LastAttempt, P!HasEvent, T!HasEvent, P!StoredFor, T!StoredFor,
           P!Failures, T!Failures
  <1>5. P!Spec => P!LostOnlyToEarlierRead /\ []P!NotificationFollows
    BY TrackingAssumptions, P!OutcomesAreLostOnlyToEarlierReads, P!NotificationsFollow
  <1> HIDE DEF KeptP, KeptT
  <1> QED
    BY <1>1, <1>2, <1>3, <1>4, <1>5, SystemIsTracked, PTL

(***************************************************************************)
(* What the senders promise, when webhooks write the same rows.            *)
(***************************************************************************)

\* The rest of the invariants of the sending side.
SendingInv ==
    /\ Sequential
    /\ StopInv
    /\ TriesLeft /\ CallsArePaid
    /\ SuccessHasNoError /\ MessagesArePaid

\* Webhooks add no attempt, bring back no notification, and touch nothing that
\* is the sender's own.
LEMMA WebhooksKeepSending ==
    ASSUME Shape, P!Inv, SendingInv, ProviderStep \/ TrackingStep
    PROVE  SendingInv'
  <1>1. UNCHANGED <<job, worker, requests, posting, calls, faults>>
    BY DEF ProviderStep, TrackingStep, sendingVars
  <1>2. ASSUME NEW n \in Notifications
        PROVE  LastAttempt(n)' = LastAttempt(n) /\ (Live(n)' <=> Live(n))
    <2>1. StoreTypeOK /\ StoreTypeOK'
      BY WebhooksTouch DEF Shape, TypeOK
    <2>2. DOMAIN delivery'[n] = DOMAIN delivery[n] /\ notification'[n].state = notification[n].state
      BY WebhooksTouch
    <2> QED
      BY <2>1, <2>2 DEF StoreTypeOK, LastAttempt, Live
  <1>3. \A w \in Workers : /\ Target(w)' = Target(w)
                           /\ worker[w].pc # "idle" => Target(w) \in Notifications
    BY <1>1, TargetExists DEF Target
  <1>4. Sequential'
    <2>1. OneJob' /\ (NoFault({"lock"})' => NoFault({"lock"}))
      BY <1>1 DEF SendingInv, Sequential, OneJob, Pending, NoFault
    <2>2. BusyHolds => BusyHolds'
      BY <1>1 DEF BusyHolds, Holds
    <2>3. SenderIsCurrent => SenderIsCurrent'
      BY <1>1, <1>2, <1>3 DEF SenderIsCurrent
    <2> QED
      BY <2>1, <2>2, <2>3 DEF SendingInv, Sequential
  <1>5. StopInv'
    <2>1. CallsHaveJobs' /\ (CallsInOrder => CallsInOrder')
      BY <1>1 DEF SendingInv, StopInv, CallsHaveJobs, CallsInOrder, Sending
    <2>2. \A f \in FaultKinds : faults'[f] = faults[f]
      BY <1>1
    <2>3. ASSUME NEW c \in calls, GivenUp(c)
          PROVE  GivenUp(c)'
      <3>1. c.notif \in Notifications
        BY DEF Shape, TypeOK, Call
      <3>2. \A w \in Workers : worker[w].pc # "idle" => (Stopping(w)' <=> Stopping(w))
        BY <1>1, <1>2, <1>3 DEF Stopping
      <3>3. Live(c.notif)' <=> Live(c.notif)
        BY <1>2, <3>1
      <3> QED
        BY <1>1, <2>3, <3>2, <3>3 DEF GivenUp, Pending
    <2> QED
      BY <1>1, <2>1, <2>2, <2>3 DEF SendingInv, StopInv, NoFault
  <1>6. TriesLeft' /\ CallsArePaid'
    BY <1>1 DEF SendingInv, TriesLeft, CallsArePaid, Ended, Taken, CallsOf, ReadyFor
  <1>7. SuccessHasNoError'
    BY <1>1 DEF SendingInv, SuccessHasNoError
  <1>8. MessagesArePaid'
    <2> SUFFICES ASSUME NEW j \in Jobs
                 PROVE  /\ AcceptedOf(j)' = AcceptedOf(j)
                        /\ CarriersOf(j)' = CarriersOf(j)
                        /\ Offers(j)' = Offers(j)
                        /\ FaultsSoFar' = FaultsSoFar
      BY DEF SendingInv, MessagesArePaid
    <2>1. AcceptedOf(j)' = AcceptedOf(j) /\ FaultsSoFar' = FaultsSoFar
      BY <1>1 DEF AcceptedOf, CallsOf, FaultsSoFar
    <2>2. job[j].state # "unused" => (Live(job[j].notif)' <=> Live(job[j].notif))
      BY <1>1, <1>2 DEF Shape, JobsAreNamed
    <2>3. ASSUME NEW w \in Workers
          PROVE  Carries(w, j)' <=> Carries(w, j)
      <3>1. worker[w].pc # "idle" /\ worker[w].job = j => job[j].state # "unused"
        BY DEF Shape, BusyHasJob
      <3> QED
        BY <1>1, <2>2, <3>1 DEF Carries
    <2>4. Offered(j)' <=> Offered(j)
      BY <1>1, <2>2 DEF Offered
    <2> QED
      BY <2>1, <2>3, <2>4 DEF CarriersOf, Offers
  <1> QED
    BY <1>4, <1>5, <1>6, <1>7, <1>8 DEF SendingInv

LEMMA SendingStepKeeps ==
    ASSUME Shape, HistoryInv, SendingInv, [Next]_vars
    PROVE  SendingInv'
  <1>1. Sequential'
    BY OneJobStep, BusyHoldsStep, SenderIsCurrentStep, LocksOnlyGetLost DEF SendingInv, Sequential
  <1>2. StopInv'
    BY StopStep DEF SendingInv
  <1>3. TriesLeft' /\ CallsArePaid'
    BY BudgetStep DEF SendingInv
  <1>4. SuccessHasNoError' /\ MessagesArePaid'
    BY SuccessHasNoErrorStep, MessagesArePaidStep DEF SendingInv
  <1> QED
    BY <1>1, <1>2, <1>3, <1>4 DEF SendingInv

\* What was proved of the sending side alone holds while webhooks change its rows:
\* one sender per notification, no collision without a lost lock, a bounded number
\* of calls, duplicates only for faults, an end after a permanent error, and
\* attempts that tell what was sent and accepted.
THEOREM SystemSendsSoundly ==
    SystemSpec => [](/\ OneSender /\ CollisionNeedsLostLock
                     /\ AttemptBudget /\ DuplicatesNeedFault /\ PermanentErrorStops
                     /\ PayloadMatchesSent /\ SentWasAccepted)
  <1>1. SystemInit => SendingInv
    <2> SUFFICES ASSUME Init
                 PROVE  SendingInv
      BY DEF SystemInit
    <2>1. Sequential
      BY DEF Init, Sequential, OneJob, BusyHolds, SenderIsCurrent, Pending, Unused, Idle
    <2>2. StopInv
      BY DEF Init, StopInv, CallsHaveJobs, CallsInOrder
    <2> QED
      BY <2>1, <2>2, BudgetInit, PaidInit DEF SendingInv
  <1>2. Joint /\ SendingInv /\ [SystemNext]_systemVars => SendingInv'
    BY SendersNext, SendingStepKeeps, WebhooksKeepSending DEF Joint
  <1>3. Joint /\ SendingInv => /\ OneSender /\ CollisionNeedsLostLock
                               /\ AttemptBudget /\ DuplicatesNeedFault /\ PermanentErrorStops
                               /\ PayloadMatchesSent /\ SentWasAccepted
    <2> SUFFICES ASSUME Joint, SendingInv
                 PROVE  /\ OneSender /\ CollisionNeedsLostLock
                        /\ AttemptBudget /\ DuplicatesNeedFault /\ PermanentErrorStops
                        /\ PayloadMatchesSent /\ SentWasAccepted
      OBVIOUS
    <2>1. Shape /\ PayloadMatchesSent /\ SentWasAccepted
      BY DEF Joint, HistoryInv
    <2>2. OneSender
      BY <2>1, AloneOnTarget DEF SendingInv, Sequential, OneSender
    <2>3. CollisionNeedsLostLock
      BY <2>1 DEF SendingInv, Sequential, SenderIsCurrent, CollisionNeedsLostLock
    <2>4. PermanentErrorStops
      BY DEF SendingInv, StopInv, GivenUp, PermanentErrorStops
    <2> QED
      BY <2>1, <2>2, <2>3, <2>4, BudgetBound, PaidBound DEF SendingInv
  <1> QED
    BY <1>1, <1>2, <1>3, JointInvariance, PTL DEF SystemSpec
=============================================================================
