----------------------- MODULE DeliveryTrackingProofs -----------------------
(***************************************************************************)
(* What the tracking side keeps, proved for every number of notifications, *)
(* of webhooks in flight, of attempts, reports and failed transactions.    *)
(***************************************************************************)
EXTENDS DeliveryTrackingAlone, FiniteSetTheorems, WellFoundedInduction, TLAPS

\* What the unique key tells apart.
SameKey(r, s) == SameMessage(r, s) /\ IdOf(r) = IdOf(s)

\* The report that event v was made from.
Backs(v, r) ==
    /\ SameMessage(v, r)
    /\ v.id = IdOf(r)
    /\ v.eventType = MeaningOf(r.type).eventType
    /\ Provider = "resend" => v.at = r.seq

\* Receipt times are bounded, so that the latest one exists.
TimesBounded ==
    /\ \A v \in event : v.at <= MaxTime
    /\ \A h \in Hooks : hook[h].at <= MaxTime

\* Only an attempt of a notification that was created is reported on.
ReportsKnown ==
    /\ IsFiniteSet(report)
    /\ \A r \in report : notification[r.notif].state # "absent"

\* A notification that is not there has no attempts, and an attempt with a message
\* id is no longer PROCESSING.
RowsKnown ==
    \A n \in Notifications :
        /\ ~Live(n) => delivery[n] = <<>> /\ notification[n].status = "PENDING"
        /\ \A k \in DOMAIN delivery[n] :
                delivery[n][k].msg => delivery[n][k].status \in {"SENT", "DELIVERED", "FAILED"}

\* An event belongs to an attempt with a message id, and was made from a report.
EventsBacked ==
    \A v \in event :
        /\ v.attempt \in DOMAIN delivery[v.notif]
        /\ delivery[v.notif][v.attempt].msg
        /\ \E r \in report : Backs(v, r)

\* What a transaction has read is still so: the attempt has its message id, and an
\* outcome it has found is on record.
FoundHolds(h) ==
    LET n == hook[h].report.notif
        k == hook[h].report.attempt
    IN  /\ k \in DOMAIN delivery[n]
        /\ delivery[n][k].msg
        /\ hook[h].found \in {"SENT", "DELIVERED", "FAILED"}
        /\ hook[h].found = "DELIVERED" => HasEvent(n, k, {"DELIVERED"})
        /\ hook[h].found = "FAILED" => HasEvent(n, k, Failures)

\* Where a webhook is that has found its attempt.
Waiting == {"insert", "update", "readNotification", "commit"}

\* A webhook is about a report, and what it has read is still so; once it has
\* inserted, its attempt cannot be deleted and its key is not stored.
HookKnown(h) ==
    /\ hook[h].pc # "idle" => hook[h].report \in report
    /\ hook[h].pc # "idle" /\ Provider = "resend" => hook[h].at = hook[h].report.seq
    /\ hook[h].pc \in Waiting /\ Live(hook[h].report.notif) => FoundHolds(h)
    /\ h \in Uncommitted =>
            /\ Live(hook[h].report.notif)
            /\ ~Stored(h)
            /\ MeantBy(h).target \in {"DELIVERED", "FAILED"}

HooksKnown == \A h \in Hooks : HookKnown(h)

\* The unique key lets one transaction insert an event at a time.
KeysApart ==
    \A g, h \in Uncommitted : g # h => ~SameKey(hook[g].report, hook[h].report)

\* The inductive invariant, together with OutcomeWasReported.
Inv ==
    /\ TypeOK
    /\ TimesBounded
    /\ ReportsKnown
    /\ RowsKnown
    /\ EventsBacked
    /\ HooksKnown
    /\ KeysApart

-----------------------------------------------------------------------------
(* Lemmas about the operators.                                             *)

\* What the tables of the webhook services say of every event name.
LEMMA MeaningOfType ==
    ASSUME NEW type \in ProviderTypes
    PROVE  /\ MeaningOf(type) \in Meaning
           /\ MeaningOf(type).target = "DELIVERED" <=> MeaningOf(type).eventType = "DELIVERED"
           /\ MeaningOf(type).target = "FAILED" => MeaningOf(type).eventType \in Failures
  <1>1. CASE Provider = "resend"
    <2>1. type \in ResendTypes
      BY <1>1, ProviderAssumption
    <2> QED
      BY <1>1, <2>1 DEF MeaningOf, ResendEvent, ResendTypes, Means, Meaning,
                        DeliveryEventType, Failures
  <1>2. CASE Provider # "resend"
    <2>1. type \in TwilioTypes
      BY <1>2, ProviderAssumption
    <2> QED
      BY <1>2, <2>1 DEF MeaningOf, TwilioStatus, TwilioTypes, Means, Meaning,
                        DeliveryEventType, Failures
  <1> QED
    BY <1>1, <1>2

\* A bounded set of numbers has a greatest element, which Max picks.
LEMMA MaxOfBounded ==
    ASSUME NEW m \in Nat, NEW S, S \subseteq 0 .. m, S # {}
    PROVE  Max(S) \in S
  <1> DEFINE T == {m - x : x \in S}
  <1>1. T \subseteq Nat /\ T # {}
    <2>1. \A x \in S : m - x \in Nat
      OBVIOUS
    <2> QED
      BY <2>1
  <1>2. PICK t \in T : \A u \in T : ~ (<<u, t>> \in OpToRel(<, Nat))
    <2> HIDE DEF T
    <2> QED
      BY <1>1, NatLessThanWellFounded, WFMin
  <1>3. PICK x \in S : t = m - x
    BY <1>2
  <1>4. ASSUME NEW y \in S PROVE x >= y
    <2>1. m - y \in T /\ m - y \in Nat /\ t \in Nat
      BY <1>1
    <2>2. ~ (m - y < t)
      BY <1>2, <2>1 DEF OpToRel
    <2> QED
      BY <2>2, <1>3
  <1> QED
    BY <1>4 DEF Max

\* The rows of an attempt are changed one at a time.
LEMMA RowUpdate ==
    ASSUME NEW d \in [Notifications -> Seq(DeliveryRow)], NEW n \in Notifications,
           NEW k \in DOMAIN d[n], NEW row \in DeliveryRow,
           NEW e, e = [d EXCEPT ![n][k] = row]
    PROVE  /\ e \in [Notifications -> Seq(DeliveryRow)]
           /\ \A m \in Notifications : DOMAIN e[m] = DOMAIN d[m] /\ Len(e[m]) = Len(d[m])
           /\ e[n][k] = row
           /\ \A m \in Notifications : \A j \in DOMAIN d[m] :
                  ~(m = n /\ j = k) => e[m][j] = d[m][j]
  OBVIOUS

\* The time a webhook is given is a number.
LEMMA OccurredAtType ==
    ASSUME TypeOK, TimesBounded, NEW r \in report
    PROVE  OccurredAt(r) \in Nat
  <1>1. MaxTime \in Nat
    BY TrackingBoundAssumption
  <1>2. r.seq \in Nat
    BY DEF TypeOK, TrackingTypeOK, Report
  <1> DEFINE S == {0} \cup {v.at : v \in {x \in event : SameMessage(x, r)}}
                      \cup {hook[g].at : g \in {x \in Hooks : SameMessage(hook[x].report, r)}}
  <1>3. S \subseteq 0 .. MaxTime
    <2>1. \A v \in event : v.at \in 0 .. MaxTime
      BY <1>1 DEF TypeOK, TrackingTypeOK, EventRow, TimesBounded
    <2>2. \A g \in Hooks : hook[g].at \in 0 .. MaxTime
      BY <1>1 DEF TypeOK, TrackingTypeOK, HookRecord, TimesBounded
    <2> QED
      BY <2>1, <2>2, <1>1
  <1>4. S # {}
    OBVIOUS
  <1>5. Latest(r) = Max(S)
    BY DEF Latest
  <1> HIDE DEF S
  <1>6. Max(S) \in S
    BY <1>1, <1>3, <1>4, MaxOfBounded
  <1>7. \A x \in S : x \in Nat
    BY <1>1, <1>3
  <1>8. Max(S) \in Nat
    BY <1>6, <1>7, Zenon
  <1>9. Latest(r) \in Nat
    BY <1>5, <1>8, Zenon
  <1> QED
    BY <1>2, <1>9 DEF OccurredAt

-----------------------------------------------------------------------------
(* The kinds of step.                                                      *)

\* A webhook's step that writes nothing but its own state. It acknowledges only
\* what is stored.
Quiet(h) ==
    /\ UNCHANGED <<notification, delivery, report, event>>
    /\ \/ acked' = acked
       \/ /\ hook[h].pc = "insert"
          /\ Stored(h)
          /\ acked' = acked \cup {hook[h].report}

\* A webhook's transaction commits its event, with or without its updates.
Commits(h) ==
    /\ hook[h].pc \in Waiting
    /\ Live(hook[h].report.notif)
    /\ ~Stored(h)
    /\ \A g \in Uncommitted : g # h => ~SameKey(hook[g].report, hook[h].report)
    /\ CommitEvent(h)
    /\ UNCHANGED <<report, aborts>>
    /\ \/ ~Applies(h) /\ UNCHANGED storeVars
       \/ /\ hook[h].pc # "insert"
          /\ MeantBy(h).target \in {"DELIVERED", "FAILED"}
          /\ UpdateDelivery(h)
          /\ UpdateNotification(h) \/ UNCHANGED notification

\* A client or the sender writes rows, none of which a webhook has touched.
Moves ==
    /\ UNCHANGED trackingVars
    /\ \E n \in Notifications :
            \/ Appear(n) \/ Edit(n)
            \/ \E edition \in Editions : Open(n, edition)
            \/ \E k \in DOMAIN delivery[n] : Close(n, k)

\* What is known of the report that a webhook is about.
LEMMA HookReport ==
    ASSUME Inv, NEW h \in Hooks, hook[h].pc # "idle"
    PROVE  /\ hook[h].report \in report
           /\ hook[h].report \in Report
           /\ hook[h].at \in Nat
           /\ IdOf(hook[h].report) \in EventId
           /\ MeantBy(h) \in Meaning
           /\ MeantBy(h).target = "DELIVERED" <=> MeantBy(h).eventType = "DELIVERED"
           /\ MeantBy(h).target = "FAILED" => MeantBy(h).eventType \in Failures
  <1>1. hook[h].report \in report /\ hook[h].report \in Report
    BY DEF Inv, HooksKnown, HookKnown, TypeOK, TrackingTypeOK
  <1>2. hook[h].at \in Nat
    BY DEF Inv, TypeOK, TrackingTypeOK, HookRecord
  <1>3. hook[h].report.type \in ProviderTypes /\ hook[h].report.seq \in Nat
    BY <1>1 DEF Report
  <1>4. IdOf(hook[h].report) \in EventId
    BY <1>3 DEF IdOf, EventId
  <1> QED
    BY <1>1, <1>2, <1>3, <1>4, MeaningOfType DEF MeantBy

\* The transaction of a waiting webhook whose insertion may go on.
LEMMA InsertMayCommit ==
    ASSUME NEW h \in Hooks, ~KeyLocked(h)
    PROVE  \A g \in Uncommitted : ~SameKey(hook[g].report, hook[h].report)
  BY DEF KeyLocked, SameKey

\* Every step of a webhook is quiet, or a commit.
LEMMA HookStepKinds ==
    ASSUME Inv, NEW h \in Hooks,
           HookStep(h) \/ Abort(h) \/ \E r \in report : Receive(h, r)
    PROVE  Quiet(h) \/ Commits(h)
  <1>1. CASE \E r \in report : Receive(h, r)
    BY <1>1 DEF Receive, Quiet
  <1>2. CASE Find(h)
    BY <1>2 DEF Find, NotFound, Quiet
  <1>3. CASE Insert(h)
    <2>1. CASE Stored(h)
      BY <1>3, <2>1 DEF Insert, Acknowledge, Quiet
    <2>2. CASE ~Stored(h) /\ Live(hook[h].report.notif) /\ ~Applies(h)
      BY <1>3, <2>2, InsertMayCommit
         DEF Insert, CommitEventOnly, Commits, Waiting
    <2>3. CASE ~Stored(h) /\ ~(Live(hook[h].report.notif) /\ ~Applies(h))
      BY <1>3, <2>3 DEF Insert, Quiet
    <2> QED
      BY <2>1, <2>2, <2>3
  <1>4. CASE Update(h) \/ ReadNotification(h) \/ Commit(h)
    <2>1. h \in Uncommitted
      BY <1>4 DEF Update, ReadNotification, Commit, Uncommitted
    <2>2. /\ Live(hook[h].report.notif)
          /\ ~Stored(h)
          /\ MeantBy(h).target \in {"DELIVERED", "FAILED"}
      BY <2>1 DEF Inv, HooksKnown, HookKnown
    <2>3. \A g \in Uncommitted : g # h => ~SameKey(hook[g].report, hook[h].report)
      BY <2>1 DEF Inv, KeysApart
    <2>4. CASE Update(h) /\ IsLatestAttempt(hook[h].report)
      BY <2>4 DEF Update, Quiet
    <2>5. CASE Update(h) /\ ~IsLatestAttempt(hook[h].report)
      BY <2>2, <2>3, <2>5 DEF Update, Commits, Waiting
    <2>6. CASE ReadNotification(h)
      BY <2>6 DEF ReadNotification, Quiet
    <2>7. CASE Commit(h)
      BY <2>2, <2>3, <2>7 DEF Commit, Commits, Waiting
    <2> QED
      BY <1>4, <2>4, <2>5, <2>6, <2>7
  <1>5. CASE Abort(h)
    BY <1>5 DEF Abort, Quiet
  <1> QED
    BY <1>1, <1>2, <1>3, <1>4, <1>5 DEF HookStep

\* What a commit does to the rows: the attempt of the report takes its target if
\* the event applies, and nothing else changes but the notification's outcome.
LEMMA CommitEffect ==
    ASSUME Inv, NEW h \in Hooks, Commits(h)
    PROVE  LET r == hook[h].report
               target == MeantBy(h).target
           IN  /\ FoundHolds(h)
               /\ StoreTypeOK'
               /\ \A n \in Notifications :
                     /\ DOMAIN delivery'[n] = DOMAIN delivery[n]
                     /\ notification'[n].state = notification[n].state
                     /\ notification'[n].edition = notification[n].edition
                     /\ n # r.notif => notification'[n] = notification[n]
                     /\ \/ /\ notification'[n].status = notification[n].status
                           /\ notification'[n].deliveredAt = notification[n].deliveredAt
                        \/ /\ n = r.notif /\ notification'[n].status = target
                           /\ notification'[n].deliveredAt =
                                 FirstDelivered(notification[n].deliveredAt, target, r.attempt)
                     /\ delivery[n] = <<>> => delivery'[n] = <<>>
                     /\ \A k \in DOMAIN delivery[n] :
                           \/ delivery'[n][k] = delivery[n][k]
                           \/ /\ n = r.notif /\ k = r.attempt
                              /\ target \in {"DELIVERED", "FAILED"}
                              /\ delivery'[n][k].status = target
                              /\ delivery'[n][k].msg
                              /\ delivery'[n][k].edition = delivery[n][k].edition
               /\ \/ ~Applies(h) /\ UNCHANGED storeVars
                  \/ delivery'[r.notif][r.attempt].status = target
  <1> DEFINE r == hook[h].report
             n == r.notif
             k == r.attempt
             target == MeantBy(h).target
             row == Tracked(delivery[n][k], target)
  <1>1. hook[h].pc \in Waiting /\ hook[h].pc # "idle"
    BY DEF Commits, Waiting
  <1>2. r \in Report /\ n \in Notifications /\ k \in Nat
    BY <1>1, HookReport DEF Report
  <1>3. FoundHolds(h)
    BY <1>1 DEF Commits, Inv, HooksKnown, HookKnown
  <1>4. StoreTypeOK
    BY DEF Inv, TypeOK
  <1>5. k \in DOMAIN delivery[n] /\ delivery[n][k].msg /\ delivery[n][k] \in DeliveryRow
    BY <1>2, <1>3, <1>4 DEF FoundHolds, StoreTypeOK
  <1>6. CASE ~Applies(h) /\ UNCHANGED storeVars
    BY <1>3, <1>4, <1>6 DEF storeVars, StoreTypeOK
  <1>7. CASE /\ target \in {"DELIVERED", "FAILED"}
             /\ UpdateDelivery(h)
             /\ UpdateNotification(h) \/ UNCHANGED notification
    <2>1. row \in DeliveryRow /\ row.status = target /\ row.msg
      BY <1>5, <1>7 DEF Tracked, DeliveryRow, DeliveryStatus
    <2>2. delivery' = [delivery EXCEPT ![n][k] = row]
      BY <1>7 DEF UpdateDelivery
    <2>6. row.edition = delivery[n][k].edition
      BY <1>5, <1>7 DEF Tracked, DeliveryRow
    <2> HIDE DEF row
    <2>3. /\ delivery' \in [Notifications -> Seq(DeliveryRow)]
          /\ \A m \in Notifications :
                DOMAIN delivery'[m] = DOMAIN delivery[m] /\ Len(delivery'[m]) = Len(delivery[m])
          /\ delivery'[n][k] = row
          /\ \A m \in Notifications : \A j \in DOMAIN delivery[m] :
                ~(m = n /\ j = k) => delivery'[m][j] = delivery[m][j]
      BY <1>2, <1>4, <1>5, <2>1, <2>2, RowUpdate DEF StoreTypeOK
    <2>4. /\ notification' \in [Notifications -> NotificationRow]
          /\ \A m \in Notifications :
                /\ notification'[m].state = notification[m].state
                /\ notification'[m].edition = notification[m].edition
                /\ m # n => notification'[m] = notification[m]
                /\ \/ /\ notification'[m].status = notification[m].status
                      /\ notification'[m].deliveredAt = notification[m].deliveredAt
                   \/ /\ m = n /\ notification'[m].status = target
                      /\ notification'[m].deliveredAt =
                            FirstDelivered(notification[m].deliveredAt, target, k)
      <3>1. notification[n] \in NotificationRow
        BY <1>2, <1>4 DEF StoreTypeOK
      <3>2. CASE UNCHANGED notification
        BY <1>4, <3>2 DEF StoreTypeOK
      <3>3. CASE notification' = [notification EXCEPT
                ![n].status = target,
                ![n].error = CASE target = "DELIVERED" -> FALSE
                               [] target = "FAILED" -> TRUE
                               [] OTHER -> @,
                ![n].deliveredAt = FirstDelivered(@, target, k)]
        BY ZenonT(40), <1>2, <1>4, <1>7, <3>1, <3>3
           DEF StoreTypeOK, NotificationRow, NotificationStatus, FirstDelivered
      <3> QED
        BY <1>7, <3>2, <3>3 DEF UpdateNotification
    <2>5. \A m \in Notifications : delivery[m] = <<>> => delivery'[m] = <<>>
      BY <1>4, <2>3 DEF StoreTypeOK
    <2> QED
      BY <1>3, <1>7, <2>1, <2>3, <2>4, <2>5, <2>6 DEF StoreTypeOK
  <1> QED
    BY <1>6, <1>7 DEF Commits

-----------------------------------------------------------------------------
(* The invariant is inductive.                                             *)

\* A quiet step keeps the invariant when the new state of its webhook does.
LEMMA QuietStep ==
    ASSUME Inv, NEW h \in Hooks, Quiet(h), aborts' \in 0 .. MaxAborts,
           NEW rec \in HookRecord, hook' = [hook EXCEPT ![h] = rec], rec.at <= MaxTime,
           HookKnown(h)',
           h \in Uncommitted' =>
               \A g \in Uncommitted : g # h => ~SameKey(hook[g].report, rec.report)
    PROVE  Inv'
  <1>1. UNCHANGED <<notification, delivery, report, event>>
    BY DEF Quiet
  <1>2. hook \in [Hooks -> HookRecord] /\ acked \subseteq report
    BY DEF Inv, TypeOK, TrackingTypeOK
  <1>3. hook'[h] = rec /\ \A g \in Hooks : g # h => hook'[g] = hook[g]
    BY <1>2
  <1>4. TypeOK'
    <2>1. hook' \in [Hooks -> HookRecord]
      BY <1>2
    <2>2. acked' \subseteq report'
      BY <1>1, <1>2, HookReport DEF Quiet
    <2> QED
      BY <1>1, <2>1, <2>2 DEF Inv, TypeOK, StoreTypeOK, TrackingTypeOK
  <1>5. TimesBounded'
    BY <1>1, <1>3 DEF Inv, TimesBounded
  <1>6. ReportsKnown' /\ RowsKnown' /\ EventsBacked'
    BY <1>1 DEF Inv, ReportsKnown, RowsKnown, EventsBacked, Live
  <1>7. HooksKnown'
    <2>1. ASSUME NEW g \in Hooks, g # h PROVE HookKnown(g)'
      <3>1. HookKnown(g) /\ hook'[g] = hook[g] /\ (g \in Uncommitted' <=> g \in Uncommitted)
        BY <1>3, <2>1 DEF Inv, HooksKnown, Uncommitted
      <3> QED
        BY <1>1, <3>1
           DEF HookKnown, FoundHolds, Live, HasEvent, StoredFor, Stored, MeantBy
    <2> QED
      BY <2>1 DEF HooksKnown
  <1>8. KeysApart'
    <2> SUFFICES ASSUME NEW f \in Uncommitted', NEW g \in Uncommitted', f # g
                 PROVE  ~SameKey(hook'[f].report, hook'[g].report)
      BY DEF KeysApart, SameKey, SameMessage, IdOf
    <2>1. \A e \in Hooks : e # h => (e \in Uncommitted' <=> e \in Uncommitted)
      BY <1>3 DEF Uncommitted
    <2>2. f \in Hooks /\ g \in Hooks
      BY DEF Uncommitted
    <2>3. CASE f # h /\ g # h
      BY <1>3, <2>1, <2>2, <2>3 DEF Inv, KeysApart
    <2>4. CASE f = h
      BY <1>3, <2>1, <2>2, <2>4 DEF SameKey, SameMessage
    <2>5. CASE g = h
      BY <1>3, <2>1, <2>2, <2>5
    <2> QED
      BY <2>3, <2>4, <2>5
  <1> QED
    BY <1>4, <1>5, <1>6, <1>7, <1>8 DEF Inv

\* A webhook that ends has nothing left to keep.
LEMMA NoHookKnown ==
    ASSUME TypeOK, NEW h \in Hooks, hook' = [hook EXCEPT ![h] = NoHook]
    PROVE  NoHook \in HookRecord /\ NoHook.at = 0 /\ HookKnown(h)' /\ h \notin Uncommitted'
  <1>1. hook'[h] = NoHook
    BY DEF TypeOK, TrackingTypeOK
  <1> QED
    BY <1>1 DEF NoHook, HookRecord, DeliveryStatus, NotificationStatus, HookKnown, Uncommitted,
                Waiting

\* A webhook that ends without writing.
LEMMA EndQuietly ==
    ASSUME Inv, NEW h \in Hooks, Quiet(h), Done(h), aborts' \in 0 .. MaxAborts
    PROVE  Inv'
  <1>1. hook' = [hook EXCEPT ![h] = NoHook]
    BY DEF Done
  <1>2. NoHook \in HookRecord /\ NoHook.at = 0 /\ HookKnown(h)' /\ h \notin Uncommitted'
    BY <1>1, NoHookKnown DEF Inv
  <1>3. NoHook.at <= MaxTime
    BY <1>2, TrackingBoundAssumption
  <1> QED
    BY <1>1, <1>2, <1>3, QuietStep

\* A webhook arrives.
LEMMA ReceiveStep ==
    ASSUME Inv, NEW h \in Hooks, NEW r \in report, Receive(h, r)
    PROVE  Inv'
  <1> DEFINE rec == [NoHook EXCEPT !.pc = "find", !.report = r, !.at = OccurredAt(r)]
  <1>1. OccurredAt(r) \in Nat
    BY OccurredAtType DEF Inv
  <1>2. r \in Report /\ hook \in [Hooks -> HookRecord]
    BY DEF Inv, TypeOK, TrackingTypeOK
  <1>3. /\ rec \in HookRecord
        /\ rec.at = OccurredAt(r) /\ rec.pc = "find" /\ rec.report = r
    BY <1>1, <1>2 DEF NoHook, HookRecord, DeliveryStatus, NotificationStatus
  <1>4. /\ hook' = [hook EXCEPT ![h] = rec] /\ rec.at <= MaxTime
        /\ Quiet(h) /\ UNCHANGED aborts
    BY <1>3 DEF Receive, Quiet
  <1>5. Provider = "resend" => OccurredAt(r) = r.seq
    BY DEF OccurredAt
  <1> HIDE DEF rec
  <1>6. hook'[h] = rec
    BY <1>2, <1>4
  <1>7. HookKnown(h)' /\ h \notin Uncommitted'
    BY <1>3, <1>4, <1>5, <1>6 DEF Receive, HookKnown, Waiting, Uncommitted
  <1>8. aborts' \in 0 .. MaxAborts
    BY <1>4 DEF Inv, TypeOK, TrackingTypeOK
  <1> QED
    BY <1>3, <1>4, <1>7, <1>8, QuietStep

\* The lookup: what it finds of the attempt is backed by events.
LEMMA FindStep ==
    ASSUME Inv, OutcomeWasReported, NEW h \in Hooks, Find(h)
    PROVE  Inv'
  <1> DEFINE r == hook[h].report
             n == r.notif
             k == r.attempt
             rec == [hook[h] EXCEPT !.pc = "insert", !.found = delivery[n][k].status]
  <1>1. aborts' \in 0 .. MaxAborts
    BY DEF Find, Inv, TypeOK, TrackingTypeOK
  <1>2. Quiet(h)
    BY DEF Find, NotFound, Quiet
  <1>3. CASE NotFound(h)
    BY <1>1, <1>2, <1>3, EndQuietly DEF NotFound
  <1>4. CASE /\ k \in DOMAIN delivery[n] /\ delivery[n][k].msg
             /\ hook' = [hook EXCEPT ![h].pc = "insert", ![h].found = delivery[n][k].status]
    <2>1. r \in Report /\ r \in report /\ n \in Notifications
      BY HookReport DEF Find, Report
    <2>2. hook \in [Hooks -> HookRecord] /\ hook[h] \in HookRecord
      BY DEF Inv, TypeOK, TrackingTypeOK
    <2>3. delivery[n][k].status \in {"SENT", "DELIVERED", "FAILED"}
      BY <1>4, <2>1 DEF Inv, RowsKnown
    <2>4. /\ rec \in HookRecord /\ rec.pc = "insert" /\ rec.report = r
          /\ rec.found = delivery[n][k].status /\ rec.at = hook[h].at
      BY <2>2, <2>3 DEF HookRecord, DeliveryStatus
    <2>5. hook' = [hook EXCEPT ![h] = rec]
      BY <1>4, <2>2
    <2> HIDE DEF rec
    <2>6. hook'[h] = rec /\ UNCHANGED <<notification, delivery, report, event>>
      BY <1>2, <2>2, <2>5 DEF Quiet
    <2>7. FoundHolds(h)'
      <3>1. /\ delivery[n][k].status = "DELIVERED" => HasEvent(n, k, {"DELIVERED"})
            /\ delivery[n][k].status = "FAILED" => HasEvent(n, k, Failures)
        BY <1>4, <2>1 DEF OutcomeWasReported
      <3> QED
        BY ZenonT(40), <1>4, <2>3, <2>4, <2>6, <3>1 DEF FoundHolds, HasEvent, StoredFor
    <2>8. hook[h].pc = "find" /\ (Provider = "resend" => hook[h].at = r.seq)
      BY DEF Find, Inv, HooksKnown, HookKnown
    <2>9. HookKnown(h)' /\ h \notin Uncommitted'
      BY <2>1, <2>4, <2>6, <2>7, <2>8 DEF HookKnown, Uncommitted
    <2>10. rec.at <= MaxTime
      BY <2>4 DEF Inv, TimesBounded
    <2> QED
      BY <1>1, <1>2, <2>4, <2>5, <2>9, <2>10, QuietStep
  <1> QED
    BY <1>3, <1>4 DEF Find

\* A webhook goes on: only its place in the code and what it has seen change.
LEMMA GoOn ==
    ASSUME Inv, NEW h \in Hooks, Quiet(h), UNCHANGED aborts,
           NEW pc \in {"update", "readNotification", "commit"},
           NEW seen \in NotificationStatus,
           hook' = [hook EXCEPT ![h].pc = pc, ![h].seen = seen],
           hook[h].pc # "idle",
           hook[h].pc \in Waiting,
           Live(hook[h].report.notif),
           ~Stored(h),
           MeantBy(h).target \in {"DELIVERED", "FAILED"},
           \A g \in Uncommitted : g # h => ~SameKey(hook[g].report, hook[h].report)
    PROVE  Inv'
  <1> DEFINE rec == [hook[h] EXCEPT !.pc = pc, !.seen = seen]
  <1>1. hook \in [Hooks -> HookRecord] /\ hook[h] \in HookRecord /\ aborts' \in 0 .. MaxAborts
    BY DEF Inv, TypeOK, TrackingTypeOK
  <1>2. /\ rec \in HookRecord /\ rec.pc = pc /\ rec.report = hook[h].report
        /\ rec.found = hook[h].found /\ rec.at = hook[h].at
    BY <1>1 DEF HookRecord
  <1>3. hook' = [hook EXCEPT ![h] = rec]
    BY <1>1
  <1> HIDE DEF rec
  <1>4. hook'[h] = rec /\ UNCHANGED <<notification, delivery, report, event>>
    BY <1>1, <1>3 DEF Quiet
  <1>5. HookKnown(h)
    BY DEF Inv, HooksKnown
  <1>6. FoundHolds(h)
    BY <1>5 DEF HookKnown
  <1>7. HookKnown(h)'
    <2>1. FoundHolds(h)'
      BY ZenonT(40), <1>2, <1>4, <1>6 DEF FoundHolds, HasEvent, StoredFor
    <2>2. Live(hook[h].report.notif)'
      BY <1>2, <1>4 DEF Live
    <2>3. ~Stored(h)'
      BY <1>2, <1>4 DEF Stored, SameMessage, IdOf
    <2>4. (MeantBy(h).target)' \in {"DELIVERED", "FAILED"}
      BY <1>2, <1>4 DEF MeantBy, MeaningOf
    <2>5. /\ hook'[h].report \in report'
          /\ Provider = "resend" => hook'[h].at = hook'[h].report.seq
      BY <1>2, <1>4, <1>5 DEF HookKnown
    <2> QED
      BY <1>4, <2>1, <2>2, <2>3, <2>4, <2>5 DEF HookKnown
  <1>8. rec.at <= MaxTime
    BY <1>2 DEF Inv, TimesBounded
  <1> QED
    BY <1>1, <1>2, <1>3, <1>7, <1>8, QuietStep

\* A commit: the event is backed by its report, and is new.
LEMMA CommitStep ==
    ASSUME Inv, NEW h \in Hooks, Commits(h)
    PROVE  Inv'
  <1> DEFINE r == hook[h].report
             n == r.notif
             k == r.attempt
             e == EventOf(h)
             target == MeantBy(h).target
  <1>1. hook[h].pc \in Waiting /\ hook[h].pc # "idle" /\ ~Stored(h)
    BY DEF Commits, Waiting
  <1>2. /\ r \in report /\ r \in Report /\ n \in Notifications /\ k \in Nat
        /\ IdOf(r) \in EventId /\ hook[h].at \in Nat /\ MeantBy(h) \in Meaning
    BY <1>1, HookReport DEF Report
  <1>3. /\ hook' = [hook EXCEPT ![h] = NoHook] /\ event' = event \cup {e}
        /\ acked' = acked \cup {r} /\ UNCHANGED <<report, aborts>>
    BY DEF Commits, CommitEvent, Acknowledge, Done
  <1>4. /\ e.notif = n /\ e.attempt = k /\ e.id = IdOf(r) /\ e.at = hook[h].at
        /\ e.eventType = MeaningOf(r.type).eventType
        /\ e \in EventRow
    BY <1>2 DEF EventOf, MeantBy, EventRow, Meaning
  <1>5. /\ FoundHolds(h)
        /\ StoreTypeOK'
        /\ \A m \in Notifications :
              /\ DOMAIN delivery'[m] = DOMAIN delivery[m]
              /\ notification'[m].state = notification[m].state
              /\ \/ notification'[m].status = notification[m].status
                 \/ m = n /\ notification'[m].status = target
              /\ delivery[m] = <<>> => delivery'[m] = <<>>
              /\ \A j \in DOMAIN delivery[m] :
                    \/ delivery'[m][j] = delivery[m][j]
                    \/ /\ m = n /\ j = k
                       /\ target \in {"DELIVERED", "FAILED"}
                       /\ delivery'[m][j].status = target
                       /\ delivery'[m][j].msg
    BY CommitEffect
  <1>6. hook \in [Hooks -> HookRecord]
    BY DEF Inv, TypeOK, TrackingTypeOK
  <1>7. /\ NoHook \in HookRecord /\ NoHook.at = 0
        /\ HookKnown(h)' /\ h \notin Uncommitted'
    BY <1>3, NoHookKnown DEF Inv
  <1>8. hook'[h] = NoHook /\ \A g \in Hooks : g # h => hook'[g] = hook[g]
    BY <1>3, <1>6
  <1> HIDE DEF e, target
  <1>9. TypeOK'
    BY <1>2, <1>3, <1>4, <1>5, <1>6, <1>7 DEF Inv, TypeOK, TrackingTypeOK
  <1>10. TimesBounded'
    BY <1>3, <1>4, <1>7, <1>8, TrackingBoundAssumption DEF Inv, TimesBounded
  <1>11. ReportsKnown'
    <2>1. report \subseteq Report
      BY DEF Inv, TypeOK, TrackingTypeOK
    <2> QED
      BY <1>3, <1>5, <2>1 DEF Inv, ReportsKnown, Report
  <1>12. \A m \in Notifications : Live(m)' <=> Live(m)
    BY <1>5 DEF Live
  <1>13. RowsKnown'
    <2> SUFFICES ASSUME NEW m \in Notifications
                 PROVE  /\ ~Live(m)' => delivery'[m] = <<>> /\ notification'[m].status = "PENDING"
                        /\ \A j \in DOMAIN delivery'[m] :
                              delivery'[m][j].msg =>
                                  delivery'[m][j].status \in {"SENT", "DELIVERED", "FAILED"}
      BY DEF RowsKnown, Live
    <2>1. ~Live(m)' => delivery'[m] = <<>> /\ notification'[m].status = "PENDING"
      BY <1>5, <1>12 DEF Inv, RowsKnown, Commits
    <2>2. \A j \in DOMAIN delivery'[m] :
              delivery'[m][j].msg => delivery'[m][j].status \in {"SENT", "DELIVERED", "FAILED"}
      BY <1>5 DEF Inv, RowsKnown
    <2> QED
      BY <2>1, <2>2
  <1>14. \A m \in Notifications : \A j \in DOMAIN delivery[m] :
             delivery[m][j].msg => j \in DOMAIN delivery'[m] /\ delivery'[m][j].msg
    BY <1>5
  <1>15. EventsBacked'
    <2>1. event \subseteq EventRow
      BY DEF Inv, TypeOK, TrackingTypeOK
    <2>2. ASSUME NEW v \in event
          PROVE  /\ v.attempt \in DOMAIN delivery'[v.notif]
                 /\ delivery'[v.notif][v.attempt].msg
                 /\ \E s \in report' : Backs(v, s)
      <3>1. v.notif \in Notifications
        BY <2>1 DEF EventRow
      <3> QED
        BY <1>3, <1>14, <3>1 DEF Inv, EventsBacked
    <2>3. Provider = "resend" => hook[h].at = r.seq
      BY <1>1 DEF Inv, HooksKnown, HookKnown
    <2>4. Backs(e, r)
      BY <1>4, <2>3 DEF Backs, SameMessage
    <2>5. k \in DOMAIN delivery'[n] /\ delivery'[n][k].msg
      BY <1>2, <1>5, <1>14 DEF FoundHolds
    <2> QED
      BY ZenonT(40), <1>2, <1>3, <1>4, <2>2, <2>4, <2>5 DEF EventsBacked, Backs, SameMessage, IdOf
  <1>16. \A m, j, types : HasEvent(m, j, types) => HasEvent(m, j, types)'
    BY <1>3 DEF HasEvent, StoredFor
  <1>17. HooksKnown'
    <2> SUFFICES ASSUME NEW g \in Hooks, g # h PROVE HookKnown(g)'
      BY <1>7 DEF HooksKnown
    <2>1. HookKnown(g) /\ hook'[g] = hook[g] /\ (g \in Uncommitted' <=> g \in Uncommitted)
      BY <1>8 DEF Inv, HooksKnown, Uncommitted
    <2>2. g \in Uncommitted => hook[g].pc # "idle"
      BY DEF Uncommitted
    <2>3. hook[g].pc \in Waiting => hook[g].pc # "idle"
      BY DEF Waiting
    <2>4. hook[g].pc # "idle" => hook[g].report.notif \in Notifications
      BY HookReport DEF Report
    <2>5. FoundHolds(g) /\ hook[g].pc \in Waiting => FoundHolds(g)'
      BY <1>14, <1>16, <2>1, <2>3, <2>4 DEF FoundHolds
    <2>6. g \in Uncommitted => ~Stored(g)'
      <3> SUFFICES ASSUME g \in Uncommitted PROVE ~Stored(g)'
        OBVIOUS
      <3>1. ~Stored(g) /\ ~SameKey(hook[g].report, r)
        BY <2>1 DEF HookKnown, Commits
      <3>2. ~ (SameMessage(e, hook[g].report) /\ e.id = IdOf(hook[g].report))
        BY <1>4, <3>1 DEF SameKey, SameMessage
      <3> QED
        BY <1>3, <2>1, <3>1, <3>2 DEF Stored, SameMessage, IdOf
    <2> QED
      BY <1>3, <1>12, <2>1, <2>2, <2>3, <2>4, <2>5, <2>6 DEF HookKnown, MeantBy
  <1>18. KeysApart'
    <2>1. \A g \in Uncommitted' : g \in Uncommitted /\ hook'[g] = hook[g]
      BY <1>7, <1>8 DEF Uncommitted
    <2> QED
      BY <2>1 DEF Inv, KeysApart, SameKey, SameMessage, IdOf
  <1> QED
    BY <1>9, <1>10, <1>11, <1>13, <1>15, <1>17, <1>18 DEF Inv

\* The insertion, on each of its four paths.
LEMMA InsertStep ==
    ASSUME Inv, NEW h \in Hooks, Insert(h)
    PROVE  Inv'
  <1>1. /\ hook[h].pc = "insert" /\ ~KeyLocked(h) /\ UNCHANGED <<report, aborts>>
        /\ aborts' \in 0 .. MaxAborts
    BY DEF Insert, Inv, TypeOK, TrackingTypeOK
  <1>2. CASE Stored(h) \/ ~Live(hook[h].report.notif)
    <2>1. Quiet(h) /\ Done(h)
      BY <1>1, <1>2 DEF Insert, Quiet, Acknowledge
    <2> QED
      BY <1>1, <2>1, EndQuietly
  <1>3. CASE ~Stored(h) /\ Live(hook[h].report.notif) /\ ~Applies(h)
    <2>1. Commits(h)
      BY <1>1, <1>3, InsertMayCommit DEF Insert, CommitEventOnly, Commits, Waiting
    <2> QED
      BY <2>1, CommitStep
  <1>4. CASE ~Stored(h) /\ Live(hook[h].report.notif) /\ Applies(h)
    <2>1. Quiet(h) /\ hook' = [hook EXCEPT ![h].pc = "update"]
      BY <1>1, <1>4 DEF Insert, Quiet
    <2>2. hook[h].seen \in NotificationStatus /\ hook \in [Hooks -> HookRecord]
      BY DEF Inv, TypeOK, TrackingTypeOK, HookRecord
    <2>3. hook' = [hook EXCEPT ![h].pc = "update", ![h].seen = hook[h].seen]
      BY <2>1, <2>2 DEF HookRecord
    <2>4. FoundHolds(h)
      BY <1>1, <1>4 DEF Inv, HooksKnown, HookKnown, Waiting
    <2>5. MeantBy(h).target \in {"DELIVERED", "FAILED"}
      <3>1. MeantBy(h) \in Meaning
        BY <1>1, HookReport
      <3> QED
        BY <1>4, <2>4, <3>1 DEF Applies, CanTransitionDelivery, FoundHolds, Meaning
    <2>6. \A g \in Uncommitted : g # h => ~SameKey(hook[g].report, hook[h].report)
      BY <1>1, InsertMayCommit
    <2>7. hook[h].pc # "idle" /\ hook[h].pc \in Waiting
      BY <1>1 DEF Waiting
    <2> QED
      BY <1>1, <1>4, <2>1, <2>2, <2>3, <2>5, <2>6, <2>7, GoOn
  <1> QED
    BY <1>2, <1>3, <1>4

\* What holds of a webhook whose event is inserted and not committed.
LEMMA UncommittedKnown ==
    ASSUME Inv, NEW h \in Hooks, hook[h].pc \in {"update", "readNotification", "commit"}
    PROVE  /\ hook[h].pc # "idle"
           /\ hook[h].pc \in Waiting
           /\ Live(hook[h].report.notif)
           /\ ~Stored(h)
           /\ MeantBy(h).target \in {"DELIVERED", "FAILED"}
           /\ \A g \in Uncommitted : g # h => ~SameKey(hook[g].report, hook[h].report)
  <1>1. h \in Uncommitted
    BY DEF Uncommitted
  <1> QED
    BY <1>1 DEF Inv, HooksKnown, HookKnown, KeysApart, Waiting

\* The update of the attempt, and the lookup of the latest one.
LEMMA UpdateStep ==
    ASSUME Inv, NEW h \in Hooks, Update(h)
    PROVE  Inv'
  <1>1. hook[h].pc = "update" /\ UNCHANGED <<report, aborts>>
    BY DEF Update
  <1>2. CASE IsLatestAttempt(hook[h].report)
    <2>1. Quiet(h) /\ hook' = [hook EXCEPT ![h].pc = "readNotification"]
      BY <1>2 DEF Update, Quiet
    <2>2. hook[h].seen \in NotificationStatus /\ hook \in [Hooks -> HookRecord]
      BY DEF Inv, TypeOK, TrackingTypeOK, HookRecord
    <2>3. hook' = [hook EXCEPT ![h].pc = "readNotification", ![h].seen = hook[h].seen]
      BY <2>1, <2>2 DEF HookRecord
    <2> QED
      BY <1>1, <2>1, <2>2, <2>3, UncommittedKnown, GoOn
  <1>3. CASE ~IsLatestAttempt(hook[h].report)
    <2>1. Commits(h)
      BY <1>1, <1>3, UncommittedKnown DEF Update, Commits
    <2> QED
      BY <2>1, CommitStep
  <1> QED
    BY <1>2, <1>3

\* The second read of the notification.
LEMMA ReadNotificationStep ==
    ASSUME Inv, NEW h \in Hooks, ReadNotification(h)
    PROVE  Inv'
  <1> DEFINE n == hook[h].report.notif
  <1>1. hook[h].pc = "readNotification" /\ UNCHANGED aborts /\ Quiet(h)
    BY DEF ReadNotification, Quiet
  <1>2. n \in Notifications
    BY <1>1, HookReport DEF Report
  <1>3. notification[n].status \in NotificationStatus
    BY <1>2 DEF Inv, TypeOK, StoreTypeOK, NotificationRow
  <1>4. hook' = [hook EXCEPT ![h].pc = "commit", ![h].seen = notification[n].status]
    BY DEF ReadNotification
  <1> QED
    BY <1>1, <1>3, <1>4, UncommittedKnown, GoOn

\* Every step of a webhook keeps the invariant.
LEMMA WebhookKeeps ==
    ASSUME Inv, OutcomeWasReported, WebhookStep
    PROVE  Inv'
  <1> PICK h \in Hooks : HookStep(h) \/ Abort(h) \/ \E r \in report : Receive(h, r)
    BY DEF WebhookStep
  <1>1. CASE Commit(h)
    <2>1. Commits(h)
      BY <1>1, UncommittedKnown DEF Commit, Commits
    <2> QED
      BY <2>1, CommitStep
  <1>2. CASE Abort(h)
    <2>1. Quiet(h) /\ Done(h) /\ aborts' = aborts + 1 /\ aborts < MaxAborts
      BY <1>2 DEF Abort, Quiet
    <2>2. aborts' \in 0 .. MaxAborts
      BY <2>1, TrackingBoundAssumption DEF Inv, TypeOK, TrackingTypeOK
    <2> QED
      BY <2>1, <2>2, EndQuietly
  <1> QED
    BY <1>1, <1>2, ReceiveStep, FindStep, InsertStep, UpdateStep, ReadNotificationStep
       DEF HookStep

\* A report is new: its number is the next one of its message.
LEMMA ReportStep ==
    ASSUME Inv, NEW n \in Notifications, NEW k \in DOMAIN delivery[n],
           NEW type \in ProviderTypes, ProviderReports(n, k, type)
    PROVE  /\ Inv'
           /\ ReportsOf(n, k) \subseteq report
           /\ Cardinality(ReportsOf(n, k)) \in Nat
  <1> DEFINE seq == Cardinality(ReportsOf(n, k)) + 1
             r == [notif |-> n, attempt |-> k, seq |-> seq, type |-> type]
  <1>1. delivery[n] \in Seq(DeliveryRow) /\ k \in Nat
    BY DEF Inv, TypeOK, StoreTypeOK
  <1>2. ReportsOf(n, k) \subseteq report /\ Cardinality(ReportsOf(n, k)) \in Nat
    BY FS_Subset, FS_CardinalityType DEF Inv, ReportsKnown, ReportsOf
  <1>3. r \in Report /\ report' = report \cup {r}
    BY <1>1, <1>2 DEF ProviderReports, Report
  <1>4. UNCHANGED <<notification, delivery, acked, event, hook, aborts>>
    BY DEF ProviderReports
  <1>5. r.notif = n
    OBVIOUS
  <1> HIDE DEF r
  <1>6. TypeOK' /\ TimesBounded' /\ RowsKnown' /\ KeysApart'
    <2>1. TypeOK'
      BY <1>3, <1>4 DEF Inv, TypeOK, StoreTypeOK, TrackingTypeOK
    <2>2. TimesBounded' /\ RowsKnown'
      BY <1>4 DEF Inv, TimesBounded, RowsKnown, Live
    <2>3. KeysApart'
      BY <1>4 DEF Inv, KeysApart, Uncommitted, SameKey, SameMessage, IdOf
    <2> QED
      BY <2>1, <2>2, <2>3
  <1>7. ReportsKnown'
    <2>1. notification[n].state # "absent"
      <3>1. delivery[n] # <<>>
        BY <1>1
      <3> QED
        BY <3>1 DEF Inv, RowsKnown, Live
    <2>2. IsFiniteSet(report \cup {r})
      BY FS_AddElement DEF Inv, ReportsKnown
    <2> QED
      BY <1>3, <1>4, <1>5, <2>1, <2>2 DEF Inv, ReportsKnown
  <1>8. EventsBacked'
    BY <1>3, <1>4 DEF Inv, EventsBacked, Backs, SameMessage, IdOf
  <1>9. HooksKnown'
    <2> SUFFICES ASSUME NEW h \in Hooks PROVE HookKnown(h)'
      BY DEF HooksKnown
    <2>1. HookKnown(h) /\ (FoundHolds(h) => FoundHolds(h)')
      BY <1>4 DEF Inv, HooksKnown, FoundHolds, HasEvent, StoredFor
    <2> QED
      BY <1>3, <1>4, <2>1 DEF HookKnown, Live, Uncommitted, Stored, SameMessage, IdOf, MeantBy
  <1> QED
    BY <1>2, <1>6, <1>7, <1>8, <1>9 DEF Inv

\* What the client and the sender may do to the rows: a notification once created
\* stays known, and an attempt with a message id stays as it is.
LEMMA MovesEffect ==
    ASSUME Inv, Moves
    PROVE  /\ StoreTypeOK'
           /\ RowsKnown'
           /\ \A n \in Notifications :
                 /\ Live(n) => Live(n)'
                 /\ Live(n)' /\ ~Live(n) => notification[n].state = "absent"
                 /\ notification[n].state # "absent" => notification'[n].state # "absent"
                 /\ notification'[n].status = "DELIVERED" => notification[n].status = "DELIVERED"
                 /\ notification'[n].deliveredAt = notification[n].deliveredAt
                 /\ \A k \in DOMAIN delivery'[n] :
                       \/ k \in DOMAIN delivery[n] /\ delivery'[n][k] = delivery[n][k]
                       \/ /\ k \in DOMAIN delivery[n] => ~delivery[n][k].msg
                          /\ \/ delivery'[n][k].status \in {"PROCESSING", "SENT"}
                             \/ delivery'[n][k].status = "FAILED" /\ ~delivery'[n][k].msg
                 /\ \A k \in DOMAIN delivery[n] : k \in DOMAIN delivery'[n]
  <1> DEFINE Effect ==
              /\ StoreTypeOK'
              /\ RowsKnown'
              /\ \A n \in Notifications :
                    /\ Live(n) => Live(n)'
                    /\ Live(n)' /\ ~Live(n) => notification[n].state = "absent"
                    /\ notification[n].state # "absent" => notification'[n].state # "absent"
                    /\ notification'[n].status = "DELIVERED" => notification[n].status = "DELIVERED"
                    /\ notification'[n].deliveredAt = notification[n].deliveredAt
                    /\ \A k \in DOMAIN delivery'[n] :
                          \/ k \in DOMAIN delivery[n] /\ delivery'[n][k] = delivery[n][k]
                          \/ /\ k \in DOMAIN delivery[n] => ~delivery[n][k].msg
                             /\ \/ delivery'[n][k].status \in {"PROCESSING", "SENT"}
                                \/ delivery'[n][k].status = "FAILED" /\ ~delivery'[n][k].msg
                    /\ \A k \in DOMAIN delivery[n] : k \in DOMAIN delivery'[n]
  <1> PICK n \in Notifications :
          \/ Appear(n) \/ Edit(n)
          \/ \E edition \in Editions : Open(n, edition)
          \/ \E k \in DOMAIN delivery[n] : Close(n, k)
    BY DEF Moves
  <1>1. /\ notification \in [Notifications -> NotificationRow]
        /\ delivery \in [Notifications -> Seq(DeliveryRow)]
    BY DEF Inv, TypeOK, StoreTypeOK
  <1>2. notification[n] \in NotificationRow /\ delivery[n] \in Seq(DeliveryRow)
    BY <1>1
  <1>3. CASE Appear(n)
    <2>1. /\ notification' = [notification EXCEPT ![n].state = "live"] /\ UNCHANGED delivery
          /\ notification[n].state = "absent"
      BY <1>3 DEF Appear, InsertNotification
    <2>2. StoreTypeOK'
      BY <1>1, <1>2, <2>1 DEF StoreTypeOK, NotificationRow
    <2>3. RowsKnown'
      BY <1>1, <1>2, <2>1 DEF Inv, RowsKnown, Live, NotificationRow
    <2> QED
      BY <1>1, <1>2, <2>1, <2>2, <2>3 DEF Live, NotificationRow
  <1>4. ASSUME NEW edition \in Editions, Open(n, edition)
        PROVE  Effect
    <2> DEFINE row == [status |-> "PROCESSING", error |-> FALSE, edition |-> edition, msg |-> FALSE]
    <2>1. /\ Live(n)
          /\ delivery' = [delivery EXCEPT ![n] = Append(@, row)]
          /\ notification' = [notification EXCEPT ![n].status = "PROCESSING",
                                                  ![n].error = FALSE]
      BY <1>4 DEF Open, InsertDelivery
    <2>2. row \in DeliveryRow /\ row.status = "PROCESSING" /\ ~row.msg
      BY AttemptAssumption DEF DeliveryRow, DeliveryStatus
    <2> HIDE DEF row
    <2>3. /\ delivery'[n] = Append(delivery[n], row)
          /\ \A m \in Notifications : m # n => delivery'[m] = delivery[m]
      BY <1>1, <2>1
    <2>4. /\ DOMAIN delivery'[n] = DOMAIN delivery[n] \cup {Len(delivery[n]) + 1}
          /\ \A k \in DOMAIN delivery[n] : delivery'[n][k] = delivery[n][k]
          /\ Len(delivery[n]) + 1 \notin DOMAIN delivery[n]
          /\ delivery'[n][Len(delivery[n]) + 1] = row
      BY <1>2, <2>2, <2>3
    <2>5. /\ notification'[n].state = notification[n].state
          /\ notification'[n].deliveredAt = notification[n].deliveredAt
          /\ notification'[n].status = "PROCESSING"
          /\ \A m \in Notifications : m # n => notification'[m] = notification[m]
      BY <1>1, <1>2, <2>1 DEF NotificationRow
    <2>6. StoreTypeOK'
      <3>1. Append(delivery[n], row) \in Seq(DeliveryRow)
        BY <1>2, <2>2
      <3> QED
        BY <1>1, <1>2, <2>1, <3>1 DEF StoreTypeOK, NotificationRow, NotificationStatus
    <2>7. \A m \in Notifications : \A j \in DOMAIN delivery'[m] :
              \/ j \in DOMAIN delivery[m] /\ delivery'[m][j] = delivery[m][j]
              \/ j \notin DOMAIN delivery[m] /\ delivery'[m][j] = row
      BY <2>3, <2>4
    <2>8. \A m \in Notifications : Live(m)' <=> Live(m)
      BY <2>5 DEF Live
    <2>9. RowsKnown'
      <3>1. \A m \in Notifications :
                ~Live(m)' => delivery'[m] = <<>> /\ notification'[m].status = "PENDING"
        <4> SUFFICES ASSUME NEW m \in Notifications, ~Live(m)'
                     PROVE  delivery'[m] = <<>> /\ notification'[m].status = "PENDING"
          OBVIOUS
        <4>1. ~Live(m) /\ m # n
          BY <2>1, <2>8
        <4>2. delivery[m] = <<>> /\ notification[m].status = "PENDING"
          BY <4>1 DEF Inv, RowsKnown
        <4> QED
          BY <2>3, <2>5, <4>1, <4>2
      <3>2. \A m \in Notifications : \A j \in DOMAIN delivery'[m] :
                delivery'[m][j].msg => delivery'[m][j].status \in {"SENT", "DELIVERED", "FAILED"}
        BY <2>2, <2>7 DEF Inv, RowsKnown
      <3> QED
        BY <3>1, <3>2 DEF RowsKnown, Live
    <2>10. \A m \in Notifications : \A j \in DOMAIN delivery[m] : j \in DOMAIN delivery'[m]
      BY <2>3, <2>4
    <2>11. \A m \in Notifications :
              /\ notification'[m].state = notification[m].state
              /\ notification'[m].deliveredAt = notification[m].deliveredAt
              /\ notification'[m].status = "DELIVERED" => notification[m].status = "DELIVERED"
      BY <2>5
    <2> QED
      BY <2>2, <2>6, <2>7, <2>8, <2>9, <2>10, <2>11
  <1>5. ASSUME NEW k \in DOMAIN delivery[n], Close(n, k)
        PROVE  Effect
    <2>1. /\ Live(n) /\ delivery[n][k].status = "PROCESSING"
          /\ MarkSent(n, k) \/ MarkFailed(n, k)
      BY <1>5 DEF Close
    <2>2. k \in DOMAIN delivery[n] /\ delivery[n][k] \in DeliveryRow /\ ~delivery[n][k].msg
      <3>1. k \in DOMAIN delivery[n] /\ delivery[n][k] \in DeliveryRow
        BY <1>2
      <3> QED
        BY <2>1, <3>1 DEF Inv, RowsKnown
    <2>3. PICK row \in DeliveryRow :
              /\ delivery' = [delivery EXCEPT ![n][k] = row]
              /\ row.status = "SENT" \/ (row.status = "FAILED" /\ ~row.msg)
      <3>1. CASE MarkSent(n, k)
        <4> DEFINE row == [delivery[n][k] EXCEPT !.status = "SENT", !.error = FALSE, !.msg = TRUE]
        <4>1. row \in DeliveryRow /\ row.status = "SENT"
          BY <2>2 DEF DeliveryRow, DeliveryStatus
        <4>2. delivery' = [delivery EXCEPT ![n][k] = row]
          BY <1>1, <2>2, <3>1 DEF MarkSent
        <4> QED
          BY <4>1, <4>2
      <3>2. CASE MarkFailed(n, k)
        <4> DEFINE row == [delivery[n][k] EXCEPT !.status = "FAILED", !.error = TRUE]
        <4>1. row \in DeliveryRow /\ row.status = "FAILED" /\ ~row.msg
          BY <2>2 DEF DeliveryRow, DeliveryStatus
        <4>2. delivery' = [delivery EXCEPT ![n][k] = row]
          BY <1>1, <2>2, <3>2 DEF MarkFailed
        <4> QED
          BY <4>1, <4>2
      <3> QED
        BY <2>1, <3>1, <3>2
    <2>4. /\ delivery' \in [Notifications -> Seq(DeliveryRow)]
          /\ \A m \in Notifications :
                DOMAIN delivery'[m] = DOMAIN delivery[m] /\ Len(delivery'[m]) = Len(delivery[m])
          /\ delivery'[n][k] = row
          /\ \A m \in Notifications : \A j \in DOMAIN delivery[m] :
                ~(m = n /\ j = k) => delivery'[m][j] = delivery[m][j]
      BY <1>1, <2>2, <2>3, RowUpdate
    <2>5. /\ notification' \in [Notifications -> NotificationRow]
          /\ notification'[n].state = notification[n].state
          /\ notification'[n].deliveredAt = notification[n].deliveredAt
          /\ notification'[n].status \in {"SENT", "FAILED"}
          /\ \A m \in Notifications : m # n => notification'[m] = notification[m]
      <3>1. \/ notification' = [notification EXCEPT ![n].status = "SENT", ![n].error = FALSE]
            \/ notification' = [notification EXCEPT ![n].status = "FAILED", ![n].error = TRUE]
        BY <2>1 DEF MarkSent, MarkFailed
      <3>2. CASE notification' = [notification EXCEPT ![n].status = "SENT", ![n].error = FALSE]
        BY <1>1, <1>2, <3>2 DEF NotificationRow, NotificationStatus
      <3>3. CASE notification' = [notification EXCEPT ![n].status = "FAILED", ![n].error = TRUE]
        BY <1>1, <1>2, <3>3 DEF NotificationRow, NotificationStatus
      <3> QED
        BY <3>1, <3>2, <3>3
    <2>6. \A m \in Notifications : delivery[m] = <<>> => delivery'[m] = <<>>
      BY <1>1, <2>4
    <2>7. RowsKnown'
      <3>1. \A m \in Notifications :
                ~Live(m)' => delivery'[m] = <<>> /\ notification'[m].status = "PENDING"
        BY <2>1, <2>5, <2>6 DEF Inv, RowsKnown, Live
      <3>2. \A m \in Notifications : \A j \in DOMAIN delivery'[m] :
                delivery'[m][j].msg => delivery'[m][j].status \in {"SENT", "DELIVERED", "FAILED"}
        BY <2>3, <2>4 DEF Inv, RowsKnown
      <3> QED
        BY <3>1, <3>2 DEF RowsKnown, Live
    <2> QED
      BY <2>1, <2>2, <2>3, <2>4, <2>5, <2>7 DEF Live, StoreTypeOK
  <1>6. CASE Edit(n)
    <2>1. /\ notification' = [notification EXCEPT ![n].edition = @ + 1] /\ UNCHANGED delivery
          /\ Live(n)
      BY <1>6 DEF Edit, EditNotification
    <2>2. StoreTypeOK'
      <3>1. [notification[n] EXCEPT !.edition = @ + 1] \in NotificationRow
        BY <1>2 DEF NotificationRow
      <3> QED
        BY <1>1, <2>1, <3>1 DEF StoreTypeOK
    <2>3. \A m \in Notifications : /\ notification'[m].state = notification[m].state
                                   /\ notification'[m].status = notification[m].status
                                   /\ notification'[m].deliveredAt = notification[m].deliveredAt
      BY <1>1, <1>2, <2>1 DEF NotificationRow
    <2>4. RowsKnown'
      BY <2>1, <2>3 DEF Inv, RowsKnown, Live
    <2>5. delivery' = delivery
      BY <2>1
    <2>6. \A m \in Notifications :
              \A k \in DOMAIN delivery'[m] : k \in DOMAIN delivery[m] /\ delivery'[m][k] = delivery[m][k]
      BY <2>5
    <2>7. \A m \in Notifications : \A k \in DOMAIN delivery[m] : k \in DOMAIN delivery'[m]
      BY <2>5
    <2>8. \A m \in Notifications : Live(m)' <=> Live(m)
      BY <2>3 DEF Live
    <2> QED
      BY <2>2, <2>3, <2>4, <2>6, <2>7, <2>8
  <1> QED
    BY <1>3, <1>4, <1>5, <1>6

\* Clients and the sender keep the invariant.
LEMMA MovesStep ==
    ASSUME Inv, Moves
    PROVE  Inv'
  <1>1. UNCHANGED trackingVars
    BY DEF Moves
  <1>2. /\ StoreTypeOK'
        /\ RowsKnown'
        /\ \A n \in Notifications :
              /\ Live(n) => Live(n)'
              /\ Live(n)' /\ ~Live(n) => notification[n].state = "absent"
              /\ notification[n].state # "absent" => notification'[n].state # "absent"
              /\ \A k \in DOMAIN delivery[n] :
                    delivery[n][k].msg => k \in DOMAIN delivery'[n] /\ delivery'[n][k].msg
    BY MovesEffect
  <1>3. TypeOK' /\ TimesBounded'
    BY <1>1, <1>2 DEF Inv, TypeOK, TrackingTypeOK, TimesBounded, trackingVars
  <1>4. report \subseteq Report /\ event \subseteq EventRow
    BY DEF Inv, TypeOK, TrackingTypeOK
  <1>5. ReportsKnown'
    BY <1>1, <1>2, <1>4 DEF Inv, ReportsKnown, Report, trackingVars
  <1>6. EventsBacked'
    <2>1. \A v \in event : v.notif \in Notifications
      BY <1>4 DEF EventRow
    <2>2. \A v \in event, r \in report : Backs(v, r) => Backs(v, r)'
      BY DEF Backs, SameMessage, IdOf
    <2> QED
      BY <1>1, <1>2, <2>1, <2>2 DEF Inv, EventsBacked, trackingVars
  <1>7. HooksKnown'
    <2> SUFFICES ASSUME NEW h \in Hooks PROVE HookKnown(h)'
      BY DEF HooksKnown
    <2>1. HookKnown(h) /\ UNCHANGED <<hook, event, report>>
      BY <1>1 DEF Inv, HooksKnown, trackingVars
    <2>2. CASE hook[h].pc = "idle"
      BY <2>1, <2>2 DEF HookKnown, Waiting, Uncommitted
    <2>3. CASE hook[h].pc # "idle"
      <3>1. /\ hook[h].report \in report
            /\ hook[h].report.notif \in Notifications
        BY <2>3, HookReport DEF Report
      <3>2. notification[hook[h].report.notif].state # "absent"
        BY <3>1 DEF Inv, ReportsKnown
      <3>3. Live(hook[h].report.notif)' <=> Live(hook[h].report.notif)
        BY <1>2, <2>1, <3>1, <3>2 DEF Live
      <3>4. FoundHolds(h) => FoundHolds(h)'
        BY <1>2, <2>1, <3>1 DEF FoundHolds, HasEvent, StoredFor
      <3>5. (~Stored(h) => ~Stored(h)') /\ (h \in Uncommitted' <=> h \in Uncommitted)
        BY <2>1 DEF Stored, SameMessage, IdOf, Uncommitted
      <3> QED
        BY <2>1, <3>1, <3>3, <3>4, <3>5 DEF HookKnown, MeantBy
    <2> QED
      BY <2>2, <2>3
  <1>8. KeysApart'
    BY <1>1 DEF Inv, KeysApart, Uncommitted, SameKey, SameMessage, IdOf, trackingVars
  <1> QED
    BY <1>2, <1>3, <1>5, <1>6, <1>7, <1>8 DEF Inv

\* A deletion waits for the webhooks that hold the attempts, and takes the
\* attempts and their events along.
LEMMA DisappearStep ==
    ASSUME Inv, NEW n \in Notifications, Disappear(n)
    PROVE  /\ Inv'
           /\ \A m \in Notifications : m # n =>
                 delivery'[m] = delivery[m] /\ notification'[m] = notification[m]
           /\ ~Live(n)' /\ delivery'[n] = <<>> /\ notification'[n].status = "PENDING"
           /\ notification'[n].deliveredAt = 0
           /\ event' = {v \in event : v.notif # n}
  <1>1. /\ notification \in [Notifications -> NotificationRow]
        /\ delivery \in [Notifications -> Seq(DeliveryRow)]
        /\ report \subseteq Report /\ event \subseteq EventRow
    BY DEF Inv, TypeOK, StoreTypeOK, TrackingTypeOK
  <1>2. /\ notification' = [notification EXCEPT ![n] = [Absent EXCEPT !.state = "deleted"]]
        /\ delivery' = [delivery EXCEPT ![n] = <<>>]
        /\ event' = {v \in event : v.notif # n}
        /\ UNCHANGED <<report, acked, hook, aborts>>
        /\ Live(n)
    BY DEF Disappear, DeleteNotification, DeleteEvents
  <1>3. /\ notification'[n] \in NotificationRow /\ notification'[n].state = "deleted"
        /\ notification'[n].status = "PENDING" /\ delivery'[n] = <<>>
        /\ notification'[n].deliveredAt = 0
        /\ \A m \in Notifications : m # n =>
              delivery'[m] = delivery[m] /\ notification'[m] = notification[m]
    BY <1>1, <1>2 DEF Absent, NotificationRow, NotificationStatus
  <1>4. StoreTypeOK'
    <2>1. <<>> \in Seq(DeliveryRow)
      OBVIOUS
    <2>2. delivery' \in [Notifications -> Seq(DeliveryRow)]
      BY <1>1, <1>2, <2>1
    <2>3. [Absent EXCEPT !.state = "deleted"] \in NotificationRow
      BY DEF Absent, NotificationRow, NotificationStatus
    <2>4. notification' \in [Notifications -> NotificationRow]
      BY <1>1, <1>2, <2>3
    <2> QED
      BY <2>2, <2>4 DEF StoreTypeOK
  <1>5. TypeOK' /\ TimesBounded'
    BY <1>2, <1>4 DEF Inv, TypeOK, TrackingTypeOK, TimesBounded
  <1>6. ReportsKnown'
    <2>1. \A r \in report : r.notif \in Notifications
      BY <1>1 DEF Report
    <2> QED
      BY <1>2, <1>3, <2>1 DEF Inv, ReportsKnown
  <1>7. RowsKnown'
    <2> SUFFICES ASSUME NEW m \in Notifications
                 PROVE  /\ ~Live(m)' => delivery'[m] = <<>> /\ notification'[m].status = "PENDING"
                        /\ \A k \in DOMAIN delivery'[m] :
                              delivery'[m][k].msg =>
                                  delivery'[m][k].status \in {"SENT", "DELIVERED", "FAILED"}
      BY DEF RowsKnown, Live
    <2>1. CASE m = n
      BY <1>3, <2>1
    <2>2. CASE m # n
      BY <1>3, <2>2 DEF Inv, RowsKnown, Live
    <2> QED
      BY <2>1, <2>2
  <1>8. EventsBacked'
    <2>1. \A v \in event : v.notif \in Notifications
      BY <1>1 DEF EventRow
    <2>2. \A v \in event, r \in report : Backs(v, r) => Backs(v, r)'
      BY DEF Backs, SameMessage, IdOf
    <2> QED
      BY <1>2, <1>3, <2>1, <2>2 DEF Inv, EventsBacked
  <1>9. HooksKnown'
    <2> SUFFICES ASSUME NEW h \in Hooks PROVE HookKnown(h)'
      BY DEF HooksKnown
    <2> DEFINE r == hook[h].report
    <2>1. HookKnown(h) /\ UNCHANGED <<hook, report>> /\ (h \in Uncommitted' <=> h \in Uncommitted)
      BY <1>2 DEF Inv, HooksKnown, Uncommitted
    <2>2. CASE hook[h].pc = "idle"
      BY <2>1, <2>2 DEF HookKnown, Waiting, Uncommitted
    <2>3. CASE hook[h].pc # "idle" /\ r.notif = n
      <3>1. h \notin Uncommitted
        BY <2>3 DEF Disappear, Deletable
      <3>2. ~Live(r.notif)'
        BY <1>3, <2>1, <2>3 DEF Live
      <3> QED
        BY <2>1, <3>1, <3>2 DEF HookKnown
    <2>4. CASE hook[h].pc # "idle" /\ r.notif # n
      <3>1. r.notif \in Notifications
        BY <2>4, HookReport DEF Report
      <3>2. Live(r.notif)' <=> Live(r.notif)
        BY <1>3, <2>1, <2>4, <3>1 DEF Live
      <3>3. FoundHolds(h) => FoundHolds(h)'
        BY <1>2, <1>3, <2>1, <2>4, <3>1 DEF FoundHolds, HasEvent, StoredFor
      <3>4. ~Stored(h) => ~Stored(h)'
        BY <1>2, <2>1 DEF Stored, SameMessage, IdOf
      <3> QED
        BY <2>1, <3>2, <3>3, <3>4 DEF HookKnown, MeantBy
    <2> QED
      BY <2>2, <2>3, <2>4
  <1>10. KeysApart'
    BY <1>2 DEF Inv, KeysApart, Uncommitted, SameKey, SameMessage, IdOf
  <1> QED
    BY <1>2, <1>3, <1>5, <1>6, <1>7, <1>8, <1>9, <1>10 DEF Inv, Live

-----------------------------------------------------------------------------
(* What the events say of the rows.                                        *)

\* Every step is of one of the kinds above.
LEMMA NextKinds ==
    ASSUME Inv, [Next]_vars
    PROVE  \/ UNCHANGED vars
           \/ \E h \in Hooks : Quiet(h) \/ Commits(h)
           \/ \E n \in Notifications : \E k \in DOMAIN delivery[n], type \in ProviderTypes :
                  ProviderReports(n, k, type)
           \/ Moves
           \/ \E n \in Notifications : Disappear(n)
  <1>1. CASE WebhookStep
    BY <1>1, HookStepKinds DEF WebhookStep
  <1>2. ASSUME NEW n \in Notifications,
               \/ Appear(n) \/ Edit(n)
               \/ \E edition \in Editions : Open(n, edition)
               \/ \E k \in DOMAIN delivery[n] : Close(n, k)
        PROVE  Moves
    BY <1>2 DEF Moves, Appear, Edit, Open, Close
  <1> QED
    BY <1>1, <1>2 DEF Next

\* What provider and webhooks may do to the rows: the outcome of a notification
\* that is there, and an attempt that has a message id and keeps its text.
LEMMA WebhookEffect ==
    ASSUME Inv,
           \/ WebhookStep
           \/ \E n \in Notifications : \E k \in DOMAIN delivery[n], type \in ProviderTypes :
                  ProviderReports(n, k, type)
    PROVE  /\ StoreTypeOK'
           /\ \A n \in Notifications :
                 /\ DOMAIN delivery'[n] = DOMAIN delivery[n]
                 /\ notification'[n].state = notification[n].state
                 /\ notification'[n].edition = notification[n].edition
                 /\ ~Live(n) => notification'[n] = notification[n]
                 /\ delivery[n] = <<>> => delivery'[n] = <<>>
                 /\ \A k \in DOMAIN delivery[n] :
                       \/ delivery'[n][k] = delivery[n][k]
                       \/ /\ delivery[n][k].msg /\ delivery'[n][k].msg
                          /\ delivery'[n][k].edition = delivery[n][k].edition
  <1>1. CASE UNCHANGED <<notification, delivery>>
    BY <1>1 DEF Inv, TypeOK, StoreTypeOK
  <1>2. ASSUME NEW h \in Hooks, Commits(h)
        PROVE  /\ StoreTypeOK'
               /\ \A n \in Notifications :
                     /\ DOMAIN delivery'[n] = DOMAIN delivery[n]
                     /\ notification'[n].state = notification[n].state
                     /\ notification'[n].edition = notification[n].edition
                     /\ ~Live(n) => notification'[n] = notification[n]
                     /\ delivery[n] = <<>> => delivery'[n] = <<>>
                     /\ \A k \in DOMAIN delivery[n] :
                           \/ delivery'[n][k] = delivery[n][k]
                           \/ /\ delivery[n][k].msg /\ delivery'[n][k].msg
                              /\ delivery'[n][k].edition = delivery[n][k].edition
    BY <1>2, CommitEffect DEF Commits, FoundHolds
  <1> QED
    BY <1>1, <1>2, HookStepKinds DEF WebhookStep, Quiet, ProviderReports

\* The event that a commit adds.
LEMMA CommitAdds ==
    ASSUME Inv, NEW h \in Hooks, Commits(h)
    PROVE  LET r == hook[h].report
           IN  /\ event' = event \cup {EventOf(h)}
               /\ acked' = acked \cup {r}
               /\ EventOf(h) \in event'
               /\ SameMessage(EventOf(h), r)
               /\ EventOf(h).id = IdOf(r)
               /\ EventOf(h).eventType = MeantBy(h).eventType
               /\ EventOf(h).at = hook[h].at
               /\ r.notif \in Notifications
               /\ \A n, k : n = r.notif /\ k = r.attempt =>
                     /\ MeantBy(h).target = "DELIVERED" => HasEvent(n, k, {"DELIVERED"})'
                     /\ MeantBy(h).target = "FAILED" => HasEvent(n, k, Failures)'
               /\ \A n, k, types : HasEvent(n, k, types) => HasEvent(n, k, types)'
  <1> DEFINE r == hook[h].report
             e == EventOf(h)
  <1>1. event' = event \cup {e} /\ acked' = acked \cup {r}
    BY DEF Commits, CommitEvent, Acknowledge
  <1>2. /\ e.notif = r.notif /\ e.attempt = r.attempt /\ e.id = IdOf(r)
        /\ e.eventType = MeantBy(h).eventType /\ e.at = hook[h].at
    BY DEF EventOf
  <1>3. hook[h].pc # "idle"
    BY DEF Commits, Waiting
  <1>4. /\ r \in Report
        /\ MeantBy(h).target = "DELIVERED" => e.eventType = "DELIVERED"
        /\ MeantBy(h).target = "FAILED" => e.eventType \in Failures
    BY <1>2, <1>3, HookReport
  <1> HIDE DEF e
  <1>5. e \in event' /\ SameMessage(e, r) /\ r.notif \in Notifications
    BY <1>1, <1>2, <1>4 DEF SameMessage, Report
  <1>6. ASSUME NEW n, NEW k, n = r.notif, k = r.attempt, NEW types, e.eventType \in types
        PROVE  HasEvent(n, k, types)'
    BY <1>2, <1>5, <1>6 DEF HasEvent, StoredFor
  <1>7. ASSUME NEW n, NEW k, NEW types, HasEvent(n, k, types) PROVE HasEvent(n, k, types)'
    BY <1>1, <1>7 DEF HasEvent, StoredFor
  <1>8. ASSUME NEW n, NEW k, n = r.notif, k = r.attempt
        PROVE  /\ MeantBy(h).target = "DELIVERED" => HasEvent(n, k, {"DELIVERED"})'
               /\ MeantBy(h).target = "FAILED" => HasEvent(n, k, Failures)'
    BY <1>4, <1>6, <1>8 DEF Failures
  <1> QED
    BY <1>1, <1>2, <1>5, <1>7, <1>8 DEF e

\* An outcome comes with its event, and events leave only with their attempt.
LEMMA OutcomeStep ==
    ASSUME Inv, OutcomeWasReported, [Next]_vars
    PROVE  OutcomeWasReported'
  <1>1. CASE \/ UNCHANGED vars
             \/ \E h \in Hooks : Quiet(h)
             \/ \E n \in Notifications : \E k \in DOMAIN delivery[n], type \in ProviderTypes :
                    ProviderReports(n, k, type)
    <2>1. UNCHANGED <<notification, delivery, event>>
      BY <1>1 DEF vars, Quiet, ProviderReports
    <2> QED
      BY <2>1 DEF OutcomeWasReported, HasEvent, StoredFor
  <1>2. ASSUME NEW h \in Hooks, Commits(h) PROVE OutcomeWasReported'
    <2> DEFINE r == hook[h].report
               target == MeantBy(h).target
    <2>1. /\ FoundHolds(h)
          /\ \A n \in Notifications :
                /\ DOMAIN delivery'[n] = DOMAIN delivery[n]
                /\ \/ notification'[n].status = notification[n].status
                   \/ n = r.notif /\ notification'[n].status = target
                /\ \A k \in DOMAIN delivery[n] :
                      \/ delivery'[n][k] = delivery[n][k]
                      \/ /\ n = r.notif /\ k = r.attempt
                         /\ delivery'[n][k].status = target
      BY <1>2, CommitEffect
    <2>2. /\ r.notif \in Notifications
          /\ \A n, k : n = r.notif /\ k = r.attempt =>
                /\ target = "DELIVERED" => HasEvent(n, k, {"DELIVERED"})'
                /\ target = "FAILED" => HasEvent(n, k, Failures)'
          /\ \A n, k, types : HasEvent(n, k, types) => HasEvent(n, k, types)'
      BY <1>2, CommitAdds
    <2>3. r.attempt \in DOMAIN delivery[r.notif]
      BY <2>1 DEF FoundHolds
    <2> HIDE DEF r, target
    <2>6. /\ \A n, k : HasEvent(n, k, {"DELIVERED"}) => HasEvent(n, k, {"DELIVERED"})'
          /\ \A n, k : HasEvent(n, k, Failures) => HasEvent(n, k, Failures)'
      BY <2>2 DEF Failures
    <2> SUFFICES ASSUME NEW n \in Notifications
                 PROVE  /\ notification'[n].status = "DELIVERED" =>
                              \E k \in DOMAIN delivery'[n] : HasEvent(n, k, {"DELIVERED"})'
                        /\ \A k \in DOMAIN delivery'[n] :
                              /\ delivery'[n][k].status = "DELIVERED" =>
                                    HasEvent(n, k, {"DELIVERED"})'
                              /\ delivery'[n][k].status = "FAILED" /\ delivery'[n][k].msg =>
                                    HasEvent(n, k, Failures)'
      BY DEF OutcomeWasReported, HasEvent, StoredFor, Failures
    <2>4. ASSUME notification'[n].status = "DELIVERED"
          PROVE  \E k \in DOMAIN delivery'[n] : HasEvent(n, k, {"DELIVERED"})'
      <3>1. CASE notification[n].status = "DELIVERED"
        <4>1. PICK k \in DOMAIN delivery[n] : HasEvent(n, k, {"DELIVERED"})
          BY <3>1 DEF OutcomeWasReported
        <4>2. k \in DOMAIN delivery'[n] /\ HasEvent(n, k, {"DELIVERED"})'
          BY <2>1, <2>6, <4>1
        <4> QED
          BY <4>2
      <3>2. CASE n = r.notif /\ target = "DELIVERED"
        <4>1. PICK k \in DOMAIN delivery'[n] : k = r.attempt
          BY <2>1, <2>3, <3>2
        <4>2. HasEvent(n, k, {"DELIVERED"})'
          BY <2>2, <3>2, <4>1
        <4> QED
          BY <4>2
      <3> QED
        BY <2>1, <2>4, <3>1, <3>2
    <2>5. ASSUME NEW k \in DOMAIN delivery'[n]
          PROVE  /\ delivery'[n][k].status = "DELIVERED" => HasEvent(n, k, {"DELIVERED"})'
                 /\ delivery'[n][k].status = "FAILED" /\ delivery'[n][k].msg =>
                       HasEvent(n, k, Failures)'
      <3>1. k \in DOMAIN delivery[n]
        BY <2>1
      <3>2. CASE delivery'[n][k] = delivery[n][k]
        <4>1. /\ delivery[n][k].status = "DELIVERED" => HasEvent(n, k, {"DELIVERED"})
              /\ delivery[n][k].status = "FAILED" /\ delivery[n][k].msg => HasEvent(n, k, Failures)
          BY <3>1 DEF OutcomeWasReported
        <4> QED
          BY <2>6, <3>2, <4>1
      <3>3. CASE n = r.notif /\ k = r.attempt /\ delivery'[n][k].status = target
        BY <2>2, <3>3
      <3> QED
        BY <2>1, <3>1, <3>2, <3>3
    <2> QED
      BY <2>4, <2>5
  <1>3. CASE Moves
    <2>1. UNCHANGED event
      BY <1>3 DEF Moves, trackingVars
    <2>2. \A n \in Notifications :
              /\ notification'[n].status = "DELIVERED" => notification[n].status = "DELIVERED"
              /\ \A k \in DOMAIN delivery'[n] :
                    \/ k \in DOMAIN delivery[n] /\ delivery'[n][k] = delivery[n][k]
                    \/ delivery'[n][k].status \in {"PROCESSING", "SENT"}
                    \/ delivery'[n][k].status = "FAILED" /\ ~delivery'[n][k].msg
              /\ \A k \in DOMAIN delivery[n] : k \in DOMAIN delivery'[n]
      BY <1>3, MovesEffect
    <2>3. \A n, k, types : HasEvent(n, k, types)' <=> HasEvent(n, k, types)
      BY <2>1 DEF HasEvent, StoredFor
    <2> SUFFICES ASSUME NEW n \in Notifications
                 PROVE  /\ notification'[n].status = "DELIVERED" =>
                              \E k \in DOMAIN delivery'[n] : HasEvent(n, k, {"DELIVERED"})
                        /\ \A k \in DOMAIN delivery'[n] :
                              /\ delivery'[n][k].status = "DELIVERED" =>
                                    HasEvent(n, k, {"DELIVERED"})
                              /\ delivery'[n][k].status = "FAILED" /\ delivery'[n][k].msg =>
                                    HasEvent(n, k, Failures)
      BY <2>1 DEF OutcomeWasReported, HasEvent, StoredFor, Failures
    <2> QED
      BY <2>2 DEF OutcomeWasReported
  <1>4. ASSUME NEW m \in Notifications, Disappear(m) PROVE OutcomeWasReported'
    <2>1. /\ \A n \in Notifications : n # m =>
                delivery'[n] = delivery[n] /\ notification'[n] = notification[n]
          /\ delivery'[m] = <<>> /\ notification'[m].status = "PENDING"
          /\ event' = {v \in event : v.notif # m}
      BY <1>4, DisappearStep
    <2>2. \A n, k, types : n # m /\ HasEvent(n, k, types) => HasEvent(n, k, types)'
      BY <2>1 DEF HasEvent, StoredFor
    <2> SUFFICES ASSUME NEW n \in Notifications
                 PROVE  /\ notification'[n].status = "DELIVERED" =>
                              \E k \in DOMAIN delivery'[n] : HasEvent(n, k, {"DELIVERED"})'
                        /\ \A k \in DOMAIN delivery'[n] :
                              /\ delivery'[n][k].status = "DELIVERED" =>
                                    HasEvent(n, k, {"DELIVERED"})'
                              /\ delivery'[n][k].status = "FAILED" /\ delivery'[n][k].msg =>
                                    HasEvent(n, k, Failures)'
      BY DEF OutcomeWasReported, HasEvent, StoredFor, Failures
    <2>3. CASE n = m
      BY <2>1, <2>3
    <2>4. CASE n # m
      BY <2>1, <2>2, <2>4 DEF OutcomeWasReported
    <2> QED
      BY <2>3, <2>4
  <1> QED
    BY <1>1, <1>2, <1>3, <1>4, NextKinds

\* deliveredAt names an attempt whose delivery is on record.
LEMMA DeliveredAtStep ==
    ASSUME Inv, DeliveredAtIsKnown, [Next]_vars
    PROVE  DeliveredAtIsKnown'
  <1> SUFFICES ASSUME NEW n \in Notifications, NEW k, k = notification'[n].deliveredAt
               PROVE  /\ notification'[n].status = "DELIVERED" => k > 0
                      /\ k > 0 => HasEvent(n, k, {"DELIVERED"})'
    BY DEF DeliveredAtIsKnown
  <1> DEFINE Kept == /\ notification'[n].status = "DELIVERED" => k > 0
                     /\ k > 0 => HasEvent(n, k, {"DELIVERED"})'
  <1>1. /\ notification[n].status = "DELIVERED" => notification[n].deliveredAt > 0
        /\ notification[n].deliveredAt > 0 =>
              HasEvent(n, notification[n].deliveredAt, {"DELIVERED"})
    BY DEF DeliveredAtIsKnown
  <1>2. CASE notification' = notification /\ event' = event
    BY <1>1, <1>2 DEF HasEvent, StoredFor
  <1>3. ASSUME NEW h \in Hooks, Commits(h)
        PROVE  Kept
    <2> DEFINE r == hook[h].report
               target == MeantBy(h).target
    <2>1. /\ target = "DELIVERED" /\ n = r.notif /\ k = r.attempt => HasEvent(n, k, {"DELIVERED"})'
          /\ HasEvent(n, k, {"DELIVERED"}) => HasEvent(n, k, {"DELIVERED"})'
          /\ r.notif \in Notifications
      <3>1. /\ event' = event \cup {EventOf(h)}
            /\ SameMessage(EventOf(h), r)
            /\ EventOf(h).eventType = MeantBy(h).eventType
            /\ r.notif \in Notifications
        BY <1>3, CommitAdds
      <3>2. target = "DELIVERED" => MeantBy(h).eventType = "DELIVERED"
        BY <1>3, HookReport DEF Commits, Waiting
      <3> QED
        BY <3>1, <3>2 DEF HasEvent, StoredFor, SameMessage
    <2>2. /\ r.attempt \in DOMAIN delivery[r.notif]
          /\ \/ /\ notification'[n].status = notification[n].status
                /\ notification'[n].deliveredAt = notification[n].deliveredAt
             \/ /\ n = r.notif /\ notification'[n].status = target
                /\ notification'[n].deliveredAt =
                      FirstDelivered(notification[n].deliveredAt, target, r.attempt)
      BY <1>3, CommitEffect DEF FoundHolds
    <2>3. r.attempt > 0
      BY <2>1, <2>2 DEF Inv, TypeOK, StoreTypeOK
    <2>4. notification[n].deliveredAt \in Nat
      BY DEF Inv, TypeOK, StoreTypeOK, NotificationRow
    <2>5. CASE /\ notification'[n].status = notification[n].status
               /\ notification'[n].deliveredAt = notification[n].deliveredAt
      BY <1>1, <2>1, <2>5
    <2>6. CASE /\ n = r.notif /\ notification'[n].status = target
               /\ notification'[n].deliveredAt =
                      FirstDelivered(notification[n].deliveredAt, target, r.attempt)
      <3>1. k = IF target = "DELIVERED" /\ notification[n].deliveredAt = 0
                THEN r.attempt ELSE notification[n].deliveredAt
        BY <2>6 DEF FirstDelivered
      <3>2. CASE target = "DELIVERED" /\ notification[n].deliveredAt = 0
        BY <2>1, <2>3, <2>6, <3>1, <3>2
      <3>3. CASE ~(target = "DELIVERED" /\ notification[n].deliveredAt = 0)
        BY <1>1, <2>1, <2>4, <2>6, <3>1, <3>3
      <3> QED
        BY <3>2, <3>3
    <2> QED
      BY <2>2, <2>5, <2>6
  <1>4. CASE Moves
    <2>1. /\ notification'[n].status = "DELIVERED" => notification[n].status = "DELIVERED"
          /\ notification'[n].deliveredAt = notification[n].deliveredAt
      BY <1>4, MovesEffect
    <2>2. event' = event
      BY <1>4 DEF Moves, trackingVars
    <2> QED
      BY <1>1, <2>1, <2>2 DEF HasEvent, StoredFor
  <1>5. ASSUME NEW m \in Notifications, Disappear(m)
        PROVE  Kept
    <2>1. /\ n # m => notification'[n] = notification[n]
          /\ n = m => notification'[n].status = "PENDING" /\ notification'[n].deliveredAt = 0
          /\ event' = {v \in event : v.notif # m}
      BY <1>5, DisappearStep
    <2> QED
      BY <1>1, <2>1 DEF HasEvent, StoredFor
  <1> QED
    BY <1>2, <1>3, <1>4, <1>5, NextKinds DEF Quiet, ProviderReports, vars

\* The key of a committed event was free.
LEMMA StoredOnceStep ==
    ASSUME Inv, StoredOnce, [Next]_vars
    PROVE  StoredOnce'
  <1>1. CASE event' \subseteq event
    BY <1>1 DEF StoredOnce, SameMessage
  <1>2. ASSUME NEW h \in Hooks, Commits(h) PROVE StoredOnce'
    <2>1. /\ event' = event \cup {EventOf(h)}
          /\ SameMessage(EventOf(h), hook[h].report)
          /\ EventOf(h).id = IdOf(hook[h].report)
      BY <1>2, CommitAdds
    <2>2. \A v \in event : ~ (SameMessage(v, EventOf(h)) /\ v.id = EventOf(h).id)
      BY <1>2, <2>1 DEF Commits, Stored, SameMessage
    <2> DEFINE e == EventOf(h)
    <2> HIDE DEF e
    <2> QED
      BY <2>1, <2>2 DEF StoredOnce, SameMessage
  <1>3. ASSUME ~ \E h \in Hooks : Commits(h) PROVE event' \subseteq event
    BY <1>3, NextKinds, DisappearStep DEF vars, Quiet, ProviderReports, Moves, trackingVars
  <1> QED
    BY <1>1, <1>2, <1>3

\* What is acknowledged is in the same commit, or was stored before.
LEMMA AckedStep ==
    ASSUME Inv, AckedIsStored, [Next]_vars
    PROVE  AckedIsStored'
  <1>1. \A r \in acked : r \in Report /\ r \in report /\ r.notif \in Notifications
    BY DEF Inv, TypeOK, TrackingTypeOK, Report
  <1>2. CASE UNCHANGED <<notification, event, acked>>
    BY <1>2 DEF AckedIsStored, Live, SameMessage, IdOf
  <1>3. ASSUME NEW h \in Hooks, Quiet(h) PROVE AckedIsStored'
    <2>1. UNCHANGED <<notification, event>>
      BY <1>3 DEF Quiet
    <2>2. \A r \in acked' : r \in acked \/ (r = hook[h].report /\ Stored(h))
      BY <1>3 DEF Quiet
    <2> QED
      BY <2>1, <2>2 DEF AckedIsStored, Live, Stored, SameMessage, IdOf
  <1>4. ASSUME NEW h \in Hooks, Commits(h) PROVE AckedIsStored'
    <2>1. /\ event' = event \cup {EventOf(h)}
          /\ acked' = acked \cup {hook[h].report}
          /\ SameMessage(EventOf(h), hook[h].report)
          /\ EventOf(h).id = IdOf(hook[h].report)
      BY <1>4, CommitAdds
    <2>2. \A n \in Notifications : notification'[n].state = notification[n].state
      BY <1>4, CommitEffect
    <2> SUFFICES ASSUME NEW r \in acked', Live(r.notif)'
                 PROVE  \E v \in event' : SameMessage(v, r) /\ v.id = IdOf(r)
      BY DEF AckedIsStored, SameMessage, IdOf
    <2>3. CASE r = hook[h].report
      BY <2>1, <2>3
    <2>4. CASE r \in acked
      BY <1>1, <2>1, <2>2, <2>4 DEF AckedIsStored, Live
    <2> QED
      BY <2>1, <2>3, <2>4
  <1>5. CASE Moves
    <2>1. UNCHANGED <<event, acked>>
      BY <1>5 DEF Moves, trackingVars
    <2>2. \A r \in acked : Live(r.notif)' => Live(r.notif)
      BY <1>1, <1>5, MovesEffect DEF Inv, ReportsKnown
    <2> QED
      BY <2>1, <2>2 DEF AckedIsStored, SameMessage, IdOf
  <1>6. ASSUME NEW m \in Notifications, Disappear(m) PROVE AckedIsStored'
    <2>1. /\ ~Live(m)' /\ event' = {v \in event : v.notif # m} /\ UNCHANGED acked
          /\ \A n \in Notifications : n # m => notification'[n] = notification[n]
      BY <1>6, DisappearStep DEF Disappear
    <2> SUFFICES ASSUME NEW r \in acked, Live(r.notif)'
                 PROVE  \E v \in event' : SameMessage(v, r) /\ v.id = IdOf(r)
      BY <2>1 DEF AckedIsStored, SameMessage, IdOf
    <2>2. r.notif # m
      BY <2>1
    <2>3. Live(r.notif)
      BY <1>1, <2>1, <2>2 DEF Live
    <2> QED
      BY <2>1, <2>2, <2>3 DEF AckedIsStored, SameMessage
  <1>7. ASSUME ~ \E h \in Hooks : Quiet(h) \/ Commits(h), ~Moves,
               ~ \E n \in Notifications : Disappear(n)
        PROVE  UNCHANGED <<notification, event, acked>>
    BY <1>7, NextKinds DEF vars, ProviderReports
  <1> QED
    BY <1>2, <1>3, <1>4, <1>5, <1>6, <1>7

-----------------------------------------------------------------------------
(* The status that clients read.                                           *)

\* A client or a sender leaves attempts and status of a notification alone, opens
\* an attempt, or closes one that is open, and sets the status to that.
LEMMA StatusMoves ==
    ASSUME Inv, Moves, NEW n \in Notifications
    PROVE  \/ /\ delivery'[n] = delivery[n]
              /\ notification'[n].status = notification[n].status
           \/ /\ Len(delivery'[n]) = Len(delivery[n]) + 1
              /\ delivery'[n][Len(delivery[n]) + 1].status = "PROCESSING"
              /\ \A j \in DOMAIN delivery[n] : delivery'[n][j] = delivery[n][j]
              /\ notification'[n].status = "PROCESSING"
           \/ \E k \in DOMAIN delivery[n] :
                 /\ delivery[n][k].status = "PROCESSING" /\ ~delivery[n][k].msg
                 /\ Len(delivery'[n]) = Len(delivery[n])
                 /\ \A j \in DOMAIN delivery[n] : j # k => delivery'[n][j] = delivery[n][j]
                 /\ delivery'[n][k].status = notification'[n].status
  <1> DEFINE Kept == /\ delivery'[n] = delivery[n]
                     /\ notification'[n].status = notification[n].status
  <1>1. /\ notification \in [Notifications -> NotificationRow]
        /\ delivery \in [Notifications -> Seq(DeliveryRow)]
        /\ notification[n] \in NotificationRow /\ delivery[n] \in Seq(DeliveryRow)
    BY DEF Inv, TypeOK, StoreTypeOK
  <1>2. PICK m \in Notifications :
          \/ Appear(m) \/ Edit(m)
          \/ \E edition \in Editions : Open(m, edition)
          \/ \E k \in DOMAIN delivery[m] : Close(m, k)
    BY DEF Moves
  <1>3. ASSUME Appear(m) \/ Edit(m)
        PROVE  Kept
    <2>1. UNCHANGED delivery
      BY <1>3 DEF Appear, Edit, InsertNotification, EditNotification
    <2>2. CASE notification' = [notification EXCEPT ![m].state = "live"]
      BY <1>1, <2>1, <2>2 DEF NotificationRow
    <2>3. ASSUME NEW e, notification' = [notification EXCEPT ![m].edition = e]
          PROVE  notification'[n].status = notification[n].status
      BY <1>1, <2>3 DEF NotificationRow
    <2> QED
      BY <1>3, <2>1, <2>2, <2>3 DEF Appear, Edit, InsertNotification, EditNotification
  <1>4. ASSUME m # n
        PROVE  Kept
    <2>1. ASSUME NEW edition \in Editions, Open(m, edition)
          PROVE  Kept
      BY <1>1, <1>4, <2>1 DEF Open, InsertDelivery
    <2>2. ASSUME NEW k \in DOMAIN delivery[m], Close(m, k)
          PROVE  Kept
      <3>1. notification'[n] = notification[n]
        BY <1>1, <1>4, <2>2 DEF Close, MarkSent, MarkFailed
      <3>2. delivery'[n] = delivery[n]
        BY <1>1, <1>4, <2>2 DEF Close, MarkSent, MarkFailed
      <3> QED
        BY <1>1, <1>4, <3>1, <3>2
    <2> QED
      BY <1>2, <1>3, <2>1, <2>2
  <1>5. ASSUME m = n, NEW edition \in Editions, Open(n, edition)
        PROVE  /\ Len(delivery'[n]) = Len(delivery[n]) + 1
               /\ delivery'[n][Len(delivery[n]) + 1].status = "PROCESSING"
               /\ \A j \in DOMAIN delivery[n] : delivery'[n][j] = delivery[n][j]
               /\ notification'[n].status = "PROCESSING"
    <2> DEFINE row == [status |-> "PROCESSING", error |-> FALSE, edition |-> edition, msg |-> FALSE]
    <2>1. /\ delivery'[n] = Append(delivery[n], row)
          /\ notification'[n].status = "PROCESSING"
      BY <1>1, <1>5 DEF Open, InsertDelivery, NotificationRow
    <2>2. row \in DeliveryRow /\ row.status = "PROCESSING"
      BY AttemptAssumption DEF DeliveryRow, DeliveryStatus
    <2> HIDE DEF row
    <2> QED
      BY <1>1, <2>1, <2>2
  <1>6. ASSUME m = n, NEW k \in DOMAIN delivery[n], Close(n, k)
        PROVE  /\ delivery[n][k].status = "PROCESSING" /\ ~delivery[n][k].msg
               /\ Len(delivery'[n]) = Len(delivery[n])
               /\ \A j \in DOMAIN delivery[n] : j # k => delivery'[n][j] = delivery[n][j]
               /\ delivery'[n][k].status = notification'[n].status
    <2>1. delivery[n][k].status = "PROCESSING" /\ ~delivery[n][k].msg
      BY <1>6 DEF Close, Inv, RowsKnown
    <2>2. k \in DOMAIN delivery[n] /\ delivery[n][k] \in DeliveryRow
      BY <1>1
    <2>3. ASSUME NEW row \in DeliveryRow, delivery' = [delivery EXCEPT ![n][k] = row]
          PROVE  /\ Len(delivery'[n]) = Len(delivery[n])
                 /\ \A j \in DOMAIN delivery[n] : j # k => delivery'[n][j] = delivery[n][j]
                 /\ delivery'[n][k].status = row.status
      BY <1>1, <2>2, <2>3, RowUpdate
    <2>4. CASE MarkSent(n, k)
      <3> DEFINE row == [delivery[n][k] EXCEPT !.status = "SENT", !.error = FALSE, !.msg = TRUE]
      <3>1. row \in DeliveryRow /\ row.status = "SENT"
        BY <2>2 DEF DeliveryRow, DeliveryStatus
      <3>2. delivery' = [delivery EXCEPT ![n][k] = row]
        BY <1>1, <2>2, <2>4 DEF MarkSent
      <3>3. notification'[n].status = "SENT"
        BY <1>1, <2>4 DEF MarkSent, NotificationRow
      <3> HIDE DEF row
      <3> QED
        BY <2>1, <2>3, <3>1, <3>2, <3>3
    <2>5. CASE MarkFailed(n, k)
      <3> DEFINE row == [delivery[n][k] EXCEPT !.status = "FAILED", !.error = TRUE]
      <3>1. row \in DeliveryRow /\ row.status = "FAILED"
        BY <2>2 DEF DeliveryRow, DeliveryStatus
      <3>2. delivery' = [delivery EXCEPT ![n][k] = row]
        BY <1>1, <2>2, <2>5 DEF MarkFailed
      <3>3. notification'[n].status = "FAILED"
        BY <1>1, <2>5 DEF MarkFailed, NotificationRow
      <3> HIDE DEF row
      <3> QED
        BY <2>1, <2>3, <3>1, <3>2, <3>3
    <2> QED
      BY <1>6, <2>4, <2>5 DEF Close
  <1> QED
    BY <1>2, <1>3, <1>4, <1>5, <1>6

\* Which webhook moves, and how far.
LEMMA HookMoves ==
    ASSUME Inv, [Next]_vars
    PROVE  \/ hook' = hook
           \/ \E h \in Hooks :
                 /\ \A g \in Hooks : g # h => hook'[g] = hook[g]
                 /\ \/ hook'[h].pc \in {"idle", "find"}
                    \/ /\ Find(h)
                       /\ hook'[h].pc = "insert"
                       /\ hook'[h].report = hook[h].report
                       /\ LET r == hook[h].report
                          IN  hook'[h].found = delivery[r.notif][r.attempt].status
                    \/ /\ Insert(h) /\ Applies(h)
                       /\ hook'[h] = [hook[h] EXCEPT !.pc = "update"]
                    \/ /\ Update(h) /\ IsLatestAttempt(hook[h].report)
                       /\ hook'[h] = [hook[h] EXCEPT !.pc = "readNotification"]
                    \/ /\ ReadNotification(h)
                       /\ hook'[h] = [hook[h] EXCEPT !.pc = "commit",
                                        !.seen = notification[hook[h].report.notif].status]
  <1>1. hook \in [Hooks -> HookRecord]
    BY DEF Inv, TypeOK, TrackingTypeOK
  <1>2. CASE ~WebhookStep
    BY <1>2 DEF Next, vars, ProviderReports, Appear, Edit, Open, Close, Disappear, trackingVars
  <1>3. ASSUME NEW h \in Hooks, NEW rec, hook' = [hook EXCEPT ![h] = rec]
        PROVE  hook'[h] = rec /\ \A g \in Hooks : g # h => hook'[g] = hook[g]
    BY <1>1, <1>3
  <1>4. NoHook.pc = "idle"
    BY DEF NoHook
  <1>5. ASSUME NEW h \in Hooks, Done(h)
        PROVE  hook'[h].pc = "idle" /\ \A g \in Hooks : g # h => hook'[g] = hook[g]
    BY <1>3, <1>4, <1>5 DEF Done
  <1>6. ASSUME NEW h \in Hooks, NEW r \in report, Receive(h, r)
        PROVE  hook'[h].pc = "find" /\ \A g \in Hooks : g # h => hook'[g] = hook[g]
    <2> DEFINE rec == [NoHook EXCEPT !.pc = "find", !.report = r, !.at = OccurredAt(r)]
    <2>1. rec.pc = "find"
      BY DEF NoHook
    <2>2. hook' = [hook EXCEPT ![h] = rec]
      BY <1>6 DEF Receive
    <2> HIDE DEF rec
    <2> QED
      BY <1>3, <2>1, <2>2
  <1>7. ASSUME NEW h \in Hooks, Find(h)
        PROVE  \/ Done(h)
               \/ /\ hook'[h].pc = "insert"
                  /\ hook'[h].report = hook[h].report
                  /\ LET r == hook[h].report
                     IN  hook'[h].found = delivery[r.notif][r.attempt].status
                  /\ \A g \in Hooks : g # h => hook'[g] = hook[g]
    BY <1>1, <1>7 DEF Find, NotFound, HookRecord
  <1>8. ASSUME NEW h \in Hooks, Insert(h)
        PROVE  \/ Done(h)
               \/ /\ Applies(h)
                  /\ hook'[h] = [hook[h] EXCEPT !.pc = "update"]
                  /\ \A g \in Hooks : g # h => hook'[g] = hook[g]
    BY <1>1, <1>8 DEF Insert, CommitEventOnly, CommitEvent
  <1>9. ASSUME NEW h \in Hooks, Update(h)
        PROVE  \/ Done(h)
               \/ /\ IsLatestAttempt(hook[h].report)
                  /\ hook'[h] = [hook[h] EXCEPT !.pc = "readNotification"]
                  /\ \A g \in Hooks : g # h => hook'[g] = hook[g]
    BY <1>1, <1>9 DEF Update, CommitEvent
  <1>10. ASSUME NEW h \in Hooks, ReadNotification(h)
         PROVE  /\ hook'[h] = [hook[h] EXCEPT !.pc = "commit",
                                   !.seen = notification[hook[h].report.notif].status]
                /\ \A g \in Hooks : g # h => hook'[g] = hook[g]
    BY <1>1, <1>10 DEF ReadNotification
  <1>11. ASSUME NEW h \in Hooks, Commit(h) \/ Abort(h)
         PROVE  Done(h)
    BY <1>11 DEF Commit, CommitEvent, Abort
  <1> QED
    BY ZenonT(40), <1>2, <1>5, <1>6, <1>7, <1>8, <1>9, <1>10, <1>11 DEF WebhookStep, HookStep

\* Between reading the notification and writing it, a webhook holds the row lock
\* of its attempt.
RowLockers == {h \in Hooks : hook[h].pc \in {"readNotification", "commit"}}

RowsApart ==
    \A g, h \in RowLockers : SameMessage(hook[g].report, hook[h].report) => g = h

\* While a notification has one attempt, what a webhook has read of it is so still.
SeenHolds ==
    \A h \in Hooks :
        LET n == hook[h].report.notif
        IN  hook[h].pc = "commit" /\ LastAttempt(n) = 1 => hook[h].seen = notification[n].status

\* What writes the status of a notification that has one attempt: a webhook of that
\* attempt, by what it has read, or a sender while the attempt is open.
LEMMA StatusWriters ==
    ASSUME Inv, [Next]_vars, NEW n \in Notifications, LastAttempt(n) = 1
    PROVE  \/ notification'[n].status = notification[n].status
           \/ LastAttempt(n)' # 1
           \/ delivery[n][1].status = "PROCESSING" /\ ~delivery[n][1].msg
           \/ \E h \in Hooks :
                 /\ Commit(h)
                 /\ hook[h].report.notif = n /\ hook[h].report.attempt = 1
                 /\ CanTransitionNotification(hook[h].seen, MeantBy(h).target)
  <1>1. DOMAIN delivery[n] = {1} /\ delivery[n] \in Seq(DeliveryRow)
    BY DEF Inv, TypeOK, StoreTypeOK, LastAttempt
  <1>2. CASE notification' = notification
    BY <1>2
  <1>3. CASE Moves
    BY <1>1, <1>3, StatusMoves DEF LastAttempt
  <1>4. ASSUME NEW m \in Notifications, Disappear(m)
        PROVE  notification'[n].status = notification[n].status \/ LastAttempt(n)' # 1
    BY <1>4, DisappearStep DEF LastAttempt
  <1>5. ASSUME NEW h \in Hooks, Commits(h),
               HookStep(h) \/ Abort(h) \/ \E r \in report : Receive(h, r),
               notification'[n].status # notification[n].status
        PROVE  /\ Commit(h)
               /\ hook[h].report.notif = n /\ hook[h].report.attempt = 1
               /\ CanTransitionNotification(hook[h].seen, MeantBy(h).target)
    <2>1. hook[h].report.notif = n /\ hook[h].report.attempt = 1
      BY <1>1, <1>5, CommitEffect DEF FoundHolds
    <2>2. Commit(h)
      BY <1>5 DEF HookStep, Abort, Receive, Find, Insert, CommitEventOnly, storeVars, Update,
                  ReadNotification
    <2> QED
      BY <1>5, <2>1, <2>2 DEF Commit, UpdateNotification
  <1>6. CASE WebhookStep
    BY <1>2, <1>5, <1>6, HookStepKinds DEF WebhookStep, Quiet
  <1> QED
    BY <1>2, <1>3, <1>4, <1>6 DEF Next, vars, ProviderReports, Moves, Appear, Edit, Open, Close

\* Attempts are only added, until the notification is deleted.
LEMMA AttemptsGrow ==
    ASSUME Inv, [Next]_vars, NEW n \in Notifications
    PROVE  LastAttempt(n)' >= LastAttempt(n) \/ Disappear(n)
  <1>1. LastAttempt(n) \in Nat /\ delivery[n] \in Seq(DeliveryRow)
    BY DEF Inv, TypeOK, StoreTypeOK, LastAttempt
  <1>2. CASE UNCHANGED delivery
    BY <1>1, <1>2 DEF LastAttempt
  <1>3. CASE Moves
    BY <1>1, <1>3, StatusMoves DEF LastAttempt
  <1>4. ASSUME NEW m \in Notifications, Disappear(m), m # n
        PROVE  LastAttempt(n)' = LastAttempt(n)
    BY <1>4, DisappearStep DEF LastAttempt
  <1>5. ASSUME NEW h \in Hooks, Commits(h)
        PROVE  LastAttempt(n)' = LastAttempt(n)
    <2>1. StoreTypeOK' /\ DOMAIN delivery'[n] = DOMAIN delivery[n]
      BY <1>5, CommitEffect
    <2> QED
      BY <1>1, <2>1 DEF StoreTypeOK, LastAttempt
  <1> QED
    BY <1>1, <1>2, <1>3, <1>4, <1>5, NextKinds DEF Quiet, ProviderReports, vars

\* The row lock keeps two webhooks of one attempt apart.
LEMMA RowsApartStep ==
    ASSUME Inv, RowsApart, [Next]_vars
    PROVE  RowsApart'
  <1>1. CASE hook' = hook
    BY <1>1 DEF RowsApart, RowLockers, SameMessage
  <1>2. ASSUME NEW h \in Hooks, \A g \in Hooks : g # h => hook'[g] = hook[g],
               \/ h \notin RowLockers'
               \/ h \in RowLockers /\ hook'[h].report = hook[h].report
               \/ /\ hook'[h].report = hook[h].report
                  /\ \A g \in RowLockers : ~SameMessage(hook[g].report, hook[h].report)
        PROVE  RowsApart'
    <2> SUFFICES ASSUME NEW f \in RowLockers', NEW g \in RowLockers',
                        SameMessage(hook'[f].report, hook'[g].report)
                 PROVE  f = g
      BY DEF RowsApart, SameMessage
    <2>1. \A e \in Hooks : e # h => (e \in RowLockers' <=> e \in RowLockers)
      BY <1>2 DEF RowLockers
    <2> QED
      BY <1>2, <2>1 DEF RowsApart, RowLockers, SameMessage
  <1>3. ASSUME NEW h \in Hooks, Update(h), hook'[h] = [hook[h] EXCEPT !.pc = "readNotification"]
        PROVE  /\ hook'[h].report = hook[h].report
               /\ \A g \in RowLockers : ~SameMessage(hook[g].report, hook[h].report)
    <2>1. hook[h] \in HookRecord
      BY DEF Inv, TypeOK, TrackingTypeOK
    <2> QED
      BY <1>3, <2>1 DEF Update, RowLocked, RowLockers, Uncommitted, HookRecord
  <1>4. ASSUME NEW h \in Hooks, ReadNotification(h),
               hook'[h] = [hook[h] EXCEPT !.pc = "commit",
                               !.seen = notification[hook[h].report.notif].status]
        PROVE  h \in RowLockers /\ hook'[h].report = hook[h].report
    <2>1. hook[h] \in HookRecord
      BY DEF Inv, TypeOK, TrackingTypeOK
    <2> QED
      BY ZenonT(40), <1>4, <2>1 DEF ReadNotification, RowLockers, HookRecord
  <1>5. ASSUME NEW h \in Hooks,
               \/ hook'[h].pc \in {"idle", "find", "insert"}
               \/ hook'[h] = [hook[h] EXCEPT !.pc = "update"]
        PROVE  h \notin RowLockers'
    <2>1. hook[h] \in HookRecord
      BY DEF Inv, TypeOK, TrackingTypeOK
    <2> QED
      BY <1>5, <2>1 DEF RowLockers, HookRecord
  <1> QED
    BY <1>1, <1>2, <1>3, <1>4, <1>5, HookMoves

\* What a webhook has read of a notification with one attempt is so when it commits:
\* only the holder of the row lock could have changed it.
LEMMA SeenStep ==
    ASSUME Inv, RowsApart, SeenHolds, [Next]_vars
    PROVE  SeenHolds'
  <1> SUFFICES ASSUME NEW h \in Hooks, NEW n, n = hook'[h].report.notif,
                      hook'[h].pc = "commit", LastAttempt(n)' = 1
               PROVE  hook'[h].seen = notification'[n].status
    BY DEF SeenHolds, LastAttempt
  <1>1. hook[h] \in HookRecord
    BY DEF Inv, TypeOK, TrackingTypeOK
  <1>2. CASE ReadNotification(h) /\
             hook'[h] = [hook[h] EXCEPT !.pc = "commit",
                             !.seen = notification[hook[h].report.notif].status]
    <2>1. /\ hook'[h].report = hook[h].report
          /\ hook'[h].seen = notification[hook[h].report.notif].status
      BY <1>1, <1>2 DEF HookRecord
    <2>2. notification' = notification
      BY <1>2 DEF ReadNotification
    <2> QED
      BY <2>1, <2>2
  <1>3. CASE hook'[h] = hook[h]
    <2>1. /\ hook[h].pc = "commit" /\ hook[h].report \in Report /\ n \in Notifications
          /\ h \in Uncommitted /\ h \in RowLockers
      BY <1>3, HookReport DEF Uncommitted, RowLockers, Report
    <2>2. hook[h].report.attempt \in DOMAIN delivery[n] /\ delivery[n][hook[h].report.attempt].msg
      BY <1>3, <2>1 DEF Inv, HooksKnown, HookKnown, FoundHolds, Waiting
    <2>3. LastAttempt(n) \in Nat /\ DOMAIN delivery[n] = 1 .. LastAttempt(n)
      BY <2>1 DEF Inv, TypeOK, StoreTypeOK, LastAttempt
    <2>4. ~Disappear(n)
      BY <1>3, <2>1 DEF Disappear, Deletable
    <2>5. LastAttempt(n) = 1 /\ hook[h].report.attempt = 1
      <3>1. LastAttempt(n)' >= LastAttempt(n)
        BY <2>1, <2>4, AttemptsGrow
      <3>2. 1 >= LastAttempt(n)
        BY <3>1
      <3>3. PICK k \in 1 .. LastAttempt(n) : k = hook[h].report.attempt
        BY <2>2, <2>3
      <3>4. LastAttempt(n) = 1 /\ k = 1
        BY <2>3, <3>2
      <3> QED
        BY <3>3, <3>4
    <2>6. hook[h].seen = notification[n].status
      BY <1>3, <2>1, <2>5 DEF SeenHolds
    <2>7. ASSUME NEW g \in Hooks, Commit(g), hook[g].report.notif = n, hook[g].report.attempt = 1
          PROVE  FALSE
      <3>1. g \in RowLockers /\ SameMessage(hook[g].report, hook[h].report)
        BY <1>3, <2>5, <2>7 DEF Commit, RowLockers, SameMessage
      <3>2. g = h
        BY <2>1, <3>1 DEF RowsApart
      <3>3. hook'[h] = NoHook
        BY <2>7, <3>2 DEF Commit, CommitEvent, Done, Inv, TypeOK, TrackingTypeOK
      <3> QED
        BY <1>3, <2>1, <3>3 DEF NoHook
    <2> QED
      BY <1>3, <2>1, <2>2, <2>5, <2>6, <2>7, StatusWriters
  <1>4. CASE ~(ReadNotification(h) /\
               hook'[h] = [hook[h] EXCEPT !.pc = "commit",
                               !.seen = notification[hook[h].report.notif].status])
             /\ hook'[h] # hook[h]
    BY <1>1, <1>4, HookMoves DEF HookRecord
  <1> QED
    BY <1>2, <1>3, <1>4

\* DELIVERED is seen until the notification is sent again.
LEMMA DeliveredStays ==
    ASSUME Inv, OutcomeWasReported, SeenHolds, [Next]_vars,
           NEW n \in Notifications, notification[n].status = "DELIVERED", Len(delivery[n]) = 1
    PROVE  notification'[n].status = "DELIVERED" \/ Len(delivery'[n]) # Len(delivery[n])
  <1>1. delivery[n][1].msg
    <2>1. PICK k \in DOMAIN delivery[n] : HasEvent(n, k, {"DELIVERED"})
      BY DEF OutcomeWasReported
    <2>2. k = 1
      BY DEF Inv, TypeOK, StoreTypeOK
    <2> QED
      BY <2>1, <2>2 DEF Inv, EventsBacked, HasEvent, StoredFor
  <1>2. ASSUME NEW h \in Hooks, Commit(h), hook[h].report.notif = n
        PROVE  ~CanTransitionNotification(hook[h].seen, MeantBy(h).target)
    BY <1>2 DEF Commit, SeenHolds, LastAttempt, CanTransitionNotification
  <1> QED
    BY <1>1, <1>2, StatusWriters DEF LastAttempt

-----------------------------------------------------------------------------
(* Webhooks of one attempt that overlap.                                   *)

\* What a webhook has decided to do was allowed by what it had found.
StillAllowed ==
    \A h \in Uncommitted : CanTransitionDelivery(hook[h].found, MeantBy(h).target)

LEMMA StillAllowedStep ==
    ASSUME Inv, StillAllowed, [Next]_vars
    PROVE  StillAllowed'
  <1> SUFFICES ASSUME NEW h \in Hooks, h \in Uncommitted'
               PROVE  CanTransitionDelivery(hook'[h].found, MeantBy(h)'.target)
    BY DEF StillAllowed, Uncommitted
  <1>1. hook[h] \in HookRecord
    BY DEF Inv, TypeOK, TrackingTypeOK
  <1>2. \/ hook'[h] = hook[h]
        \/ hook'[h].pc \in {"idle", "find", "insert"}
        \/ Insert(h) /\ Applies(h) /\ hook'[h] = [hook[h] EXCEPT !.pc = "update"]
        \/ Update(h) /\ hook'[h] = [hook[h] EXCEPT !.pc = "readNotification"]
        \/ /\ ReadNotification(h)
           /\ hook'[h] = [hook[h] EXCEPT !.pc = "commit",
                              !.seen = notification[hook[h].report.notif].status]
    <2>1. CASE hook' = hook
      BY <2>1
    <2>2. ASSUME NEW g \in Hooks, g # h, \A i \in Hooks : i # g => hook'[i] = hook[i]
          PROVE  hook'[h] = hook[h]
      BY <2>2
    <2> QED
      BY <2>1, <2>2, HookMoves
  <1>3. CASE hook'[h].pc \in {"idle", "find", "insert"}
    BY <1>3 DEF Uncommitted
  <1>4. CASE Insert(h) /\ Applies(h) /\ hook'[h] = [hook[h] EXCEPT !.pc = "update"]
    <2>1. hook'[h].report = hook[h].report /\ hook'[h].found = hook[h].found
      BY <1>1, <1>4 DEF HookRecord
    <2> QED
      BY <1>4, <2>1 DEF Applies, MeantBy
  <1>5. CASE /\ h \in Uncommitted
             /\ hook'[h].report = hook[h].report /\ hook'[h].found = hook[h].found
    BY <1>5 DEF StillAllowed, MeantBy
  <1>6. CASE \/ Update(h) /\ hook'[h] = [hook[h] EXCEPT !.pc = "readNotification"]
             \/ /\ ReadNotification(h)
                /\ hook'[h] = [hook[h] EXCEPT !.pc = "commit",
                                   !.seen = notification[hook[h].report.notif].status]
    <2>1. /\ h \in Uncommitted
          /\ hook'[h].report = hook[h].report /\ hook'[h].found = hook[h].found
      BY <1>1, <1>6 DEF HookRecord, Update, ReadNotification, Uncommitted
    <2> QED
      BY <1>5, <2>1
  <1>7. CASE hook'[h] = hook[h]
    BY <1>5, <1>7 DEF Uncommitted
  <1> QED
    BY <1>2, <1>3, <1>4, <1>6, <1>7

\* Only a webhook that had looked the attempt up before its outcome was written
\* replaces the outcome.
LEMMA OutcomeReplaced ==
    ASSUME Inv, StillAllowed, [Next]_vars,
           NEW n \in Notifications, NEW k \in DOMAIN delivery[n],
           delivery[n][k].status \in {"DELIVERED", "FAILED"}, notification'[n].state = "live",
           delivery'[n][k].status # delivery[n][k].status
    PROVE  \E h \in Hooks :
                /\ hook[h].report.notif = n /\ hook[h].report.attempt = k
                /\ hook[h].pc # "idle" /\ hook'[h].pc = "idle"
                /\ hook[h].found \notin {"DELIVERED", "FAILED"}
                /\ delivery'[n][k].status = MeantBy(h).target
  <1>1. ~UNCHANGED delivery
    OBVIOUS
  <1>2. ~Moves
    BY StatusMoves DEF Inv, TypeOK, StoreTypeOK
  <1>3. ASSUME NEW m \in Notifications, Disappear(m)
        PROVE  FALSE
    BY <1>3, DisappearStep DEF Live
  <1>4. PICK h \in Hooks : Commits(h)
    BY <1>1, <1>2, <1>3, NextKinds DEF Quiet, ProviderReports, vars
  <1>5. n = hook[h].report.notif /\ k = hook[h].report.attempt /\ ~UNCHANGED storeVars
    BY <1>1, <1>4, CommitEffect DEF storeVars
  <1>6. hook[h].pc # "idle" /\ h \in Uncommitted
    BY <1>4, <1>5 DEF Commits, Uncommitted, Waiting
  <1>7. hook[h].found \notin {"DELIVERED", "FAILED"}
    BY <1>6 DEF StillAllowed, CanTransitionDelivery
  <1>8. delivery'[n][k].status = MeantBy(h).target
    BY <1>4, <1>5, CommitEffect
  <1>9. hook'[h].pc = "idle"
    BY <1>4 DEF Commits, CommitEvent, Done, NoHook, Inv, TypeOK, TrackingTypeOK
  <1> QED
    BY <1>5, <1>6, <1>7, <1>8, <1>9

\* The notification takes the outcome of its only attempt: a webhook that changes
\* the attempt and not the notification has found an outcome there that its own
\* report contradicts.
LEMMA FollowsStep ==
    ASSUME Inv, OutcomeWasReported, SeenHolds, NotificationFollows, [Next]_vars
    PROVE  NotificationFollows'
  <1> DEFINE Both(n) == HasEvent(n, 1, {"DELIVERED"}) /\ HasEvent(n, 1, Failures)
  <1> SUFFICES ASSUME NEW n \in Notifications, Live(n)', LastAttempt(n)' = 1
               PROVE  notification'[n].status = delivery'[n][1].status \/ Both(n)'
    BY DEF NotificationFollows
  <1>1. /\ delivery[n] \in Seq(DeliveryRow) /\ LastAttempt(n) \in Nat
        /\ DOMAIN delivery[n] = 1 .. LastAttempt(n)
    BY DEF Inv, TypeOK, StoreTypeOK, LastAttempt
  <1>2. ~Live(n) => delivery[n] = <<>>
    BY DEF Inv, RowsKnown
  <1>3. LastAttempt(n) = 1 =>
            Live(n) /\ (notification[n].status = delivery[n][1].status \/ Both(n))
    BY <1>2 DEF NotificationFollows, LastAttempt
  <1>4. CASE UNCHANGED <<notification, delivery, event>>
    BY <1>3, <1>4 DEF LastAttempt, HasEvent, StoredFor
  <1>5. CASE Moves
    <2>1. Both(n) => Both(n)'
      BY <1>5 DEF Moves, trackingVars, HasEvent, StoredFor
    <2> QED
      BY <1>1, <1>3, <1>5, <2>1, StatusMoves DEF LastAttempt
  <1>6. ASSUME NEW m \in Notifications, Disappear(m)
        PROVE  notification'[n].status = delivery'[n][1].status \/ Both(n)'
    <2>1. m # n /\ delivery'[n] = delivery[n] /\ notification'[n] = notification[n]
      BY <1>6, DisappearStep DEF Live
    <2>2. Both(n) => Both(n)'
      BY <1>6, <2>1, DisappearStep DEF HasEvent, StoredFor
    <2> QED
      BY <1>3, <2>1, <2>2 DEF LastAttempt
  <1>7. ASSUME NEW h \in Hooks, Commits(h),
               HookStep(h) \/ Abort(h) \/ \E r \in report : Receive(h, r)
        PROVE  notification'[n].status = delivery'[n][1].status \/ Both(n)'
    <2> DEFINE r == hook[h].report
               target == MeantBy(h).target
    <2>1. LastAttempt(n) = 1
      <3>1. DOMAIN delivery'[n] = DOMAIN delivery[n] /\ StoreTypeOK'
        BY <1>7, CommitEffect
      <3> QED
        BY <1>1, <3>1 DEF StoreTypeOK, LastAttempt
    <2>2. Both(n) => Both(n)'
      BY <1>7, CommitAdds
    <2>3. CASE UNCHANGED storeVars
      BY <1>3, <2>1, <2>2, <2>3 DEF storeVars
    <2>4. CASE r.notif # n
      BY <1>1, <1>3, <1>7, <2>1, <2>2, <2>4, CommitEffect
    <2>5. CASE r.notif = n /\ ~UNCHANGED storeVars
      <3>1. r.attempt = 1 /\ delivery[n][1].msg
        BY <1>1, <1>7, <2>1, <2>5, CommitEffect DEF FoundHolds
      <3>2. delivery'[n][1].status = target /\ target \in {"DELIVERED", "FAILED"}
        BY <1>7, <2>5, <3>1, CommitEffect DEF Commits
      <3>3. Commit(h)
        BY <1>7, <2>1, <2>5, <3>1
           DEF HookStep, Abort, Receive, Find, Insert, CommitEventOnly, storeVars, Update,
               ReadNotification, IsLatestAttempt
      <3>4. hook[h].seen = notification[n].status
        BY <2>1, <2>5, <3>3 DEF Commit, SeenHolds
      <3>5. notification[n] \in NotificationRow /\ notification \in [Notifications -> NotificationRow]
        BY DEF Inv, TypeOK, StoreTypeOK
      <3>6. CASE CanTransitionNotification(hook[h].seen, target)
        <4>1. notification'[n].status = target
          BY <2>5, <3>3, <3>5, <3>6 DEF Commit, UpdateNotification, NotificationRow
        <4> QED
          BY <3>2, <4>1
      <3>7. CASE notification[n].status = target
        BY <2>5, <3>2, <3>3, <3>4, <3>7
           DEF Commit, UpdateNotification, CanTransitionNotification
      <3>8. CASE /\ ~CanTransitionNotification(hook[h].seen, target)
                 /\ notification[n].status # target
        <4>1. notification[n].status \in {"DELIVERED", "FAILED"}
          BY <3>2, <3>4, <3>8 DEF CanTransitionNotification
        <4>2. ~Both(n) => delivery[n][1].status = notification[n].status
          BY <1>3, <2>1
        <4>3. /\ notification[n].status = "DELIVERED" => HasEvent(n, 1, {"DELIVERED"})
              /\ notification[n].status = "FAILED" => HasEvent(n, 1, Failures)
          BY <1>1, <2>1, <3>1, <4>2 DEF OutcomeWasReported
        <4>4. /\ target = "DELIVERED" => HasEvent(n, 1, {"DELIVERED"})'
              /\ target = "FAILED" => HasEvent(n, 1, Failures)'
          BY <1>7, <2>5, <3>1, CommitAdds
        <4>5. /\ HasEvent(n, 1, {"DELIVERED"}) => HasEvent(n, 1, {"DELIVERED"})'
              /\ HasEvent(n, 1, Failures) => HasEvent(n, 1, Failures)'
          BY <1>7, CommitAdds
        <4> QED
          BY <3>2, <3>8, <4>1, <4>3, <4>4, <4>5
      <3> QED
        BY <3>6, <3>7, <3>8
    <2> QED
      BY <2>3, <2>4, <2>5
  <1>8. CASE WebhookStep
    BY <1>4, <1>7, <1>8, HookStepKinds DEF WebhookStep, Quiet
  <1> QED
    BY <1>4, <1>5, <1>6, <1>8 DEF Next, vars, ProviderReports, Moves, Appear, Edit, Open, Close

-----------------------------------------------------------------------------
(* No outcome is lost, with Resend, whose times follow its reports.        *)

\* A later report of a message has a higher number and no earlier phase.
ReportsOrdered ==
    \A r, s \in report : SameMessage(r, s) =>
        /\ r.seq <= Cardinality(ReportsOf(s.notif, s.attempt))
        /\ r.seq < s.seq => Phase(r.type) <= Phase(s.type)

\* After an outcome, only another outcome changes the status.
LEMMA ResendPhases ==
    ASSUME Provider = "resend", NEW type \in ProviderTypes
    PROVE  /\ Phase(type) \in {1, 2, 3}
           /\ MeaningOf(type).target = "DELIVERED" => Phase(type) = 2
           /\ MeaningOf(type).eventType \in StateChangingEventTypes /\ Phase(type) >= 2 =>
                 MeaningOf(type).eventType \in {"DELIVERED"} \cup Failures
  <1>1. type \in ResendTypes
    BY ProviderAssumption
  <1> DEFINE m == MeaningOf(type)
  <1>2. \/ m.target = "SENT" /\ m.eventType = "SENT"
        \/ m.target = "DELIVERED" /\ m.eventType = "DELIVERED"
        \/ m.target = "FAILED" /\ m.eventType \in Failures
        \/ m.target = "NONE" /\ m.eventType \in {"DELAYED", "QUEUED"}
        \/ m.target = "NONE" /\ m.eventType \in {"COMPLAINED", "OPENED", "CLICKED"}
    BY <1>1 DEF MeaningOf, ResendEvent, ResendTypes, Means, Failures
  <1>3. Phase(type) = CASE m.target \in {"DELIVERED", "FAILED"} -> 2
                        [] m.eventType \in {"QUEUED", "SENDING", "SENT", "DELAYED"} -> 1
                        [] OTHER -> 3
    BY DEF Phase
  <1> HIDE DEF m
  <1>4. CASE m.target \in {"DELIVERED", "FAILED"}
    <2>1. Phase(type) = 2 /\ m.eventType \in {"DELIVERED"} \cup Failures
      BY <1>2, <1>3, <1>4 DEF Failures
    <2> QED
      BY <2>1 DEF m
  <1>5. CASE m.target \notin {"DELIVERED", "FAILED"}
    <2>1. \/ Phase(type) = 1
          \/ Phase(type) = 3 /\ m.eventType \in {"COMPLAINED", "OPENED", "CLICKED"}
      <3>1. CASE m.eventType \in {"SENT", "DELAYED", "QUEUED"}
        BY <1>3, <1>5, <3>1
      <3>2. CASE m.eventType \in {"COMPLAINED", "OPENED", "CLICKED"}
        BY <1>3, <1>5, <3>2
      <3> QED
        BY <1>2, <1>5, <3>1, <3>2
    <2> QED
      BY <1>5, <2>1 DEF StateChangingEventTypes, m
  <1> QED
    BY <1>4, <1>5

\* The next report has the next number, and a phase that is not earlier.
LEMMA OrderStep ==
    ASSUME Inv, ReportsOrdered, [Next]_vars
    PROVE  ReportsOrdered'
  <1>1. CASE UNCHANGED report
    BY <1>1 DEF ReportsOrdered, ReportsOf, SameMessage
  <1>2. ASSUME NEW n \in Notifications, NEW k \in DOMAIN delivery[n],
               NEW type \in ProviderTypes, ProviderReports(n, k, type)
        PROVE  ReportsOrdered'
    <2> DEFINE c == Cardinality(ReportsOf(n, k))
               x == [notif |-> n, attempt |-> k, seq |-> c + 1, type |-> type]
    <2>1. /\ report' = report \cup {x}
          /\ \A r \in ReportsOf(n, k) : Phase(r.type) <= Phase(type)
      BY <1>2 DEF ProviderReports
    <2>2. /\ c \in Nat /\ IsFiniteSet(ReportsOf(n, k)) /\ report \subseteq Report
      BY <1>2, ReportStep, FS_Subset DEF Inv, ReportsKnown, TypeOK, TrackingTypeOK
    <2>3. x.notif = n /\ x.attempt = k /\ x.seq = c + 1 /\ x.type = type
      OBVIOUS
    <2>4. \A r \in ReportsOf(n, k) : r \in report /\ r.seq <= c /\ r.seq \in Nat
      BY <2>2 DEF ReportsOrdered, ReportsOf, SameMessage, Report
    <2>5. x \notin ReportsOf(n, k)
      BY <2>2, <2>3, <2>4
    <2> HIDE DEF x
    <2>6. ReportsOf(n, k)' = ReportsOf(n, k) \cup {x}
      BY <2>1, <2>3 DEF ReportsOf
    <2>7. Cardinality(ReportsOf(n, k) \cup {x}) = c + 1
      BY <2>2, <2>5, FS_AddElement
    <2>8. \A m, j : m # n \/ j # k => ReportsOf(m, j)' = ReportsOf(m, j)
      BY <2>1, <2>3 DEF ReportsOf
    <2> SUFFICES ASSUME NEW r \in report', NEW s \in report', SameMessage(r, s)
                 PROVE  /\ r.seq <= Cardinality(ReportsOf(s.notif, s.attempt)')
                        /\ r.seq < s.seq => Phase(r.type) <= Phase(s.type)
      BY DEF ReportsOrdered, SameMessage
    <2>9. r.notif = s.notif /\ r.attempt = s.attempt
      BY DEF SameMessage
    <2>10. CASE s.notif = n /\ s.attempt = k
      <3>1. Cardinality(ReportsOf(s.notif, s.attempt)') = c + 1
        BY <2>6, <2>7, <2>10
      <3>2. (r = x \/ r \in ReportsOf(n, k)) /\ (s = x \/ s \in ReportsOf(n, k))
        BY <2>1, <2>9, <2>10 DEF ReportsOf
      <3>3. r.seq <= c + 1
        BY <2>2, <2>3, <2>4, <3>2
      <3>4. ASSUME r.seq < s.seq PROVE Phase(r.type) <= Phase(s.type)
        <4>1. CASE s = x
          <5>1. r \in ReportsOf(n, k)
            BY <2>2, <2>3, <3>2, <3>4, <4>1
          <5> QED
            BY <2>1, <2>3, <4>1, <5>1
        <4>2. CASE r = x /\ s \in ReportsOf(n, k)
          BY <2>2, <2>3, <2>4, <3>4, <4>2
        <4>3. CASE r \in ReportsOf(n, k) /\ s \in ReportsOf(n, k)
          BY <2>4, <3>4, <4>3 DEF ReportsOrdered
        <4> QED
          BY <3>2, <4>1, <4>2, <4>3
      <3> QED
        BY <3>1, <3>3, <3>4
    <2>11. CASE ~(s.notif = n /\ s.attempt = k)
      <3>1. r \in report /\ s \in report
        BY <2>1, <2>3, <2>9, <2>11
      <3>2. ReportsOf(s.notif, s.attempt)' = ReportsOf(s.notif, s.attempt)
        BY <2>8, <2>11
      <3> QED
        BY <3>1, <3>2 DEF ReportsOrdered
    <2> QED
      BY <2>10, <2>11
  <1> QED
    BY <1>1, <1>2, NextKinds DEF vars, Quiet, Commits, Moves, trackingVars, Disappear

\* An event of delivery that does not apply finds the attempt delivered, or the
\* failure that came instead.
LEMMA NotAppliedIsKnown ==
    ASSUME Provider = "resend", Inv, ReportsOrdered, NEW h \in Hooks, Commits(h), ~Applies(h),
           MeantBy(h).target = "DELIVERED"
    PROVE  HasEvent(hook[h].report.notif, hook[h].report.attempt, {"DELIVERED"} \cup Failures)
  <1> DEFINE r == hook[h].report
             Outcomes == {"DELIVERED"} \cup Failures
  <1>1. FoundHolds(h) /\ hook[h].pc # "idle"
    BY CommitEffect DEF Commits, Waiting
  <1>2. r \in report /\ r \in Report /\ hook[h].at = r.seq
    BY <1>1, HookReport DEF Inv, HooksKnown, HookKnown
  <1>3. CASE Stale(h)
    <2>1. PICK v \in event : /\ SameMessage(v, r) /\ v.at > hook[h].at
                             /\ v.eventType \in StateChangingEventTypes
      BY <1>3 DEF Stale
    <2>2. PICK s \in report : Backs(v, s)
      BY DEF Inv, EventsBacked
    <2>3. s \in Report /\ s.type \in ProviderTypes /\ r.type \in ProviderTypes
      BY <1>2 DEF Inv, TypeOK, TrackingTypeOK, Report
    <2>4. SameMessage(r, s) /\ r.seq < s.seq
      <3>1. r.seq \in Nat /\ s.seq \in Nat
        BY <1>2, <2>3 DEF Report
      <3> QED
        BY <1>2, <2>1, <2>2, <3>1 DEF Backs, SameMessage
    <2>5. Phase(r.type) <= Phase(s.type)
      BY <1>2, <2>4 DEF ReportsOrdered
    <2>6. Phase(r.type) = 2 /\ Phase(s.type) \in {1, 2, 3}
      BY <2>3, ResendPhases DEF MeantBy
    <2>7. Phase(s.type) >= 2
      BY <2>5, <2>6
    <2>8. v.eventType \in Outcomes
      BY <2>1, <2>2, <2>3, <2>7, ResendPhases DEF Backs
    <2> QED
      BY <2>1, <2>8 DEF HasEvent, StoredFor, SameMessage
  <1>4. CASE ~Stale(h)
    <2>1. hook[h].found \in {"DELIVERED", "FAILED"}
      BY <1>1, <1>4 DEF Applies, CanTransitionDelivery, FoundHolds
    <2> QED
      BY <1>1, <2>1 DEF FoundHolds, HasEvent
  <1> QED
    BY <1>3, <1>4

\* No step loses an outcome.
LEMMA NoLostStep ==
    ASSUME Provider = "resend", Inv, ReportsOrdered, NoLostOutcome, [Next]_vars
    PROVE  NoLostOutcome'
  <1>1. CASE UNCHANGED <<delivery, event>>
    BY <1>1 DEF NoLostOutcome, HasEvent, StoredFor
  <1>2. ASSUME NEW h \in Hooks, Commits(h) PROVE NoLostOutcome'
    <2> SUFFICES ASSUME NEW n \in Notifications, NEW k \in DOMAIN delivery'[n],
                        HasEvent(n, k, {"DELIVERED"})', ~HasEvent(n, k, Failures)'
                 PROVE  delivery'[n][k].status = "DELIVERED"
      BY DEF NoLostOutcome
    <2> DEFINE r == hook[h].report
               target == MeantBy(h).target
    <2>1. /\ DOMAIN delivery'[n] = DOMAIN delivery[n]
          /\ \/ delivery'[n][k] = delivery[n][k]
             \/ n = r.notif /\ k = r.attempt
          /\ \/ ~Applies(h) /\ UNCHANGED storeVars
             \/ delivery'[r.notif][r.attempt].status = target /\ target \in {"DELIVERED", "FAILED"}
      BY <1>2, CommitEffect DEF Commits
    <2>2. /\ event' = event \cup {EventOf(h)}
          /\ SameMessage(EventOf(h), r)
          /\ EventOf(h).eventType = MeantBy(h).eventType
          /\ \A m, j : m = r.notif /\ j = r.attempt /\ target = "FAILED" =>
                HasEvent(m, j, Failures)'
      BY <1>2, CommitAdds
    <2>3. ~HasEvent(n, k, Failures)
      BY <2>2 DEF HasEvent, StoredFor
    <2>4. HasEvent(n, k, {"DELIVERED"}) => delivery[n][k].status = "DELIVERED"
      BY <2>1, <2>3 DEF NoLostOutcome
    <2>5. CASE ~(n = r.notif /\ k = r.attempt)
      <3>1. HasEvent(n, k, {"DELIVERED"})
        BY <2>2, <2>5 DEF HasEvent, StoredFor, SameMessage
      <3> QED
        BY <2>1, <2>4, <2>5, <3>1
    <2>6. CASE n = r.notif /\ k = r.attempt /\ ~Applies(h) /\ UNCHANGED storeVars
      <3>1. CASE target = "DELIVERED"
        <4>1. HasEvent(n, k, {"DELIVERED"} \cup Failures)
          BY <1>2, <2>6, <3>1, NotAppliedIsKnown
        <4>2. HasEvent(n, k, {"DELIVERED"})
          BY <2>3, <4>1 DEF HasEvent
        <4> QED
          BY <2>4, <2>6, <4>2 DEF storeVars
      <3>2. CASE target # "DELIVERED"
        <4>1. EventOf(h).eventType # "DELIVERED"
          BY <1>2, <2>2, <3>2, HookReport DEF Commits, Waiting
        <4>2. HasEvent(n, k, {"DELIVERED"})
          BY <2>2, <4>1 DEF HasEvent, StoredFor
        <4> QED
          BY <2>4, <2>6, <4>2 DEF storeVars
      <3> QED
        BY <3>1, <3>2
    <2>7. CASE /\ n = r.notif /\ k = r.attempt
               /\ delivery'[r.notif][r.attempt].status = target /\ target \in {"DELIVERED", "FAILED"}
      BY <2>2, <2>7
    <2> QED
      BY <2>1, <2>5, <2>6, <2>7
  <1>3. CASE Moves
    <2>1. UNCHANGED event
      BY <1>3 DEF Moves, trackingVars
    <2> SUFFICES ASSUME NEW n \in Notifications, NEW k \in DOMAIN delivery'[n],
                        HasEvent(n, k, {"DELIVERED"}), ~HasEvent(n, k, Failures)
                 PROVE  delivery'[n][k].status = "DELIVERED"
      BY <2>1 DEF NoLostOutcome, HasEvent, StoredFor, Failures
    <2>2. k \in DOMAIN delivery[n] /\ delivery[n][k].msg
      BY DEF HasEvent, StoredFor, Inv, EventsBacked
    <2>3. delivery'[n][k] = delivery[n][k]
      BY <1>3, <2>2, MovesEffect
    <2> QED
      BY <2>2, <2>3 DEF NoLostOutcome
  <1>4. ASSUME NEW m \in Notifications, Disappear(m) PROVE NoLostOutcome'
    <2>1. /\ \A n \in Notifications : n # m => delivery'[n] = delivery[n]
          /\ delivery'[m] = <<>>
          /\ event' = {v \in event : v.notif # m}
      BY <1>4, DisappearStep
    <2> SUFFICES ASSUME NEW n \in Notifications, NEW k \in DOMAIN delivery'[n],
                        HasEvent(n, k, {"DELIVERED"})', ~HasEvent(n, k, Failures)'
                 PROVE  delivery'[n][k].status = "DELIVERED"
      BY DEF NoLostOutcome
    <2>2. n # m
      BY <2>1
    <2>3. HasEvent(n, k, {"DELIVERED"}) /\ ~HasEvent(n, k, Failures)
      BY <2>1, <2>2 DEF HasEvent, StoredFor
    <2> QED
      BY <2>1, <2>2, <2>3 DEF NoLostOutcome
  <1>5. ASSUME ~ \E h \in Hooks : Commits(h), ~Moves,
               ~ \E n \in Notifications : Disappear(n)
        PROVE  UNCHANGED <<delivery, event>>
    BY <1>5, NextKinds DEF vars, Quiet, ProviderReports
  <1> QED
    BY <1>1, <1>2, <1>3, <1>4, <1>5

-----------------------------------------------------------------------------
(* The theorems.                                                           *)

\* Everything holds in the initial state.
LEMMA Start ==
    ASSUME Init
    PROVE  /\ Inv /\ OutcomeWasReported /\ StoredOnce /\ AckedIsStored
           /\ ReportsOrdered /\ NoLostOutcome /\ DeliveredAtIsKnown
  <1>1. /\ notification = [n \in Notifications |-> Absent]
        /\ delivery = [n \in Notifications |-> <<>>]
        /\ report = {} /\ acked = {} /\ event = {} /\ aborts = 0
        /\ hook = [h \in Hooks |-> NoHook]
    BY DEF Init, StoreInit, TrackingInit
  <1>2. Absent \in NotificationRow /\ NoHook \in HookRecord
    BY DEF Absent, NotificationRow, NotificationStatus, NoHook, HookRecord, DeliveryStatus
  <1>3. TypeOK
    <2>1. StoreTypeOK
      BY <1>1, <1>2 DEF StoreTypeOK
    <2> QED
      BY <1>1, <1>2, <2>1, TrackingBoundAssumption DEF TypeOK, TrackingTypeOK
  <1>4. TimesBounded
    BY <1>1, TrackingBoundAssumption DEF TimesBounded, NoHook
  <1>5. ReportsKnown /\ EventsBacked /\ ReportsOrdered
    BY <1>1, FS_EmptySet DEF ReportsKnown, EventsBacked, ReportsOrdered
  <1>6. RowsKnown /\ OutcomeWasReported /\ NoLostOutcome /\ DeliveredAtIsKnown
    BY <1>1 DEF RowsKnown, OutcomeWasReported, NoLostOutcome, DeliveredAtIsKnown, Absent
  <1>7. HooksKnown /\ KeysApart
    BY <1>1 DEF HooksKnown, HookKnown, KeysApart, Uncommitted, NoHook, Waiting
  <1>8. StoredOnce /\ AckedIsStored
    BY <1>1 DEF StoredOnce, AckedIsStored
  <1> QED
    BY <1>3, <1>4, <1>5, <1>6, <1>7, <1>8 DEF Inv

\* Every step keeps the invariant.
LEMMA InvStep ==
    ASSUME Inv, OutcomeWasReported, [Next]_vars
    PROVE  Inv'
  <1>1. CASE UNCHANGED vars
    <2>1. UNCHANGED <<notification, delivery, report, acked, event, hook, aborts>>
      BY <1>1 DEF vars
    <2>2. TypeOK' /\ TimesBounded' /\ ReportsKnown' /\ RowsKnown'
      BY <2>1 DEF Inv, TypeOK, StoreTypeOK, TrackingTypeOK, TimesBounded, ReportsKnown,
                  RowsKnown, Live
    <2>3. EventsBacked' /\ KeysApart'
      BY <2>1 DEF Inv, EventsBacked, Backs, SameMessage, IdOf, KeysApart, Uncommitted, SameKey
    <2>4. HooksKnown'
      BY <2>1 DEF Inv, HooksKnown, HookKnown, FoundHolds, Live, HasEvent, StoredFor,
                  Uncommitted, Stored, SameMessage, IdOf, MeantBy
    <2> QED
      BY <2>2, <2>3, <2>4 DEF Inv
  <1>2. ASSUME NEW n \in Notifications,
               \/ Appear(n) \/ Edit(n)
               \/ \E edition \in Editions : Open(n, edition)
               \/ \E k \in DOMAIN delivery[n] : Close(n, k)
        PROVE  Inv'
    BY <1>2, MovesStep DEF Moves, Appear, Edit, Open, Close
  <1> QED
    BY <1>1, <1>2, WebhookKeeps, ReportStep, DisappearStep DEF Next

\* However many webhooks run at a time, fail, or are sent again: a status DELIVERED,
\* and a FAILED of an accepted message, are backed by a stored report.
THEOREM OutcomesAreReported == Spec => [](Inv /\ OutcomeWasReported)
  <1>1. Init => Inv /\ OutcomeWasReported
    BY Start
  <1>2. Inv /\ OutcomeWasReported /\ [Next]_vars => (Inv /\ OutcomeWasReported)'
    BY InvStep, OutcomeStep
  <1> QED
    BY <1>1, <1>2, PTL DEF Spec

\* Rows, stored events and webhook requests keep their types.
THEOREM TrackingTypes == Spec => []TypeOK
  <1>1. Inv => TypeOK
    BY DEF Inv
  <1> QED
    BY <1>1, OutcomesAreReported, PTL

\* A notification has a time of delivery when it is DELIVERED, and only if an
\* attempt was reported delivered.
THEOREM DeliveryTimeIsKnown == Spec => []DeliveredAtIsKnown
  <1>1. Init => DeliveredAtIsKnown
    BY Start
  <1>2. Inv /\ DeliveredAtIsKnown /\ [Next]_vars => DeliveredAtIsKnown'
    BY DeliveredAtStep
  <1> QED
    BY <1>1, <1>2, OutcomesAreReported, PTL DEF Spec

\* A webhook that is delivered again is not stored again.
THEOREM EventsAreStoredOnce == Spec => []StoredOnce
  <1>1. Init => StoredOnce
    BY Start
  <1>2. Inv /\ StoredOnce /\ [Next]_vars => StoredOnce'
    BY StoredOnceStep
  <1> QED
    BY <1>1, <1>2, OutcomesAreReported, PTL DEF Spec

\* What was answered with 2xx, and will not be sent again, has been stored.
THEOREM AcknowledgedIsStored == Spec => []AckedIsStored
  <1>1. Init => AckedIsStored
    BY Start
  <1>2. Inv /\ AckedIsStored /\ [Next]_vars => AckedIsStored'
    BY AckedStep
  <1> QED
    BY <1>1, <1>2, OutcomesAreReported, PTL DEF Spec

\* With Resend a delivery that was reported, and no failure besides, ends in
\* DELIVERED, in whatever order its webhooks arrive and interleave.
THEOREM OutcomesAreKept ==
    ASSUME Provider = "resend"
    PROVE  Spec => []NoLostOutcome
  <1>1. Init => ReportsOrdered /\ NoLostOutcome
    BY Start
  <1>2. Inv /\ ReportsOrdered /\ NoLostOutcome /\ [Next]_vars
            => (ReportsOrdered /\ NoLostOutcome)'
    BY OrderStep, NoLostStep
  <1> QED
    BY <1>1, <1>2, OutcomesAreReported, PTL DEF Spec

\* A reader who has seen DELIVERED sees it until the notification is sent again,
\* whichever webhooks of its attempt run at the same time.
THEOREM DeliveredIsStable == Spec => DeliveredUntilResent
  <1> DEFINE Stable == \A n \in Notifications :
                notification[n].status = "DELIVERED" /\ Len(delivery[n]) = 1 =>
                    \/ notification'[n].status = "DELIVERED"
                    \/ Len(delivery'[n]) # Len(delivery[n])
  <1>1. Init => RowsApart /\ SeenHolds
    BY DEF Init, TrackingInit, RowsApart, RowLockers, SeenHolds, NoHook
  <1>2. Inv /\ RowsApart /\ SeenHolds /\ [Next]_vars => (RowsApart /\ SeenHolds)'
    BY RowsApartStep, SeenStep
  <1>3. Inv /\ OutcomeWasReported /\ SeenHolds /\ [Next]_vars => [Stable]_vars
    BY DeliveredStays
  <1>4. Spec => [][Stable]_vars
    <2> HIDE DEF Stable
    <2> QED
      BY <1>1, <1>2, <1>3, OutcomesAreReported, PTL DEF Spec
  <1> QED
    BY <1>4 DEF DeliveredUntilResent

\* An outcome of an attempt is replaced only by a webhook that had looked the
\* attempt up before the outcome was written, and whose report contradicts it.
THEOREM OutcomesAreLostOnlyToEarlierReads == Spec => LostOnlyToEarlierRead
  <1> DEFINE Kept == \A n \in Notifications : \A k \in DOMAIN delivery[n] :
                /\ delivery[n][k].status \in {"DELIVERED", "FAILED"}
                /\ notification'[n].state = "live"
                /\ delivery'[n][k].status # delivery[n][k].status
                => \E h \in Hooks :
                        /\ hook[h].report.notif = n /\ hook[h].report.attempt = k
                        /\ hook[h].pc # "idle" /\ hook'[h].pc = "idle"
                        /\ hook[h].found \notin {"DELIVERED", "FAILED"}
                        /\ delivery'[n][k].status = MeantBy(h).target
  <1>1. Init => StillAllowed
    BY DEF Init, TrackingInit, StillAllowed, NoHook, Uncommitted
  <1>2. Inv /\ StillAllowed /\ [Next]_vars => StillAllowed'
    BY StillAllowedStep
  <1>3. Inv /\ StillAllowed /\ [Next]_vars => [Kept]_vars
    BY OutcomeReplaced
  <1>4. Spec => [][Kept]_vars
    <2> HIDE DEF Kept
    <2> QED
      BY <1>1, <1>2, <1>3, OutcomesAreReported, PTL DEF Spec
  <1> QED
    BY <1>4 DEF LostOnlyToEarlierRead

\* A notification that was attempted once says what its attempt says, unless both a
\* delivery and a failure of it were reported.
THEOREM NotificationsFollow == Spec => []NotificationFollows
  <1>1. Init => RowsApart /\ SeenHolds /\ NotificationFollows
    BY DEF Init, StoreInit, TrackingInit, RowsApart, RowLockers, SeenHolds, NoHook,
           NotificationFollows, Live, Absent
  <1>2. /\ [Next]_vars
        /\ Inv /\ OutcomeWasReported /\ RowsApart /\ SeenHolds /\ NotificationFollows
        => (RowsApart /\ SeenHolds /\ NotificationFollows)'
    BY RowsApartStep, SeenStep, FollowsStep
  <1> QED
    BY <1>1, <1>2, OutcomesAreReported, PTL DEF Spec
=============================================================================
