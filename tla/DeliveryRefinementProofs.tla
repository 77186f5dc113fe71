----------------------- MODULE DeliveryRefinementProofs -----------------------
(***************************************************************************)
(* The sending side implements NotificationLifecycle, up to the first time *)
(* a job is handed to two workers: both invariants are needed, the one on  *)
(* locks and the one on the history.                                       *)
(***************************************************************************)
EXTENDS DeliveryHistoryProofs

View(n) ==
    [state |-> notification[n].state, status |-> notification[n].status,
     attempts |-> LastAttempt(n)]

\* What a reader sees of one notification is all that changes of the view when
\* one notification changes.
LEMMA ViewOfOne ==
    ASSUME NEW n \in Notifications,
           \A m \in Notifications \ {n} :
                notification'[m] = notification[m] /\ delivery'[m] = delivery[m]
    PROVE  LifecycleView' = [LifecycleView EXCEPT ![n] = View(n)']
  <1>1. \A m \in Notifications \ {n} : View(m)' = View(m)
    BY DEF View, LastAttempt
  <1>2. LifecycleView = [m \in Notifications |-> View(m)]
    BY DEF LifecycleView, View
  <1>3. LifecycleView' = [m \in Notifications |-> View(m)']
    BY DEF LifecycleView, View
  <1> QED
    BY <1>1, <1>2, <1>3

\* A step that changes neither state, nor status, nor the number of attempts is
\* invisible.
LEMMA InvisibleStep ==
    ASSUME \A n \in Notifications :
                /\ notification'[n].state = notification[n].state
                /\ notification'[n].status = notification[n].status
                /\ delivery'[n] = delivery[n]
    PROVE  LifecycleView' = LifecycleView
  BY DEF LifecycleView, LastAttempt

\* Creating and deleting are steps of the lifecycle.
LEMMA ClientLifecycle ==
    ASSUME Shape, NEW n \in Notifications, ClientStep(n) \/ Remove(n)
    PROVE  [Lifecycle!LifecycleNext]_LifecycleView
  <1>1. StoreTypeOK
    BY DEF Shape, TypeOK
  <1>2. LifecycleView[n] = View(n) /\ LifecycleView = [m \in Notifications |-> View(m)]
    BY DEF LifecycleView, View
  <1>3. CASE Create(n)
    <2>1. /\ notification[n].state = "absent"
          /\ notification' = [notification EXCEPT ![n].state = "live"]
          /\ delivery' = delivery
      BY <1>3 DEF Create, InsertNotification
    <2>2. View(n)' = [View(n) EXCEPT !.state = "live"] /\ View(n).state = "absent"
      BY <1>1, <2>1 DEF View, LastAttempt, StoreTypeOK, NotificationRow
    <2>3. LifecycleView' = [LifecycleView EXCEPT ![n] = View(n)']
      BY <1>1, <2>1, ViewOfOne DEF StoreTypeOK
    <2>4. Lifecycle!Appear(n)
      BY <1>2, <2>2, <2>3 DEF Lifecycle!Appear
    <2> QED
      BY <2>4 DEF Lifecycle!LifecycleNext
  <1>4. CASE Remove(n)
    <2>1. /\ notification[n].state = "live"
          /\ notification' = [notification EXCEPT ![n] = [Absent EXCEPT !.state = "deleted"]]
          /\ delivery' = [delivery EXCEPT ![n] = <<>>]
      BY <1>4 DEF Remove, DeleteNotification, Live
    <2>2. View(n)' = [Lifecycle!NoView EXCEPT !.state = "deleted"] /\ View(n).state = "live"
      BY <1>1, <2>1 DEF View, LastAttempt, StoreTypeOK, NotificationRow, Lifecycle!NoView, Absent
    <2>3. LifecycleView' = [LifecycleView EXCEPT ![n] = View(n)']
      BY <1>1, <2>1, ViewOfOne DEF StoreTypeOK
    <2>4. Lifecycle!Disappear(n)
      BY <1>2, <2>2, <2>3 DEF Lifecycle!Disappear
    <2> QED
      BY <2>4 DEF Lifecycle!LifecycleNext
  <1>5. CASE Send(n) \/ Enqueue(n) \/ EnqueueFails(n)
    BY <1>5, InvisibleStep DEF Send, Enqueue, EnqueueFails, storeVars
  <1>6. CASE Update(n)
    <2>1. notification' = [notification EXCEPT ![n].edition = @ + 1] /\ delivery' = delivery
      BY <1>6 DEF Update, EditNotification
    <2> QED
      BY <1>1, <2>1, InvisibleStep DEF StoreTypeOK, NotificationRow
  <1> QED
    BY <1>3, <1>4, <1>5, <1>6 DEF ClientStep

\* createDeliveryAttempt opens the next attempt.
LEMMA OpenLifecycle ==
    ASSUME Shape, NEW n \in Notifications, NEW e \in Nat, Live(n), InsertDelivery(n, e)
    PROVE  Lifecycle!LifecycleNext
  <1>1. StoreTypeOK
    BY DEF Shape, TypeOK
  <1>2. LifecycleView[n] = View(n) /\ LifecycleView = [m \in Notifications |-> View(m)]
    BY DEF LifecycleView, View
  <1>3. /\ LastAttempt(n)' = LastAttempt(n) + 1
        /\ \A m \in Notifications \ {n} :
                delivery'[m] = delivery[m] /\ notification'[m] = notification[m]
        /\ notification'[n].state = notification[n].state
        /\ notification'[n].status = "PROCESSING"
    BY <1>1, InsertDeliveryEffect
  <1>4. /\ View(n)' = [state |-> "live", status |-> "PROCESSING",
                       attempts |-> View(n).attempts + 1]
        /\ View(n).state = "live"
    BY <1>3 DEF View, Live
  <1>5. LifecycleView' = [LifecycleView EXCEPT ![n] = View(n)']
    BY <1>3, ViewOfOne
  <1>6. Lifecycle!OpenAttempt(n)
    BY <1>2, <1>4, <1>5 DEF Lifecycle!OpenAttempt
  <1> QED
    BY <1>6 DEF Lifecycle!LifecycleNext

\* Recording a result closes the attempt that is open.
LEMMA CloseLifecycle ==
    ASSUME Shape, NEW n \in Notifications, NEW k \in 1 .. LastAttempt(n),
           Live(n), notification[n].status = "PROCESSING",
           MarkSent(n, k) \/ MarkFailed(n, k)
    PROVE  Lifecycle!LifecycleNext
  <1>1. StoreTypeOK
    BY DEF Shape, TypeOK
  <1>2. LifecycleView[n] = View(n) /\ LifecycleView = [m \in Notifications |-> View(m)]
    BY DEF LifecycleView, View
  <1>3. PICK s \in {"SENT", "FAILED"} :
            /\ LastAttempt(n)' = LastAttempt(n)
            /\ \A m \in Notifications \ {n} :
                    delivery'[m] = delivery[m] /\ notification'[m] = notification[m]
            /\ notification'[n].state = notification[n].state
            /\ notification'[n].status = s
    <2>1. CASE MarkSent(n, k)
      BY <1>1, <2>1, MarkSentEffect
    <2>2. CASE MarkFailed(n, k)
      BY <1>1, <2>2, MarkFailedEffect
    <2> QED
      BY <2>1, <2>2
  <1>4. /\ View(n)' = [View(n) EXCEPT !.status = s]
        /\ View(n).state = "live" /\ View(n).status = "PROCESSING"
    BY <1>3 DEF View, Live
  <1>5. LifecycleView' = [LifecycleView EXCEPT ![n] = View(n)']
    BY <1>3, ViewOfOne
  <1>6. Lifecycle!CloseAttempt(n)
    BY <1>2, <1>4, <1>5 DEF Lifecycle!CloseAttempt
  <1> QED
    BY <1>6 DEF Lifecycle!LifecycleNext

\* The notification of an open attempt that is the latest reads PROCESSING.
LEMMA SendingReadsProcessing ==
    ASSUME IndInv, HistoryInv, NoFault({"lock"}),
           NEW w \in Workers, Sending(w), Live(Target(w))
    PROVE  notification[Target(w)].status = "PROCESSING"
  <1>1. PICK n \in Notifications : n = Target(w)
    BY TargetExists DEF IndInv, Sending
  <1>2. worker[w].attempt = LastAttempt(n) /\ worker[w].attempt \in 1 .. LastAttempt(n)
    BY <1>1 DEF IndInv, Sequential, SenderIsCurrent, UpToDate, Shape, AttemptExists, InRange,
                Sending
  <1>3. LastAttempt(n) # 0
    BY <1>2 DEF IndInv, Shape, TypeOK, StoreTypeOK, LastAttempt
  <1>4. delivery[n][LastAttempt(n)].status = "PROCESSING"
    BY <1>1, <1>2 DEF HistoryInv, OwnAttempt
  <1>5. Agrees(n)
    BY <1>1 DEF IndInv, StatusAgrees
  <1> QED
    BY <1>1, <1>3, <1>4, <1>5 DEF Agrees

\* Every step of the sending side is a step of the lifecycle or invisible.
LEMMA LifecycleStep ==
    ASSUME IndInv, HistoryInv, [Next]_vars, NoFault({"lock"})'
    PROVE  [Lifecycle!LifecycleNext]_LifecycleView
  <1>1. Shape /\ NoFault({"lock"})
    BY LocksOnlyGetLost DEF IndInv
  <1>2. CASE UNCHANGED storeVars
    BY <1>2, InvisibleStep DEF storeVars
  <1>3. ASSUME NEW n \in Notifications, ClientStep(n) \/ Remove(n)
        PROVE  [Lifecycle!LifecycleNext]_LifecycleView
    BY <1>1, <1>3, ClientLifecycle
  <1>4. ASSUME NEW w \in Workers, worker[w].pc # "idle", Live(Target(w)),
               InsertDelivery(Target(w), worker[w].edition)
        PROVE  [Lifecycle!LifecycleNext]_LifecycleView
    <2>1. PICK n \in Notifications, e \in Nat : n = Target(w) /\ e = worker[w].edition
      BY <1>1, <1>4, TargetExists DEF WorkerRecord
    <2> QED
      BY <1>1, <1>4, <2>1, OpenLifecycle
  <1>5. ASSUME NEW w \in Workers, Sending(w), Live(Target(w)),
               \/ MarkSent(Target(w), worker[w].attempt)
               \/ MarkFailed(Target(w), worker[w].attempt)
        PROVE  [Lifecycle!LifecycleNext]_LifecycleView
    <2>1. PICK n \in Notifications : n = Target(w)
      BY <1>1, <1>5, TargetExists DEF Sending
    <2>2. PICK k \in 1 .. LastAttempt(n) : k = worker[w].attempt
      BY <1>1, <1>5, <2>1 DEF Sending, Shape, AttemptExists, InRange
    <2>3. Live(n) /\ notification[n].status = "PROCESSING" /\ (MarkSent(n, k) \/ MarkFailed(n, k))
      BY <1>1, <1>5, <2>1, <2>2, SendingReadsProcessing
    <2> QED
      BY <1>1, <2>3, CloseLifecycle
  <1> QED
    BY ZenonT(40), <1>2, <1>3, <1>4, <1>5
       DEF Next, vars, QueueStep, Promote, Stall, LoseLock, Take, Crash, WorkerStep, Load,
           ReadLast, InsertAttempt, ProviderAccepts, ProviderRefuses, ReplyLost, CallProvider,
           RecordSuccess, RecordFailure, DatabaseFails, Settle, storeVars, Sending

\* The sending side implements the lifecycle a reader is promised.
THEOREM LifecycleIsImplemented == Spec => ImplementsLifecycle
  <1>1. Init => Lifecycle!LifecycleInit
    BY DEF Init, StoreInit, Lifecycle!LifecycleInit, Lifecycle!NoView, LifecycleView, Absent,
           LastAttempt
  <1>2. IndInv /\ Shape /\ HistoryInv /\ [Next]_vars =>
            [faults'["lock"] = 0 => [Lifecycle!LifecycleNext]_LifecycleView]_vars
    BY LifecycleStep DEF NoFault
  <1> QED
    BY <1>1, <1>2, Invariance, HistoryInvariance, PTL DEF Spec, ImplementsLifecycle
=============================================================================
