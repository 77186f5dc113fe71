------------------------- MODULE DeliveryWorkerProofs -------------------------
(***************************************************************************)
(* The invariants of the sending side, proved for every number of          *)
(* notifications, workers and jobs and every budget of faults.             *)
(***************************************************************************)
EXTENDS DeliveryWorker, TLAPS

(***************************************************************************)
(* What the transactions of DeliveryStore do to the shape of the tables.   *)
(***************************************************************************)

\* Appending an open attempt keeps the rows and adds one number.
LEMMA AppendRow ==
    ASSUME NEW s \in Seq(DeliveryRow), NEW r \in DeliveryRow
    PROVE  /\ Append(s, r) \in Seq(DeliveryRow)
           /\ Len(Append(s, r)) = Len(s) + 1
           /\ Append(s, r)[Len(s) + 1] = r
           /\ \A i \in 1 .. Len(s) : Append(s, r)[i] = s[i]
  OBVIOUS

\* Overwriting an attempt keeps their number.
LEMMA ReplaceRow ==
    ASSUME NEW s \in Seq(DeliveryRow), NEW k \in 1 .. Len(s), NEW r \in DeliveryRow
    PROVE  /\ [s EXCEPT ![k] = r] \in Seq(DeliveryRow)
           /\ Len([s EXCEPT ![k] = r]) = Len(s)
           /\ [s EXCEPT ![k] = r][k] = r
  OBVIOUS

\* createDeliveryAttempt adds the next row, open, and opens the notification.
LEMMA InsertDeliveryEffect ==
    ASSUME StoreTypeOK, NEW n \in Notifications, NEW e \in Nat, InsertDelivery(n, e)
    PROVE  /\ StoreTypeOK'
           /\ LastAttempt(n)' = LastAttempt(n) + 1
           /\ \A m \in Notifications \ {n} :
                delivery'[m] = delivery[m] /\ notification'[m] = notification[m]
           /\ notification'[n].state = notification[n].state
           /\ notification'[n].status = "PROCESSING"
           /\ notification'[n].error = FALSE
           /\ delivery'[n][LastAttempt(n) + 1].status = "PROCESSING"
           /\ delivery'[n][LastAttempt(n) + 1].error = FALSE
  <1> DEFINE row == [status |-> "PROCESSING", error |-> FALSE, edition |-> e, msg |-> FALSE]
  <1>1. row \in DeliveryRow
    BY DEF DeliveryRow, DeliveryStatus
  <1>2. delivery[n] \in Seq(DeliveryRow)
    BY DEF StoreTypeOK
  <1>3. /\ delivery' = [delivery EXCEPT ![n] = Append(delivery[n], row)]
        /\ notification' = [notification EXCEPT ![n].status = "PROCESSING", ![n].error = FALSE]
    BY DEF InsertDelivery
  <1>4. /\ Append(delivery[n], row) \in Seq(DeliveryRow)
        /\ Len(Append(delivery[n], row)) = Len(delivery[n]) + 1
        /\ Append(delivery[n], row)[Len(delivery[n]) + 1] = row
    BY <1>1, <1>2, AppendRow
  <1> HIDE DEF row
  <1>5. delivery' \in [Notifications -> Seq(DeliveryRow)]
    BY <1>3, <1>4 DEF StoreTypeOK
  <1>6. notification' \in [Notifications -> NotificationRow]
    BY ZenonT(40), <1>3 DEF StoreTypeOK, NotificationRow, NotificationStatus
  <1>7. delivery'[n] = Append(delivery[n], row)
    BY <1>3 DEF StoreTypeOK
  <1>8. row.status = "PROCESSING" /\ row.error = FALSE
    BY DEF row
  <1>9. \A m \in Notifications \ {n} :
                delivery'[m] = delivery[m] /\ notification'[m] = notification[m]
    BY <1>3 DEF StoreTypeOK
  <1>10. /\ notification'[n].state = notification[n].state
         /\ notification'[n].status = "PROCESSING"
         /\ notification'[n].error = FALSE
    BY <1>3 DEF StoreTypeOK, NotificationRow
  <1> QED
    BY <1>4, <1>5, <1>6, <1>7, <1>8, <1>9, <1>10 DEF StoreTypeOK, LastAttempt

\* The success transaction changes one attempt and its notification.
LEMMA MarkSentEffect ==
    ASSUME StoreTypeOK, NEW n \in Notifications, NEW k \in 1 .. LastAttempt(n), MarkSent(n, k)
    PROVE  /\ StoreTypeOK'
           /\ LastAttempt(n)' = LastAttempt(n)
           /\ \A m \in Notifications \ {n} :
                delivery'[m] = delivery[m] /\ notification'[m] = notification[m]
           /\ notification'[n].state = notification[n].state
           /\ notification'[n].status = "SENT"
           /\ notification'[n].error = FALSE
           /\ delivery'[n][k].status = "SENT"
           /\ delivery'[n][k].error = FALSE
  <1> DEFINE row == [delivery[n][k] EXCEPT !.status = "SENT", !.error = FALSE, !.msg = TRUE]
  <1>1. delivery[n] \in Seq(DeliveryRow) /\ k \in 1 .. Len(delivery[n])
    BY DEF StoreTypeOK, LastAttempt
  <1>2. delivery[n][k] \in DeliveryRow
    BY <1>1
  <1>3. row \in DeliveryRow /\ row.status = "SENT" /\ row.error = FALSE
    BY <1>2 DEF DeliveryRow, DeliveryStatus
  <1>4. delivery' = [delivery EXCEPT ![n] = [delivery[n] EXCEPT ![k] = row]]
    BY <1>1, <1>2 DEF MarkSent, StoreTypeOK, DeliveryRow
  <1>5. notification' = [notification EXCEPT ![n].status = "SENT", ![n].error = FALSE]
    BY DEF MarkSent
  <1> HIDE DEF row
  <1>6. /\ [delivery[n] EXCEPT ![k] = row] \in Seq(DeliveryRow)
        /\ Len([delivery[n] EXCEPT ![k] = row]) = Len(delivery[n])
        /\ [delivery[n] EXCEPT ![k] = row][k] = row
    BY <1>1, <1>3, ReplaceRow
  <1>7. delivery' \in [Notifications -> Seq(DeliveryRow)]
    BY <1>4, <1>6 DEF StoreTypeOK
  <1>8. notification' \in [Notifications -> NotificationRow]
    BY ZenonT(40), <1>5 DEF StoreTypeOK, NotificationRow, NotificationStatus
  <1>9. delivery'[n] = [delivery[n] EXCEPT ![k] = row]
    BY <1>4 DEF StoreTypeOK
  <1>10. \A m \in Notifications \ {n} :
                delivery'[m] = delivery[m] /\ notification'[m] = notification[m]
    BY <1>4, <1>5 DEF StoreTypeOK
  <1>11. /\ notification'[n].state = notification[n].state
         /\ notification'[n].status = "SENT"
         /\ notification'[n].error = FALSE
    BY <1>5 DEF StoreTypeOK, NotificationRow
  <1> QED
    BY <1>3, <1>6, <1>7, <1>8, <1>9, <1>10, <1>11 DEF StoreTypeOK, LastAttempt

\* The failure transaction changes one attempt and its notification.
LEMMA MarkFailedEffect ==
    ASSUME StoreTypeOK, NEW n \in Notifications, NEW k \in 1 .. LastAttempt(n), MarkFailed(n, k)
    PROVE  /\ StoreTypeOK'
           /\ LastAttempt(n)' = LastAttempt(n)
           /\ \A m \in Notifications \ {n} :
                delivery'[m] = delivery[m] /\ notification'[m] = notification[m]
           /\ notification'[n].state = notification[n].state
           /\ notification'[n].status = "FAILED"
           /\ notification'[n].error = TRUE
           /\ delivery'[n][k].status = "FAILED"
           /\ delivery'[n][k].error = TRUE
  <1> DEFINE row == [delivery[n][k] EXCEPT !.status = "FAILED", !.error = TRUE]
  <1>1. delivery[n] \in Seq(DeliveryRow) /\ k \in 1 .. Len(delivery[n])
    BY DEF StoreTypeOK, LastAttempt
  <1>2. delivery[n][k] \in DeliveryRow
    BY <1>1
  <1>3. row \in DeliveryRow /\ row.status = "FAILED" /\ row.error = TRUE
    BY <1>2 DEF DeliveryRow, DeliveryStatus
  <1>4. delivery' = [delivery EXCEPT ![n] = [delivery[n] EXCEPT ![k] = row]]
    BY <1>1, <1>2 DEF MarkFailed, StoreTypeOK, DeliveryRow
  <1>5. notification' = [notification EXCEPT ![n].status = "FAILED", ![n].error = TRUE]
    BY DEF MarkFailed
  <1> HIDE DEF row
  <1>6. /\ [delivery[n] EXCEPT ![k] = row] \in Seq(DeliveryRow)
        /\ Len([delivery[n] EXCEPT ![k] = row]) = Len(delivery[n])
        /\ [delivery[n] EXCEPT ![k] = row][k] = row
    BY <1>1, <1>3, ReplaceRow
  <1>7. delivery' \in [Notifications -> Seq(DeliveryRow)]
    BY <1>4, <1>6 DEF StoreTypeOK
  <1>8. notification' \in [Notifications -> NotificationRow]
    BY ZenonT(40), <1>5 DEF StoreTypeOK, NotificationRow, NotificationStatus
  <1>9. delivery'[n] = [delivery[n] EXCEPT ![k] = row]
    BY <1>4 DEF StoreTypeOK
  <1>10. \A m \in Notifications \ {n} :
                delivery'[m] = delivery[m] /\ notification'[m] = notification[m]
    BY <1>4, <1>5 DEF StoreTypeOK
  <1>11. /\ notification'[n].state = notification[n].state
         /\ notification'[n].status = "FAILED"
         /\ notification'[n].error = TRUE
    BY <1>5 DEF StoreTypeOK, NotificationRow
  <1> QED
    BY <1>3, <1>6, <1>7, <1>8, <1>9, <1>10, <1>11 DEF StoreTypeOK, LastAttempt

(***************************************************************************)
(* The shape of the state: what holds whatever fails.                      *)
(***************************************************************************)

\* A stalled or settled job is a record of the same job, no longer unused.
LEMMA EndedJob ==
    ASSUME TypeOK, NEW j \in Jobs, job[j].state # "unused"
    PROVE  /\ Stalled(j) \in JobRecord
           /\ Stalled(j).state \in {"waiting", "failed"}
           /\ Stalled(j).notif = job[j].notif
           /\ \A e \in Errors :
                /\ Settled(j, e) \in JobRecord
                /\ Settled(j, e).state \in {"completed", "delayed", "failed"}
                /\ Settled(j, e).notif = job[j].notif
  <1>1. /\ job[j] \in JobRecord
        /\ job[j].made + 1 \in Nat
        /\ job[j].stalls + 1 \in Nat
    BY DEF TypeOK, JobRecord
  <1>2. /\ Stalled(j) \in JobRecord
        /\ Stalled(j).state \in {"waiting", "failed"}
        /\ Stalled(j).notif = job[j].notif
    <2>1. CASE job[j].stalls < MaxStalledCount
      <3>1. PICK t \in Nat : t = job[j].stalls + 1
        BY <1>1
      <3>2. Stalled(j) = [job[j] EXCEPT !.state = "waiting", !.owner = None, !.stalls = t]
        BY <2>1, <3>1 DEF Stalled
      <3> QED
        BY <1>1, <3>2 DEF JobRecord, JobState
    <2>2. CASE ~(job[j].stalls < MaxStalledCount)
      <3>1. Stalled(j) = [job[j] EXCEPT !.state = "failed", !.owner = None]
        BY <2>2 DEF Stalled
      <3> QED
        BY <1>1, <3>1 DEF JobRecord, JobState
    <2> QED
      BY <2>1, <2>2
  <1>3. ASSUME NEW e \in Errors
        PROVE  /\ Settled(j, e) \in JobRecord
               /\ Settled(j, e).state \in {"completed", "delayed", "failed"}
               /\ Settled(j, e).notif = job[j].notif
    <2>1. PICK s \in {"completed", "delayed", "failed"} : s = Outcome(j, e)
      BY <1>3 DEF Outcome, Errors
    <2>2. PICK m \in Nat : m = job[j].made + 1
      BY <1>1
    <2>3. Settled(j, e) = [job[j] EXCEPT !.state = s, !.owner = None, !.made = m]
      BY <2>1, <2>2 DEF Settled
    <2> QED
      BY <1>1, <2>3 DEF JobRecord, JobState
  <1> QED
    BY <1>2, <1>3

\* Nothing exists at the start.
LEMMA ShapeInit == Init => Shape
  <1> SUFFICES ASSUME Init PROVE Shape
    OBVIOUS
  <1>1. Absent \in NotificationRow /\ Unused \in JobRecord /\ Idle \in WorkerRecord
    BY DEF Absent, Unused, Idle, NotificationRow, NotificationStatus, JobRecord, JobState,
           WorkerRecord, Steps, Errors
  <1>2. TypeOK
    BY <1>1 DEF Init, StoreInit, TypeOK, StoreTypeOK, Call
  <1>3. JobsAreNamed /\ BusyHasJob /\ AttemptExists /\ NothingBeforeCreation
    BY DEF Init, StoreInit, JobsAreNamed, BusyHasJob, AttemptExists, NothingBeforeCreation,
           Unused, Idle
  <1> QED
    BY <1>2, <1>3 DEF Shape

\* The steps of clients keep the shape.
LEMMA ClientShape ==
    ASSUME Shape, NEW n \in Notifications, ClientStep(n) \/ Remove(n)
    PROVE  Shape'
  <1> USE DEF Shape, TypeOK, StoreTypeOK
  <1>1. CASE Create(n)
    <2>1. /\ notification' = [notification EXCEPT ![n].state = "live"]
          /\ notification[n].state = "absent"
          /\ requests' = [requests EXCEPT ![n] = @ + 1]
          /\ posting' = [posting EXCEPT ![n] = @ + 1]
          /\ UNCHANGED <<delivery, job, worker, calls, faults>>
      BY <1>1 DEF Create, Post, InsertNotification
    <2>2. notification' \in [Notifications -> NotificationRow]
      BY <2>1 DEF NotificationRow
    <2>3. TypeOK'
      BY <2>1, <2>2
    <2>4. JobsAreNamed' /\ BusyHasJob' /\ NothingBeforeCreation'
      BY <2>1 DEF JobsAreNamed, BusyHasJob, NothingBeforeCreation, NotificationRow
    <2>5. AttemptExists'
      BY <2>1 DEF AttemptExists, JobsAreNamed, BusyHasJob, Live, Target, LastAttempt
    <2> QED
      BY <2>3, <2>4, <2>5
  <1>2. CASE Send(n)
    <2>1. /\ notification[n].state = "live"
          /\ requests' = [requests EXCEPT ![n] = @ + 1]
          /\ posting' = [posting EXCEPT ![n] = @ + 1]
          /\ UNCHANGED <<notification, delivery, job, worker, calls, faults>>
      BY <1>2 DEF Send, Post, Live, storeVars
    <2> QED
      BY <2>1 DEF JobsAreNamed, BusyHasJob, AttemptExists, NothingBeforeCreation, Live, Target,
                  LastAttempt
  <1>3. CASE Update(n)
    <2>1. /\ notification[n].state = "live"
          /\ notification' = [notification EXCEPT ![n].edition = @ + 1]
          /\ UNCHANGED <<delivery, job, worker, requests, posting, calls, faults>>
      BY <1>3 DEF Update, EditNotification, Live
    <2>2. notification' \in [Notifications -> NotificationRow]
      <3>1. notification[n] \in NotificationRow
        OBVIOUS
      <3>2. notification[n].edition + 1 \in Nat
        BY <3>1 DEF NotificationRow
      <3>3. ASSUME NEW e \in Nat
            PROVE  [notification[n] EXCEPT !.edition = e] \in NotificationRow
        BY <3>1 DEF NotificationRow
      <3> QED
        BY <2>1, <3>2, <3>3
    <2>3. \A m \in Notifications : notification'[m].state = notification[m].state
      BY <2>1 DEF NotificationRow
    <2>4. NothingBeforeCreation'
      BY <2>1, <2>3 DEF NothingBeforeCreation
    <2> QED
      BY <2>1, <2>2, <2>3, <2>4 DEF JobsAreNamed, BusyHasJob, AttemptExists, Live, Target,
                                    LastAttempt
  <1>4. CASE Remove(n)
    <2>1. /\ notification[n].state = "live"
          /\ notification' = [notification EXCEPT ![n] = [Absent EXCEPT !.state = "deleted"]]
          /\ delivery' = [delivery EXCEPT ![n] = <<>>]
          /\ UNCHANGED <<job, worker, requests, posting, calls, faults>>
      BY <1>4 DEF Remove, DeleteNotification, Live
    <2>2. [Absent EXCEPT !.state = "deleted"] \in NotificationRow
      BY DEF Absent, NotificationRow, NotificationStatus
    <2>3. [Absent EXCEPT !.state = "deleted"].state = "deleted"
      BY DEF Absent
    <2>4. /\ notification' \in [Notifications -> NotificationRow]
          /\ delivery' \in [Notifications -> Seq(DeliveryRow)]
          /\ notification'[n].state = "deleted"
          /\ \A m \in Notifications \ {n} :
                notification'[m] = notification[m] /\ delivery'[m] = delivery[m]
      BY <2>1, <2>2, <2>3
    <2> QED
      BY <2>1, <2>4 DEF JobsAreNamed, BusyHasJob, AttemptExists, NothingBeforeCreation, Live,
                        Target, LastAttempt
  <1>5. CASE Enqueue(n)
    <2>1. /\ posting[n] > 0
          /\ posting' = [posting EXCEPT ![n] = @ - 1]
          /\ UNCHANGED <<notification, delivery, worker, requests, calls, faults>>
          /\ AddJob(n)
      BY <1>5 DEF Enqueue
    <2>2. CASE UNCHANGED job
      BY <2>1, <2>2 DEF JobsAreNamed, BusyHasJob, AttemptExists, NothingBeforeCreation, Live,
                        Target, LastAttempt
    <2>3. ASSUME NEW j \in Jobs, job[j].state = "unused",
                 job' = [job EXCEPT ![j].state = "waiting", ![j].notif = n]
          PROVE  Shape'
      <3>1. /\ job' \in [Jobs -> JobRecord]
            /\ job'[j].notif = n /\ job'[j].state = "waiting"
            /\ \A i \in Jobs \ {j} : job'[i] = job[i]
        BY ZenonT(40), <2>3 DEF JobRecord, JobState
      <3>2. \A w \in Workers : worker[w].pc # "idle" => worker[w].job # j
        BY <2>3 DEF BusyHasJob
      <3>3. AttemptExists'
        BY <2>1, <3>1, <3>2 DEF AttemptExists, BusyHasJob, Live, Target, LastAttempt
      <3>4. posting' \in [Notifications -> Nat]
        BY <2>1
      <3>5. JobsAreNamed' /\ BusyHasJob' /\ NothingBeforeCreation'
        BY <2>1, <3>1 DEF JobsAreNamed, BusyHasJob, NothingBeforeCreation
      <3> QED
        BY <2>1, <3>1, <3>3, <3>4, <3>5
    <2> QED
      BY <2>1, <2>2, <2>3 DEF AddJob
  <1>6. CASE EnqueueFails(n)
    <2>1. /\ posting[n] > 0
          /\ posting' = [posting EXCEPT ![n] = @ - 1]
          /\ faults' = [faults EXCEPT !["queue"] = @ + 1]
          /\ UNCHANGED <<notification, delivery, job, worker, requests, calls>>
      BY <1>6 DEF EnqueueFails, Fault
    <2>2. posting' \in [Notifications -> Nat] /\ faults' \in [FaultKinds -> Nat]
      BY <2>1 DEF FaultKinds
    <2> QED
      BY <2>1, <2>2 DEF JobsAreNamed, BusyHasJob, AttemptExists, NothingBeforeCreation, Live,
                        Target, LastAttempt
  <1> QED
    BY <1>1, <1>2, <1>3, <1>4, <1>5, <1>6 DEF ClientStep

\* The steps of the queue, and crashes, change no table.
LEMMA QueueShape ==
    ASSUME Shape, NEW j \in Jobs, QueueStep(j) \/ \E w \in Workers : Crash(w)
    PROVE  Shape'
  <1> USE DEF Shape, TypeOK
  <1>1. UNCHANGED <<notification, delivery, requests, posting, calls>>
    BY DEF QueueStep, Promote, Stall, LoseLock, Take, Crash
  <1>2. StoreTypeOK' /\ NothingBeforeCreation'
    BY <1>1 DEF StoreTypeOK, NothingBeforeCreation
  <1>3. ASSUME NEW i \in Jobs, NEW r \in JobRecord, job' = [job EXCEPT ![i] = r],
               r.state # "unused", r.notif = job[i].notif, job[i].state # "unused",
               worker' = worker, faults' \in [FaultKinds -> Nat]
        PROVE  Shape'
    <2>1. /\ job' \in [Jobs -> JobRecord]
          /\ \A h \in Jobs : job'[h].notif = job[h].notif
          /\ \A h \in Jobs : job'[h].state = "unused" <=> job[h].state = "unused"
      BY <1>3
    <2>2. JobsAreNamed' /\ BusyHasJob'
      BY <1>1, <1>3, <2>1 DEF JobsAreNamed, BusyHasJob
    <2>3. AttemptExists'
      BY ZenonT(40), <1>1, <1>3, <2>1 DEF AttemptExists, BusyHasJob, Live, Target, LastAttempt
    <2> QED
      BY <1>1, <1>2, <1>3, <2>1, <2>2, <2>3
  <1>4. CASE Promote(j)
    <2> DEFINE r == [job[j] EXCEPT !.state = "waiting"]
    <2>1. r \in JobRecord /\ r.state # "unused" /\ r.notif = job[j].notif
      BY DEF JobRecord, JobState
    <2> QED
      BY <1>3, <1>4, <2>1 DEF Promote
  <1>5. CASE Stall(j)
    BY <1>3, <1>5, EndedJob DEF Stall
  <1>6. CASE LoseLock(j)
    <2>1. faults' \in [FaultKinds -> Nat]
      BY <1>6 DEF LoseLock, Fault, FaultKinds
    <2> QED
      BY <1>3, <1>6, <2>1, EndedJob DEF LoseLock
  <1>7. ASSUME NEW w \in Workers, Take(w, j)
        PROVE  Shape'
    <2>1. /\ job[j].state = "waiting"
          /\ job' = [job EXCEPT ![j].state = "active", ![j].owner = w]
          /\ worker' = [worker EXCEPT ![w] = [Idle EXCEPT !.pc = "load", !.job = j]]
          /\ UNCHANGED faults
      BY <1>7 DEF Take
    <2>2. /\ [Idle EXCEPT !.pc = "load", !.job = j] \in WorkerRecord
          /\ [Idle EXCEPT !.pc = "load", !.job = j].pc = "load"
          /\ [Idle EXCEPT !.pc = "load", !.job = j].job = j
      BY DEF Idle, WorkerRecord, Steps, Errors
    <2>3. /\ worker' \in [Workers -> WorkerRecord]
          /\ worker'[w].pc = "load" /\ worker'[w].job = j
          /\ \A v \in Workers \ {w} : worker'[v] = worker[v]
      BY <2>1, <2>2
    <2>4. /\ job' \in [Jobs -> JobRecord]
          /\ \A h \in Jobs : job'[h].notif = job[h].notif
          /\ \A h \in Jobs : job'[h].state = "unused" <=> job[h].state = "unused"
      BY ZenonT(40), <2>1 DEF JobRecord, JobState
    <2>5. JobsAreNamed' /\ BusyHasJob'
      BY <1>1, <2>1, <2>3, <2>4 DEF JobsAreNamed, BusyHasJob
    <2>6. AttemptExists'
      <3>1. SUFFICES ASSUME NEW v \in Workers, worker'[v].pc # "idle", Live(Target(v))'
                     PROVE  InRange(worker'[v], LastAttempt(Target(v))')
        BY DEF AttemptExists
      <3>2. CASE v = w
        BY <2>3, <3>2 DEF InRange
      <3>3. CASE v # w
        <4>1. worker'[v] = worker[v] /\ worker[v].job \in Jobs
          BY <2>3, <3>1, <3>3 DEF BusyHasJob
        <4>2. Target(v)' = Target(v)
          BY <2>4, <4>1 DEF Target
        <4> QED
          BY <1>1, <3>1, <4>1, <4>2 DEF AttemptExists, Live, LastAttempt
      <3> QED
        BY <3>2, <3>3
    <2> QED
      BY <1>1, <1>2, <2>1, <2>3, <2>4, <2>5, <2>6
  <1>8. ASSUME NEW w \in Workers, Crash(w)
        PROVE  Shape'
    <2>1. /\ worker' = [worker EXCEPT ![w] = Idle]
          /\ faults' = [faults EXCEPT !["crash"] = @ + 1]
          /\ job' = IF Holds(w) THEN [job EXCEPT ![worker[w].job].owner = None] ELSE job
      BY <1>8 DEF Crash, Fault
    <2>2. Idle \in WorkerRecord /\ Idle.pc = "idle"
      BY DEF Idle, WorkerRecord, Steps, Errors
    <2>3. /\ worker' \in [Workers -> WorkerRecord]
          /\ worker'[w].pc = "idle"
          /\ \A v \in Workers \ {w} : worker'[v] = worker[v]
          /\ faults' \in [FaultKinds -> Nat]
      BY <2>1, <2>2 DEF FaultKinds
    <2>4. /\ job' \in [Jobs -> JobRecord]
          /\ \A h \in Jobs : job'[h].notif = job[h].notif
          /\ \A h \in Jobs : job'[h].state = job[h].state
      BY ZenonT(40), <2>1 DEF JobRecord
    <2>5. JobsAreNamed' /\ BusyHasJob'
      BY <1>1, <2>3, <2>4 DEF JobsAreNamed, BusyHasJob
    <2>6. AttemptExists'
      <3>1. SUFFICES ASSUME NEW v \in Workers, worker'[v].pc # "idle", Live(Target(v))'
                     PROVE  InRange(worker'[v], LastAttempt(Target(v))')
        BY DEF AttemptExists
      <3>2. worker'[v] = worker[v] /\ worker[v].job \in Jobs
        BY <2>3, <3>1 DEF BusyHasJob
      <3>3. Target(v)' = Target(v)
        BY <2>4, <3>2 DEF Target
      <3> QED
        BY <1>1, <3>1, <3>2, <3>3 DEF AttemptExists, Live, LastAttempt
    <2> QED
      BY <1>1, <1>2, <2>1, <2>3, <2>4, <2>5, <2>6
  <1> QED
    BY <1>4, <1>5, <1>6, <1>7, <1>8 DEF QueueStep

\* When only worker w moves on, with the same job, and the tables stay, what is
\* left to show of it is its type and that its attempt exists.
LEMMA MoveShape ==
    ASSUME Shape, NEW w \in Workers, worker[w].pc # "idle",
           NEW r \in WorkerRecord, worker' = [worker EXCEPT ![w] = r],
           r.job = worker[w].job,
           Live(Target(w)) => InRange(r, LastAttempt(Target(w))),
           UNCHANGED <<notification, delivery, job, requests, posting>>,
           calls' \subseteq Call, faults' \in [FaultKinds -> Nat]
    PROVE  Shape'
  <1> USE DEF Shape, TypeOK
  <1>1. /\ worker' \in [Workers -> WorkerRecord]
        /\ worker'[w] = r
        /\ \A v \in Workers \ {w} : worker'[v] = worker[v]
    OBVIOUS
  <1>2. \A v \in Workers : worker'[v].job = worker[v].job
    BY <1>1
  <1>3. TypeOK'
    BY <1>1 DEF StoreTypeOK
  <1>4. JobsAreNamed' /\ NothingBeforeCreation'
    BY DEF JobsAreNamed, NothingBeforeCreation
  <1>5. BusyHasJob'
    BY <1>1 DEF BusyHasJob
  <1>6. AttemptExists'
    BY <1>1, <1>2 DEF AttemptExists, Live, Target, LastAttempt
  <1> QED
    BY <1>3, <1>4, <1>5, <1>6

\* A worker's target is a notification that was created.
LEMMA TargetExists ==
    ASSUME Shape, NEW w \in Workers, worker[w].pc # "idle"
    PROVE  /\ worker[w] \in WorkerRecord
           /\ worker[w].job \in Jobs
           /\ Target(w) \in Notifications
           /\ notification[Target(w)].state # "absent"
           /\ LastAttempt(Target(w)) \in Nat
  BY DEF Shape, TypeOK, StoreTypeOK, JobsAreNamed, BusyHasJob, Target, LastAttempt

\* When worker w writes its attempt k of notification n, the attempts of the
\* others stay where they are.
LEMMA WriteShape ==
    ASSUME Shape, NEW w \in Workers, worker[w].pc # "idle",
           NEW r \in WorkerRecord, worker' = [worker EXCEPT ![w] = r],
           r.job = worker[w].job,
           Live(Target(w)),
           StoreTypeOK',
           LastAttempt(Target(w))' >= LastAttempt(Target(w)),
           InRange(r, LastAttempt(Target(w))'),
           \A m \in Notifications \ {Target(w)} :
                delivery'[m] = delivery[m] /\ notification'[m] = notification[m],
           notification'[Target(w)].state = notification[Target(w)].state,
           UNCHANGED <<job, requests, posting, calls, faults>>
    PROVE  Shape'
  <1> DEFINE n == Target(w)
  <1>1. n \in Notifications /\ worker[w].job \in Jobs
    BY TargetExists
  <1>2. /\ worker' \in [Workers -> WorkerRecord]
        /\ worker'[w] = r
        /\ \A v \in Workers \ {w} : worker'[v] = worker[v]
    BY DEF Shape, TypeOK
  <1>3. \A v \in Workers : Target(v)' = Target(v)
    BY <1>2 DEF Target
  <1>4. TypeOK'
    BY <1>2 DEF Shape, TypeOK
  <1>5. \A m \in Notifications : notification'[m].state = notification[m].state
    BY <1>1
  <1>6. JobsAreNamed'
    BY <1>5 DEF Shape, JobsAreNamed
  <1>7. NothingBeforeCreation'
    BY <1>1, <1>5 DEF Shape, NothingBeforeCreation, Live
  <1>8. BusyHasJob'
    BY <1>1, <1>2 DEF Shape, BusyHasJob
  <1>9. AttemptExists'
    <2> SUFFICES ASSUME NEW v \in Workers, worker'[v].pc # "idle", Live(Target(v))'
                 PROVE  InRange(worker'[v], LastAttempt(Target(v))')
      BY DEF AttemptExists
    <2>1. CASE v = w
      BY <1>2, <1>3, <2>1
    <2>2. CASE v # w
      <3>1. worker'[v] = worker[v] /\ worker[v].pc # "idle"
        BY <1>2, <2>2
      <3>2. Target(v) \in Notifications /\ LastAttempt(Target(v)) \in Nat
        BY <3>1, TargetExists
      <3>3. Live(Target(v))
        BY <1>3, <1>5, <3>2 DEF Live
      <3>4. InRange(worker[v], LastAttempt(Target(v)))
        BY <3>1, <3>3 DEF Shape, AttemptExists
      <3>5. LastAttempt(Target(v))' >= LastAttempt(Target(v)) /\ LastAttempt(Target(v))' \in Nat
        <4>1. CASE Target(v) = n
          BY <1>3, <4>1, <3>2 DEF StoreTypeOK, LastAttempt
        <4>2. CASE Target(v) # n
          BY <1>3, <3>2, <4>2 DEF LastAttempt
        <4> QED
          BY <4>1, <4>2
      <3>6. worker[v].last \in Nat /\ worker[v].attempt \in Nat
        BY <3>1, TargetExists DEF WorkerRecord
      <3> QED
        BY <3>1, <3>2, <3>4, <3>5, <3>6 DEF InRange
    <2> QED
      BY <2>1, <2>2
  <1> QED
    BY <1>4, <1>6, <1>7, <1>8, <1>9 DEF Shape

\* The steps of a worker keep the shape.
LEMMA WorkerShape ==
    ASSUME Shape, NEW w \in Workers, WorkerStep(w)
    PROVE  Shape'
  <1> DEFINE n == Target(w)
  <1>0. worker[w].pc # "idle"
    BY DEF WorkerStep, Load, ReadLast, InsertAttempt, ProviderAccepts, ProviderRefuses,
           ReplyLost, CallProvider, RecordSuccess, RecordFailure, DatabaseFails, Settle
  <1>1. /\ worker[w] \in WorkerRecord
        /\ worker[w].job \in Jobs
        /\ n \in Notifications
        /\ LastAttempt(n) \in Nat
    BY <1>0, TargetExists
  <1>2. /\ calls \subseteq Call
        /\ faults \in [FaultKinds -> Nat]
        /\ worker \in [Workers -> WorkerRecord]
        /\ StoreTypeOK
    BY DEF Shape, TypeOK
  <1>3. ASSUME NEW e \in Errors, Throw(w, e),
               UNCHANGED <<notification, delivery, job, requests, posting>>,
               calls' \subseteq Call, faults' \in [FaultKinds -> Nat]
        PROVE  Shape'
    <2> DEFINE r == [worker[w] EXCEPT !.pc = "settle", !.error = e]
    <2>1. r \in WorkerRecord /\ r.job = worker[w].job /\ r.pc = "settle"
      BY <1>1 DEF WorkerRecord, Steps
    <2>2. worker' = [worker EXCEPT ![w] = r]
      BY <1>2, <1>3 DEF Throw
    <2>3. InRange(r, LastAttempt(n))
      BY <2>1 DEF InRange
    <2> HIDE DEF r
    <2> QED
      BY <1>0, <1>3, <2>1, <2>2, <2>3, MoveShape
  <1>4. "transient" \in Errors
    BY DEF Errors
  <1>5. ASSUME faults' = faults \/ \E f \in FaultKinds : Fault(f)
        PROVE  faults' \in [FaultKinds -> Nat]
    BY <1>2, <1>5 DEF Fault
  <1>6. CASE Load(w)
    <2>1. UNCHANGED <<notification, delivery, job, requests, posting, calls, faults>>
      BY <1>6 DEF Load, SenderOnly
    <2>2. CASE ~Live(n)
      BY <1>2, <1>3, <1>4, <1>6, <2>1, <2>2 DEF Load
    <2>3. CASE Live(n)
      <3> DEFINE r == [worker[w] EXCEPT !.pc = "readLast", !.edition = notification[n].edition]
      <3>1. notification[n].edition \in Nat
        BY <1>1, <1>2 DEF StoreTypeOK, NotificationRow
      <3>2. r \in WorkerRecord /\ r.job = worker[w].job /\ r.pc = "readLast"
        BY <1>1, <3>1 DEF WorkerRecord, Steps
      <3>3. worker' = [worker EXCEPT ![w] = r]
        BY <1>2, <1>6, <2>3 DEF Load
      <3>4. InRange(r, LastAttempt(n))
        BY <3>2 DEF InRange
      <3> HIDE DEF r
      <3> QED
        BY <1>0, <1>2, <2>1, <3>2, <3>3, <3>4, MoveShape
    <2> QED
      BY <2>2, <2>3
  <1>7. CASE ReadLast(w)
    <2> DEFINE r == [worker[w] EXCEPT !.pc = "insert", !.last = LastAttempt(n)]
    <2>1. r \in WorkerRecord /\ r.job = worker[w].job /\ r.pc = "insert"
      BY <1>1 DEF WorkerRecord, Steps
    <2>2. worker' = [worker EXCEPT ![w] = r]
      BY <1>2, <1>7 DEF ReadLast
    <2>3. InRange(r, LastAttempt(n))
      BY <1>1, <2>1 DEF InRange, WorkerRecord
    <2> HIDE DEF r
    <2> QED
      BY <1>0, <1>2, <1>7, <2>1, <2>2, <2>3, MoveShape DEF ReadLast, SenderOnly
  <1>8. CASE InsertAttempt(w)
    <2>1. UNCHANGED <<job, requests, posting, calls, faults>>
      BY <1>8 DEF InsertAttempt, SenderOnly
    <2>2. CASE Throw(w, "transient") /\ UNCHANGED storeVars
      BY <1>2, <1>3, <1>4, <2>1, <2>2 DEF storeVars
    <2>3. CASE /\ worker' = [worker EXCEPT ![w].pc = "readLast", ![w].retry = @ + 1]
               /\ UNCHANGED storeVars
      <3>1. PICK t \in Nat : t = worker[w].retry + 1
        BY <1>1 DEF WorkerRecord
      <3> DEFINE r == [worker[w] EXCEPT !.pc = "readLast", !.retry = t]
      <3>2. r \in WorkerRecord /\ r.job = worker[w].job /\ r.pc = "readLast"
        BY <1>1 DEF WorkerRecord, Steps
      <3>3. worker' = [worker EXCEPT ![w] = r]
        BY <1>2, <2>3, <3>1
      <3>4. InRange(r, LastAttempt(n))
        BY <3>2 DEF InRange
      <3> HIDE DEF r
      <3> QED
        BY <1>0, <1>2, <2>1, <2>3, <3>2, <3>3, <3>4, MoveShape DEF storeVars
    <2>4. CASE /\ Live(n)
               /\ worker[w].last + 1 > LastAttempt(n)
               /\ InsertDelivery(n, worker[w].edition)
               /\ worker' = [worker EXCEPT ![w].pc = "call", ![w].attempt = worker[w].last + 1]
      <3> DEFINE k == worker[w].last + 1
      <3> DEFINE r == [worker[w] EXCEPT !.pc = "call", !.attempt = k]
      <3> DEFINE e == worker[w].edition
      <3>1. e \in Nat /\ worker[w].last \in Nat /\ k \in Nat
        BY <1>1 DEF WorkerRecord
      <3>2. /\ StoreTypeOK'
            /\ LastAttempt(n)' = LastAttempt(n) + 1
            /\ \A m \in Notifications \ {n} :
                 delivery'[m] = delivery[m] /\ notification'[m] = notification[m]
            /\ notification'[n].state = notification[n].state
        <4>1. PICK m \in Notifications : m = n
          BY <1>1
        <4>2. PICK t \in Nat : t = e
          BY <3>1
        <4>3. StoreTypeOK /\ InsertDelivery(m, t)
          BY <1>2, <2>4, <4>1, <4>2
        <4>4. /\ StoreTypeOK'
              /\ LastAttempt(m)' = LastAttempt(m) + 1
              /\ \A i \in Notifications \ {m} :
                   delivery'[i] = delivery[i] /\ notification'[i] = notification[i]
              /\ notification'[m].state = notification[m].state
          BY <4>3, InsertDeliveryEffect
        <4>5. n' = n
          BY <1>1, <1>2, <2>1, <2>4 DEF Target, WorkerRecord
        <4> QED
          BY <4>1, <4>4, <4>5 DEF LastAttempt
      <3>3. worker[w].last <= LastAttempt(n)
        BY <1>0, <1>8, <2>4 DEF Shape, AttemptExists, InRange, InsertAttempt
      <3>4. k = LastAttempt(n) + 1
        BY <1>1, <2>4, <3>1, <3>3
      <3>5. worker' = [worker EXCEPT ![w] = r]
        BY <1>2, <2>4
      <3> HIDE DEF k
      <3>6. /\ r \in WorkerRecord /\ r.job = worker[w].job
            /\ r.pc = "call" /\ r.attempt = k
        BY <1>1, <3>1 DEF WorkerRecord, Steps
      <3>7. InRange(r, LastAttempt(n)')
        BY <1>1, <3>2, <3>4, <3>6 DEF InRange
      <3>8. LastAttempt(n)' >= LastAttempt(n)
        BY <1>1, <3>2
      <3> HIDE DEF r
      <3> QED
        BY <1>0, <2>1, <2>4, <3>2, <3>5, <3>6, <3>7, <3>8, WriteShape
    <2> QED
      BY <1>8, <2>2, <2>3, <2>4 DEF InsertAttempt
  <1>9. ASSUME NEW accepted \in BOOLEAN, NEW error \in Errors, CallProvider(w, accepted, error),
               faults' \in [FaultKinds -> Nat]
        PROVE  Shape'
    <2> DEFINE c == [job |-> worker[w].job, notif |-> n, attempt |-> worker[w].attempt,
                     edition |-> worker[w].edition, accepted |-> accepted, error |-> error]
    <2> DEFINE r == [worker[w] EXCEPT !.pc = AfterCall(error), !.error = error]
    <2>1. c \in Call
      BY <1>1 DEF Call, WorkerRecord
    <2>2. calls' \subseteq Call
      BY <1>2, <1>9, <2>1 DEF CallProvider
    <2>3. AfterCall(error) \in {"recordSuccess", "recordFailure"}
      BY DEF AfterCall
    <2>4. /\ r \in WorkerRecord /\ r.job = worker[w].job
          /\ r.pc \in {"recordSuccess", "recordFailure"} /\ r.attempt = worker[w].attempt
      BY <1>1, <2>3 DEF WorkerRecord, Steps
    <2>5. worker' = [worker EXCEPT ![w] = r]
      BY <1>2, <1>9 DEF CallProvider
    <2>6. worker[w].pc = "call"
      BY <1>9 DEF CallProvider
    <2>7. Live(n) => InRange(r, LastAttempt(n))
      BY <1>0, <2>4, <2>6 DEF Shape, AttemptExists, InRange
    <2>8. UNCHANGED <<notification, delivery, job, requests, posting>>
      BY <1>9 DEF CallProvider, SenderOnly, storeVars
    <2> HIDE DEF r
    <2> QED
      BY <1>0, <1>9, <2>2, <2>4, <2>5, <2>7, <2>8, MoveShape
  <1>10. CASE ProviderAccepts(w)
    BY <1>2, <1>9, <1>10 DEF ProviderAccepts, Errors
  <1>11. CASE ProviderRefuses(w)
    BY <1>2, <1>9, <1>11 DEF ProviderRefuses, Errors
  <1>12. CASE ReplyLost(w)
    BY <1>5, <1>9, <1>12 DEF ReplyLost, Errors, FaultKinds
  <1>13. ASSUME NEW next \in {"settle", "recordFailure"}, NEW e \in Errors,
                worker' = [worker EXCEPT ![w].pc = next, ![w].error = e],
                worker[w].pc \in {"recordSuccess", "recordFailure"},
                UNCHANGED <<notification, delivery, job, requests, posting, calls>>,
                faults' \in [FaultKinds -> Nat]
         PROVE  Shape'
    <2> DEFINE r == [worker[w] EXCEPT !.pc = next, !.error = e]
    <2>1. /\ r \in WorkerRecord /\ r.job = worker[w].job
          /\ r.pc \in {"settle", "recordFailure"} /\ r.attempt = worker[w].attempt
      BY <1>1, <1>13 DEF WorkerRecord, Steps
    <2>2. worker' = [worker EXCEPT ![w] = r]
      BY <1>2, <1>13
    <2>3. Live(n) => InRange(r, LastAttempt(n))
      BY <1>0, <1>13, <2>1 DEF Shape, AttemptExists, InRange
    <2> HIDE DEF r
    <2> QED
      BY <1>0, <1>2, <1>13, <2>1, <2>2, <2>3, MoveShape
  <1>14. ASSUME Live(n), Goto(w, "settle"), worker[w].pc \in {"recordSuccess", "recordFailure"},
                MarkSent(n, worker[w].attempt) \/ MarkFailed(n, worker[w].attempt),
                UNCHANGED <<job, requests, posting, calls, faults>>
         PROVE  Shape'
    <2> DEFINE r == [worker[w] EXCEPT !.pc = "settle"]
    <2>1. worker[w].attempt \in 1 .. LastAttempt(n)
      BY <1>0, <1>14 DEF Shape, AttemptExists, InRange
    <2>2. /\ StoreTypeOK'
          /\ LastAttempt(n)' = LastAttempt(n)
          /\ \A m \in Notifications \ {n} :
               delivery'[m] = delivery[m] /\ notification'[m] = notification[m]
          /\ notification'[n].state = notification[n].state
      <3>1. PICK m \in Notifications : m = n
        BY <1>1
      <3>2. PICK k \in 1 .. LastAttempt(m) : k = worker[w].attempt
        BY <2>1, <3>1
      <3>3. StoreTypeOK /\ (MarkSent(m, k) \/ MarkFailed(m, k))
        BY <1>2, <1>14, <3>1, <3>2
      <3>4. /\ StoreTypeOK'
            /\ LastAttempt(m)' = LastAttempt(m)
            /\ \A i \in Notifications \ {m} :
                 delivery'[i] = delivery[i] /\ notification'[i] = notification[i]
            /\ notification'[m].state = notification[m].state
        <4>1. CASE MarkSent(m, k)
          BY <3>3, <4>1, MarkSentEffect
        <4>2. CASE MarkFailed(m, k)
          BY <3>3, <4>2, MarkFailedEffect
        <4> QED
          BY <3>3, <4>1, <4>2
      <3>5. n' = n
        BY <1>1, <1>2, <1>14 DEF Goto, Target, WorkerRecord
      <3> QED
        BY <3>1, <3>4, <3>5 DEF LastAttempt
    <2>3. r \in WorkerRecord /\ r.job = worker[w].job /\ r.pc = "settle"
      BY <1>1 DEF WorkerRecord, Steps
    <2>4. worker' = [worker EXCEPT ![w] = r]
      BY <1>2, <1>14 DEF Goto
    <2>5. InRange(r, LastAttempt(n)')
      BY <2>3 DEF InRange
    <2>6. LastAttempt(n)' >= LastAttempt(n)
      BY <1>1, <2>2
    <2> HIDE DEF r
    <2> QED
      BY <1>0, <1>14, <2>2, <2>3, <2>4, <2>5, <2>6, WriteShape
  <1>15. CASE RecordSuccess(w)
    <2>1. UNCHANGED <<job, requests, posting, calls, faults>>
      BY <1>15 DEF RecordSuccess, SenderOnly
    <2>2. CASE Live(n)
      BY <1>14, <1>15, <2>1, <2>2 DEF RecordSuccess
    <2>3. CASE ~Live(n)
      BY <1>2, <1>4, <1>13, <1>15, <2>1, <2>3 DEF RecordSuccess, storeVars
    <2> QED
      BY <2>2, <2>3
  <1>16. CASE RecordFailure(w)
    <2>1. UNCHANGED <<job, requests, posting, calls, faults>>
      BY <1>16 DEF RecordFailure, SenderOnly
    <2>2. CASE Live(n)
      BY <1>14, <1>16, <2>1, <2>2 DEF RecordFailure
    <2>3. CASE ~Live(n)
      BY <1>2, <1>3, <1>4, <1>16, <2>1, <2>3 DEF RecordFailure, storeVars
    <2> QED
      BY <2>2, <2>3
  <1>17. CASE DatabaseFails(w)
    <2>1. /\ UNCHANGED <<notification, delivery, job, requests, posting, calls>>
          /\ faults' \in [FaultKinds -> Nat]
      BY <1>5, <1>17 DEF DatabaseFails, SenderOnly, FaultKinds
    <2>2. CASE Throw(w, "transient")
      BY <1>2, <1>3, <1>4, <2>1, <2>2
    <2>3. CASE /\ worker[w].pc = "recordSuccess"
               /\ worker' = [worker EXCEPT ![w].pc = "recordFailure", ![w].error = "transient"]
      BY <1>4, <1>13, <2>1, <2>3
    <2> QED
      BY <1>17, <2>2, <2>3 DEF DatabaseFails
  <1>18. CASE Settle(w)
    <2> DEFINE j == worker[w].job
    <2>1. /\ worker' = [worker EXCEPT ![w] = Idle]
          /\ job' = IF Holds(w) THEN [job EXCEPT ![j] = Settled(j, worker[w].error)] ELSE job
          /\ UNCHANGED <<notification, delivery, requests, posting, calls, faults>>
      BY <1>18 DEF Settle
    <2>2. Idle \in WorkerRecord /\ Idle.pc = "idle"
      BY DEF Idle, WorkerRecord, Steps, Errors
    <2>3. /\ worker' \in [Workers -> WorkerRecord]
          /\ worker'[w].pc = "idle"
          /\ \A v \in Workers \ {w} : worker'[v] = worker[v]
      BY <1>2, <2>1, <2>2
    <2>4. /\ Settled(j, worker[w].error) \in JobRecord
          /\ Settled(j, worker[w].error).state # "unused"
          /\ Settled(j, worker[w].error).notif = job[j].notif
      <3>1. job[j].state # "unused" /\ worker[w].error \in Errors
        BY <1>0, <1>1 DEF Shape, BusyHasJob, WorkerRecord
      <3> QED
        BY <1>1, <3>1, EndedJob DEF Shape
    <2>5. job[j].state # "unused"
      BY <1>0 DEF Shape, BusyHasJob
    <2> HIDE DEF j
    <2>6. /\ job' \in [Jobs -> JobRecord]
          /\ \A h \in Jobs : job'[h].notif = job[h].notif
          /\ \A h \in Jobs : job'[h].state = "unused" <=> job[h].state = "unused"
      BY <2>1, <2>4, <2>5 DEF Shape, TypeOK
    <2>7. TypeOK'
      BY <2>1, <2>3, <2>6 DEF Shape, TypeOK, StoreTypeOK
    <2>8. JobsAreNamed' /\ BusyHasJob' /\ NothingBeforeCreation'
      BY <2>1, <2>3, <2>6 DEF Shape, JobsAreNamed, BusyHasJob, NothingBeforeCreation
    <2>9. AttemptExists'
      <3>1. SUFFICES ASSUME NEW v \in Workers, worker'[v].pc # "idle", Live(Target(v))'
                     PROVE  InRange(worker'[v], LastAttempt(Target(v))')
        BY DEF AttemptExists
      <3>2. worker'[v] = worker[v] /\ worker[v].job \in Jobs
        BY <2>3, <3>1 DEF Shape, BusyHasJob
      <3>3. Target(v)' = Target(v)
        BY <2>6, <3>2 DEF Target
      <3> QED
        BY <2>1, <3>1, <3>2, <3>3 DEF Shape, AttemptExists, Live, LastAttempt
    <2> QED
      BY <2>7, <2>8, <2>9 DEF Shape
  <1> QED
    BY <1>6, <1>7, <1>8, <1>10, <1>11, <1>12, <1>15, <1>16, <1>17, <1>18 DEF WorkerStep

\* A step that changes nothing keeps the shape, and so does every other.
LEMMA ShapeStep ==
    ASSUME Shape, [Next]_vars
    PROVE  Shape'
  <1>1. CASE UNCHANGED vars
    BY <1>1 DEF vars, Shape, TypeOK, StoreTypeOK, JobsAreNamed, BusyHasJob, AttemptExists,
                NothingBeforeCreation, Live, Target, LastAttempt
  <1>2. CASE \E n \in Notifications : ClientStep(n) \/ Remove(n)
    BY <1>2, ClientShape
  <1>3. CASE \E j \in Jobs : QueueStep(j)
    BY <1>3, QueueShape
  <1>4. CASE \E w \in Workers : WorkerStep(w)
    BY <1>4, WorkerShape
  <1>5. ASSUME NEW w \in Workers, Crash(w)
        PROVE  Shape'
    <2>1. worker[w].job \in Jobs
      BY <1>5 DEF Crash, Shape, BusyHasJob
    <2> QED
      BY <1>5, <2>1, QueueShape
  <1> QED
    BY <1>1, <1>2, <1>3, <1>4, <1>5 DEF Next

(***************************************************************************)
(* Sending is sequential.                                                  *)
(***************************************************************************)

\* No step but queue.add makes a job pending that was not, and none renames one.
LEMMA NoNewJob ==
    ASSUME Shape, Next, \A n \in Notifications : ~Enqueue(n), NEW j \in Jobs
    PROVE  Pending(j)' => Pending(j) /\ job'[j].notif = job[j].notif
  <1> USE DEF Pending
  <1>1. ASSUME NEW n \in Notifications, ClientStep(n) \/ Remove(n)
        PROVE  job' = job
    BY <1>1 DEF ClientStep, Create, Send, Post, Update, EnqueueFails, Remove
  <1>2. ASSUME NEW i \in Jobs, QueueStep(i)
        PROVE  Pending(j)' => Pending(j) /\ job'[j].notif = job[j].notif
    <2>1. CASE Promote(i)
      BY <2>1 DEF Promote, Shape, TypeOK, JobRecord
    <2>2. CASE Stall(i) \/ LoseLock(i)
      <3>1. job' = [job EXCEPT ![i] = Stalled(i)] /\ job[i].state = "active"
        BY <2>2 DEF Stall, LoseLock
      <3>2. Stalled(i).notif = job[i].notif
        BY <3>1, EndedJob DEF Shape
      <3> QED
        BY <3>1, <3>2 DEF Shape, TypeOK
    <2>3. CASE \E w \in Workers : Take(w, i)
      BY <2>3 DEF Take, Shape, TypeOK, JobRecord
    <2> QED
      BY <1>2, <2>1, <2>2, <2>3 DEF QueueStep
  <1>3. ASSUME NEW w \in Workers, WorkerStep(w), ~Settle(w)
        PROVE  job' = job
    BY <1>3 DEF WorkerStep, Load, ReadLast, InsertAttempt, ProviderAccepts, ProviderRefuses,
                ReplyLost, CallProvider, RecordSuccess, RecordFailure, DatabaseFails, SenderOnly
  <1>4. ASSUME NEW w \in Workers, Settle(w)
        PROVE  Pending(j)' => Pending(j) /\ job'[j].notif = job[j].notif
    <2>1. worker[w].job \in Jobs /\ worker[w].error \in Errors
      BY <1>4, TargetExists DEF Settle, WorkerRecord
    <2>2. PICK i \in Jobs : i = worker[w].job
      BY <2>1
    <2>3. \/ job' = job
          \/ job[i].state = "active" /\ job' = [job EXCEPT ![i] = Settled(i, worker[w].error)]
      BY <1>4, <2>2 DEF Settle, Holds
    <2>4. job[i].state = "active" => Settled(i, worker[w].error).notif = job[i].notif
      BY <2>1, EndedJob DEF Shape
    <2> QED
      BY <2>3, <2>4 DEF Shape, TypeOK
  <1>5. ASSUME NEW w \in Workers, Crash(w)
        PROVE  Pending(j)' => Pending(j) /\ job'[j].notif = job[j].notif
    BY <1>5 DEF Crash, Shape, TypeOK, JobRecord
  <1> QED
    BY <1>1, <1>2, <1>3, <1>4, <1>5 DEF Next

\* Deduplication: a notification never has two pending jobs.
LEMMA OneJobStep ==
    ASSUME Shape, OneJob, [Next]_vars
    PROVE  OneJob'
  <1>1. CASE UNCHANGED vars
    BY <1>1 DEF vars, OneJob, Pending
  <1>2. ASSUME NEW n \in Notifications, Enqueue(n)
        PROVE  OneJob'
    <2>1. CASE UNCHANGED job
      BY <2>1 DEF OneJob, Pending
    <2>2. ASSUME NEW j \in Jobs, job' = [job EXCEPT ![j].state = "waiting", ![j].notif = n],
                 ~ \E i \in Jobs : Pending(i) /\ job[i].notif = n
          PROVE  OneJob'
      <3>1. /\ job'[j].notif = n
            /\ \A i \in Jobs \ {j} : job'[i] = job[i]
        BY <2>2 DEF Shape, TypeOK, JobRecord
      <3>2. \A i \in Jobs \ {j} : Pending(i)' => Pending(i) /\ job'[i].notif # n
        BY <2>2, <3>1 DEF Pending
      <3>3. \A h, i \in Jobs \ {j} :
                Pending(h)' /\ Pending(i)' /\ job'[h].notif = job'[i].notif => h = i
        BY <3>1, <3>2 DEF OneJob
      <3> QED
        BY <3>1, <3>2, <3>3 DEF OneJob
    <2> QED
      BY <1>2, <2>1, <2>2 DEF Enqueue, AddJob
  <1>3. CASE Next /\ \A n \in Notifications : ~Enqueue(n)
    BY <1>3, NoNewJob DEF OneJob
  <1> QED
    BY <1>1, <1>2, <1>3

\* A step of send changes its worker's own locals, keeps its job and the queue,
\* and writes no other notification.
LEMMA StepOfOne ==
    ASSUME Shape, NEW w \in Workers, WorkerStep(w), ~Settle(w)
    PROVE  /\ job' = job
           /\ worker[w].pc # "idle"
           /\ worker'[w].job = worker[w].job
           /\ \A v \in Workers \ {w} : worker'[v] = worker[v]
           /\ \A m \in Notifications \ {Target(w)} :
                notification'[m] = notification[m] /\ delivery'[m] = delivery[m]
           /\ notification'[Target(w)].state = notification[Target(w)].state
  <1>1. worker \in [Workers -> WorkerRecord] /\ worker[w] \in WorkerRecord
    BY DEF Shape, TypeOK
  <1>2. job' = job /\ worker[w].pc # "idle"
    BY DEF WorkerStep, Load, ReadLast, InsertAttempt, ProviderAccepts, ProviderRefuses,
           ReplyLost, CallProvider, RecordSuccess, RecordFailure, DatabaseFails, SenderOnly
  <1>3. \A v \in Workers \ {w} : worker'[v] = worker[v]
    BY <1>1 DEF WorkerStep, Load, ReadLast, InsertAttempt, ProviderAccepts, ProviderRefuses,
           ReplyLost, CallProvider, RecordSuccess, RecordFailure, DatabaseFails, Throw, Goto
  <1>4. worker'[w].job = worker[w].job
    BY <1>1 DEF WorkerStep, Load, ReadLast, InsertAttempt, ProviderAccepts, ProviderRefuses,
           ReplyLost, CallProvider, RecordSuccess, RecordFailure, DatabaseFails, Throw, Goto,
           WorkerRecord
  <1>5. PICK n \in Notifications : n = Target(w)
    BY <1>2, TargetExists
  <1>6. \/ UNCHANGED storeVars
        \/ InsertDelivery(n, worker[w].edition)
        \/ MarkSent(n, worker[w].attempt)
        \/ MarkFailed(n, worker[w].attempt)
    BY <1>5 DEF WorkerStep, Load, ReadLast, InsertAttempt, ProviderAccepts, ProviderRefuses,
           ReplyLost, CallProvider, RecordSuccess, RecordFailure, DatabaseFails, storeVars
  <1>7. /\ \A m \in Notifications \ {n} :
                notification'[m] = notification[m] /\ delivery'[m] = delivery[m]
        /\ notification'[n].state = notification[n].state
    <2>1. /\ notification \in [Notifications -> NotificationRow]
          /\ delivery \in [Notifications -> Seq(DeliveryRow)]
      BY DEF Shape, TypeOK, StoreTypeOK
    <2>2. CASE UNCHANGED storeVars
      BY <2>2 DEF storeVars
    <2>3. CASE InsertDelivery(n, worker[w].edition)
      BY <2>1, <2>3 DEF InsertDelivery, NotificationRow
    <2>4. CASE MarkSent(n, worker[w].attempt)
      BY <2>1, <2>4 DEF MarkSent, NotificationRow
    <2>5. CASE MarkFailed(n, worker[w].attempt)
      BY <2>1, <2>5 DEF MarkFailed, NotificationRow
    <2> QED
      BY <1>6, <2>2, <2>3, <2>4, <2>5
  <1> QED
    BY <1>2, <1>3, <1>4, <1>5, <1>7

\* Locks: without a lost one, a busy worker keeps holding its job.
LEMMA BusyHoldsStep ==
    ASSUME Shape, BusyHolds, [Next]_vars, NoFault({"lock"})'
    PROVE  BusyHolds'
  <1> USE DEF Holds
  <1>1. CASE UNCHANGED vars
    BY <1>1 DEF vars, BusyHolds
  <1>2. ASSUME NEW n \in Notifications, ClientStep(n) \/ Remove(n)
        PROVE  BusyHolds'
    <2>1. worker' = worker
      BY <1>2 DEF ClientStep, Create, Send, Post, Update, Enqueue, EnqueueFails, Remove
    <2>2. \A j \in Jobs : job[j].state # "unused" => job'[j] = job[j]
      BY <1>2 DEF ClientStep, Create, Send, Post, Update, Enqueue, AddJob, EnqueueFails, Remove,
                  Shape, TypeOK
    <2> QED
      BY <2>1, <2>2 DEF BusyHolds, Shape, BusyHasJob
  <1>3. ASSUME NEW j \in Jobs, Promote(j) \/ Stall(j)
        PROVE  BusyHolds'
    <2>1. worker' = worker /\ \A i \in Jobs \ {j} : job'[i] = job[i]
      BY <1>3 DEF Promote, Stall, Shape, TypeOK
    <2>2. \A w \in Workers : worker[w].pc # "idle" => worker[w].job \in Jobs \ {j}
      BY <1>3, SentinelAssumption DEF Promote, Stall, BusyHolds, Shape, BusyHasJob
    <2> QED
      BY <2>1, <2>2 DEF BusyHolds
  <1>4. ASSUME NEW j \in Jobs, LoseLock(j)
        PROVE  FALSE
    BY <1>4 DEF LoseLock, Fault, NoFault, Shape, TypeOK, FaultKinds
  <1>5. ASSUME NEW j \in Jobs, NEW w \in Workers, Take(w, j)
        PROVE  BusyHolds'
    <2>1. /\ \A v \in Workers \ {w} : worker'[v] = worker[v]
          /\ \A i \in Jobs \ {j} : job'[i] = job[i]
          /\ worker'[w].job = j
          /\ job'[j].state = "active" /\ job'[j].owner = w
      BY <1>5 DEF Take, Shape, TypeOK, JobRecord, Idle
    <2>2. \A v \in Workers : worker[v].pc # "idle" => worker[v].job \in Jobs \ {j}
      BY <1>5 DEF Take, BusyHolds, Shape, BusyHasJob
    <2> QED
      BY <2>1, <2>2 DEF BusyHolds
  <1>6. ASSUME NEW w \in Workers, Crash(w) \/ Settle(w)
        PROVE  BusyHolds'
    <2>1. worker' = [worker EXCEPT ![w] = Idle] /\ worker[w].pc # "idle"
      BY <1>6 DEF Crash, Settle
    <2>2. worker'[w].pc = "idle" /\ \A v \in Workers \ {w} : worker'[v] = worker[v]
      BY <2>1 DEF Shape, TypeOK, Idle
    <2>3. \A i \in Jobs : i # worker[w].job => job'[i] = job[i]
      BY <1>6 DEF Crash, Settle, Shape, TypeOK
    <2>4. \A v \in Workers \ {w} : worker[v].pc # "idle" =>
                worker[v].job \in Jobs /\ worker[v].job # worker[w].job
      BY <2>1 DEF BusyHolds, Shape, BusyHasJob
    <2> QED
      BY <2>2, <2>3, <2>4 DEF BusyHolds
  <1>7. ASSUME NEW w \in Workers, WorkerStep(w), ~Settle(w)
        PROVE  BusyHolds'
    <2>1. /\ job' = job
          /\ worker[w].pc # "idle"
          /\ worker'[w].job = worker[w].job
          /\ \A v \in Workers \ {w} : worker'[v] = worker[v]
      BY <1>7, StepOfOne
    <2> QED
      BY <2>1 DEF BusyHolds
  <1> QED
    BY <1>1, <1>2, <1>3, <1>4, <1>5, <1>6, <1>7 DEF Next, QueueStep

\* With one job per notification and a lock per job, two busy workers are busy
\* with two notifications.
LEMMA AloneOnTarget ==
    ASSUME Shape, OneJob, BusyHolds, NEW v \in Workers, NEW w \in Workers, v # w,
           worker[v].pc # "idle", worker[w].pc # "idle"
    PROVE  Target(v) # Target(w)
  BY DEF Shape, BusyHasJob, OneJob, BusyHolds, Holds, Pending, Target

\* What a worker knows of its attempt is still true after its own step.
LEMMA OwnStep ==
    ASSUME Shape, NEW w \in Workers, WorkerStep(w), ~Settle(w),
           worker[w].retry = 0,
           Live(Target(w)) => UpToDate(worker[w], LastAttempt(Target(w)))
    PROVE  /\ worker'[w].retry = 0
           /\ Live(Target(w))' => UpToDate(worker'[w], LastAttempt(Target(w))')
  <1>1. /\ worker \in [Workers -> WorkerRecord]
        /\ worker[w] \in WorkerRecord
        /\ worker[w].pc # "idle"
        /\ StoreTypeOK
    BY StepOfOne DEF Shape, TypeOK
  <1>2. PICK n \in Notifications : n = Target(w)
    BY <1>1, TargetExists
  <1>3. Target(w)' = n
    BY <1>2, StepOfOne DEF Target
  <1>4. LastAttempt(n) \in Nat /\ worker[w].last \in Nat
    BY <1>1, <1>2, TargetExists DEF WorkerRecord
  <1>5. Live(n)' <=> Live(n)
    BY <1>2, StepOfOne DEF Live
  <1> SUFFICES worker'[w].retry = 0 /\ (Live(n) => UpToDate(worker'[w], LastAttempt(n)'))
    BY <1>3, <1>5 DEF Live, LastAttempt
  <1>6. Live(n) => UpToDate(worker[w], LastAttempt(n))
    BY <1>2
  <1>7. CASE worker'[w].pc \in {"settle", "readLast"} /\ worker'[w].retry = 0
    BY <1>7 DEF UpToDate
  <1>8. CASE Load(w)
    BY <1>1, <1>7, <1>8 DEF Load, Throw, WorkerRecord
  <1>9. CASE ReadLast(w)
    <2>1. /\ worker'[w].pc = "insert" /\ worker'[w].retry = 0
          /\ worker'[w].last = LastAttempt(n)
          /\ LastAttempt(n)' = LastAttempt(n)
      BY <1>1, <1>2, <1>9 DEF ReadLast, WorkerRecord, LastAttempt
    <2> QED
      BY <2>1 DEF UpToDate
  <1>10. CASE InsertAttempt(w)
    <2>1. CASE Throw(w, "transient")
      BY <1>1, <1>7, <2>1 DEF Throw, WorkerRecord
    <2>2. CASE Live(n) /\ worker[w].last + 1 <= LastAttempt(n)
      BY <1>4, <1>6, <1>10, <2>2 DEF UpToDate, InsertAttempt
    <2>3. CASE /\ InsertDelivery(n, worker[w].edition)
               /\ worker' = [worker EXCEPT ![w].pc = "call", ![w].attempt = worker[w].last + 1]
               /\ Live(n)
      <3>1. PICK e \in Nat : e = worker[w].edition
        BY <1>1 DEF WorkerRecord
      <3>2. LastAttempt(n)' = LastAttempt(n) + 1
        BY <1>1, <2>3, <3>1, InsertDeliveryEffect
      <3>3. /\ worker'[w].pc = "call" /\ worker'[w].retry = 0
            /\ worker'[w].attempt = worker[w].last + 1
        BY <1>1, <2>3 DEF WorkerRecord
      <3>4. worker[w].last = LastAttempt(n)
        BY <1>6, <1>10, <2>3 DEF UpToDate, InsertAttempt
      <3> QED
        BY <3>2, <3>3, <3>4 DEF UpToDate
    <2> QED
      BY <1>2, <1>10, <2>1, <2>2, <2>3 DEF InsertAttempt
  <1>11. CASE /\ worker[w].pc \in {"call", "recordSuccess"}
              /\ worker'[w].pc \in {"recordSuccess", "recordFailure"}
              /\ worker'[w].retry = 0
              /\ worker'[w].attempt = worker[w].attempt
              /\ UNCHANGED delivery
    BY <1>6, <1>11 DEF UpToDate, LastAttempt
  <1>12. ASSUME NEW accepted, NEW error, CallProvider(w, accepted, error)
         PROVE  worker'[w].retry = 0 /\ (Live(n) => UpToDate(worker'[w], LastAttempt(n)'))
    <2>1. AfterCall(error) \in {"recordSuccess", "recordFailure"}
      BY DEF AfterCall
    <2>2. worker' = [worker EXCEPT ![w].pc = AfterCall(error), ![w].error = error]
      BY <1>12 DEF CallProvider
    <2>3. worker[w].pc = "call" /\ UNCHANGED delivery
      BY <1>12 DEF CallProvider, storeVars
    <2> QED
      BY <1>1, <1>11, <2>1, <2>2, <2>3 DEF WorkerRecord
  <1>13. CASE ProviderAccepts(w) \/ ProviderRefuses(w) \/ ReplyLost(w)
    BY <1>12, <1>13 DEF ProviderAccepts, ProviderRefuses, ReplyLost
  <1>14. CASE RecordSuccess(w) \/ RecordFailure(w) \/ DatabaseFails(w)
    <2>1. CASE Goto(w, "settle") \/ Throw(w, "transient")
      BY <1>1, <1>7, <2>1 DEF Goto, Throw, WorkerRecord
    <2>2. CASE /\ worker[w].pc = "recordSuccess"
               /\ worker' = [worker EXCEPT ![w].pc = "recordFailure", ![w].error = "transient"]
               /\ UNCHANGED delivery
      BY <1>1, <1>11, <2>2 DEF WorkerRecord
    <2> QED
      BY <1>14, <2>1, <2>2 DEF RecordSuccess, RecordFailure, DatabaseFails, storeVars
  <1> QED
    BY <1>8, <1>9, <1>10, <1>13, <1>14 DEF WorkerStep

\* Nobody overtakes a worker between its read and its writes.
LEMMA SenderIsCurrentStep ==
    ASSUME Shape, OneJob, BusyHolds, SenderIsCurrent, [Next]_vars, NoFault({"lock"})'
    PROVE  SenderIsCurrent'
  <1>1. CASE UNCHANGED vars
    BY <1>1 DEF vars, SenderIsCurrent, Live, Target, LastAttempt
  <1>2. ASSUME \A w \in Workers : /\ worker'[w].retry = 0
                                  /\ worker'[w].pc \in {"idle", "load"} \/ worker'[w] = worker[w],
               \A w \in Workers : worker'[w] = worker[w] /\ worker[w].pc # "idle" =>
                    /\ Target(w)' = Target(w)
                    /\ Live(Target(w))' =>
                        Live(Target(w)) /\ delivery'[Target(w)] = delivery[Target(w)]
        PROVE  SenderIsCurrent'
    <2> SUFFICES ASSUME NEW w \in Workers, worker'[w].pc # "idle", Live(Target(w))'
                 PROVE  UpToDate(worker'[w], LastAttempt(Target(w))')
      BY <1>2 DEF SenderIsCurrent
    <2>1. CASE worker'[w].pc = "load"
      BY <2>1 DEF UpToDate
    <2>2. CASE worker'[w] = worker[w]
      BY <1>2, <2>2 DEF SenderIsCurrent, LastAttempt
    <2> QED
      BY <1>2, <2>1, <2>2
  <1>3. ASSUME NEW n \in Notifications, ClientStep(n) \/ Remove(n)
        PROVE  SenderIsCurrent'
    <2>1. worker' = worker
      BY <1>3 DEF ClientStep, Create, Send, Post, Update, Enqueue, EnqueueFails, Remove
    <2>2. \A j \in Jobs : job[j].state # "unused" => job'[j] = job[j]
      BY <1>3 DEF ClientStep, Create, Send, Post, Update, Enqueue, AddJob, EnqueueFails, Remove,
                  Shape, TypeOK
    <2>3. ASSUME NEW m \in Notifications, notification[m].state # "absent",
                 notification'[m].state = "live"
          PROVE  notification[m].state = "live" /\ delivery'[m] = delivery[m]
      <3>1. notification \in [Notifications -> NotificationRow]
        BY DEF Shape, TypeOK, StoreTypeOK
      <3>2. CASE Remove(n)
        <4>1. /\ notification' = [notification EXCEPT ![n] = [Absent EXCEPT !.state = "deleted"]]
              /\ delivery' = [delivery EXCEPT ![n] = <<>>]
          BY <3>2 DEF Remove, DeleteNotification
        <4>2. notification'[n].state = "deleted"
          BY <3>1, <4>1 DEF Absent
        <4>3. m # n
          BY <2>3, <4>2
        <4> QED
          BY <2>3, <3>1, <4>1, <4>3 DEF Shape, TypeOK, StoreTypeOK
      <3>3. CASE Create(n)
        BY <2>3, <3>1, <3>3 DEF Create, InsertNotification
      <3>4. CASE Update(n)
        BY <2>3, <3>1, <3>4 DEF Update, EditNotification, NotificationRow
      <3>5. CASE UNCHANGED storeVars
        BY <2>3, <3>5 DEF storeVars
      <3> QED
        BY <1>3, <3>2, <3>3, <3>4, <3>5 DEF ClientStep, Send, Enqueue, EnqueueFails, storeVars
    <2>4. ASSUME NEW w \in Workers, worker[w].pc # "idle"
          PROVE  /\ Target(w)' = Target(w)
                 /\ Live(Target(w))' =>
                        Live(Target(w)) /\ delivery'[Target(w)] = delivery[Target(w)]
      <3>1. Target(w)' = Target(w)
        BY <2>1, <2>2, <2>4 DEF Target, Shape, BusyHasJob
      <3> QED
        BY <2>3, <2>4, <3>1, TargetExists DEF Live
    <2> QED
      BY <1>2, <2>1, <2>4 DEF SenderIsCurrent
  <1>4. ASSUME UNCHANGED <<notification, delivery>>,
               \A w \in Workers : /\ worker'[w].retry = 0
                                  /\ worker'[w].pc \in {"idle", "load"} \/ worker'[w] = worker[w],
               \A j \in Jobs : job'[j].notif = job[j].notif
        PROVE  SenderIsCurrent'
    BY <1>2, <1>4 DEF Target, Live, Shape, BusyHasJob
  <1>5. ASSUME NEW j \in Jobs, QueueStep(j)
        PROVE  SenderIsCurrent'
    <2>1. CASE Promote(j)
      BY <1>4, <2>1 DEF Promote, Shape, TypeOK, JobRecord, SenderIsCurrent
    <2>2. CASE Stall(j) \/ LoseLock(j)
      <3>1. Stalled(j).notif = job[j].notif
        BY <2>2, EndedJob DEF Stall, LoseLock, Shape
      <3> QED
        BY <1>4, <2>2, <3>1 DEF Stall, LoseLock, Shape, TypeOK, SenderIsCurrent
    <2>3. CASE \E w \in Workers : Take(w, j)
      BY <1>4, <2>3 DEF Take, Shape, TypeOK, JobRecord, SenderIsCurrent, Idle
    <2> QED
      BY <1>5, <2>1, <2>2, <2>3 DEF QueueStep
  <1>6. ASSUME NEW w \in Workers, Crash(w)
        PROVE  SenderIsCurrent'
    BY <1>4, <1>6 DEF Crash, Shape, TypeOK, JobRecord, SenderIsCurrent, Idle
  <1>7. ASSUME NEW w \in Workers, Settle(w)
        PROVE  SenderIsCurrent'
    <2>1. PICK i \in Jobs : i = worker[w].job
      BY <1>7, TargetExists DEF Settle
    <2>2. Settled(i, worker[w].error).notif = job[i].notif \/ job' = job
      BY <1>7, <2>1, EndedJob, TargetExists DEF Settle, Holds, Shape, WorkerRecord
    <2>3. \A j \in Jobs : job'[j].notif = job[j].notif
      BY <1>7, <2>1, <2>2 DEF Settle, Shape, TypeOK
    <2> QED
      BY <1>4, <1>7, <2>3 DEF Settle, Shape, TypeOK, SenderIsCurrent, Idle
  <1>8. ASSUME NEW w \in Workers, WorkerStep(w), ~Settle(w)
        PROVE  SenderIsCurrent'
    <2> SUFFICES ASSUME NEW v \in Workers
                 PROVE  /\ worker'[v].retry = 0
                        /\ worker'[v].pc # "idle" /\ Live(Target(v))' =>
                                UpToDate(worker'[v], LastAttempt(Target(v))')
      BY DEF SenderIsCurrent
    <2>1. worker[w].pc # "idle"
      BY <1>8, StepOfOne
    <2>2. CASE v = w
      BY <1>8, <2>1, <2>2, OwnStep DEF SenderIsCurrent
    <2>3. CASE v # w /\ worker[v].pc = "idle"
      BY <1>8, <2>3, StepOfOne DEF SenderIsCurrent
    <2>4. CASE v # w /\ worker[v].pc # "idle"
      <3>1. worker'[v] = worker[v] /\ Target(v)' = Target(v)
        BY <1>8, <2>4, StepOfOne DEF Target
      <3>2. Target(v) \in Notifications \ {Target(w)}
        BY <2>1, <2>4, AloneOnTarget, TargetExists
      <3>3. notification'[Target(v)] = notification[Target(v)] /\ delivery'[Target(v)] = delivery[Target(v)]
        BY <1>8, <3>2, StepOfOne
      <3> QED
        BY <2>4, <3>1, <3>3 DEF SenderIsCurrent, Live, LastAttempt
    <2> QED
      BY <2>2, <2>3, <2>4
  <1> QED
    BY <1>1, <1>3, <1>5, <1>6, <1>7, <1>8 DEF Next

(***************************************************************************)
(* The notification row says what the latest attempt says.                 *)
(***************************************************************************)

\* Every transaction of send leaves its notification in agreement.
LEMMA WorkerAgrees ==
    ASSUME Shape, NEW w \in Workers, WorkerStep(w), ~Settle(w),
           NEW n \in Notifications, n = Target(w), Live(n),
           UpToDate(worker[w], LastAttempt(n)), Agrees(n)
    PROVE  Agrees(n)'
  <1>1. StoreTypeOK /\ worker[w].pc # "idle" /\ worker[w] \in WorkerRecord
    BY StepOfOne DEF Shape, TypeOK
  <1>2. LastAttempt(n) \in Nat /\ InRange(worker[w], LastAttempt(n))
    BY <1>1, TargetExists DEF Shape, AttemptExists
  <1>3. CASE UNCHANGED storeVars
    BY <1>3 DEF storeVars, Agrees, LastAttempt
  <1>4. ASSUME NEW e \in Nat, InsertDelivery(n, e)
        PROVE  Agrees(n)'
    <2>1. /\ LastAttempt(n)' = LastAttempt(n) + 1
          /\ notification'[n].status = "PROCESSING"
          /\ notification'[n].error = FALSE
          /\ delivery'[n][LastAttempt(n) + 1].status = "PROCESSING"
          /\ delivery'[n][LastAttempt(n) + 1].error = FALSE
      BY <1>1, <1>4, InsertDeliveryEffect
    <2>2. LastAttempt(n) + 1 # 0
      BY <1>2
    <2> QED
      BY <2>1, <2>2 DEF Agrees
  <1>5. ASSUME NEW k \in 1 .. LastAttempt(n), k = LastAttempt(n), MarkSent(n, k)
        PROVE  Agrees(n)'
    <2>1. /\ LastAttempt(n)' = LastAttempt(n)
          /\ notification'[n].status = "SENT"
          /\ notification'[n].error = FALSE
          /\ delivery'[n][k].status = "SENT"
          /\ delivery'[n][k].error = FALSE
      BY <1>1, <1>5, MarkSentEffect
    <2>2. LastAttempt(n) # 0
      BY <1>2
    <2> QED
      BY <1>5, <2>1, <2>2 DEF Agrees
  <1>6. ASSUME NEW k \in 1 .. LastAttempt(n), k = LastAttempt(n), MarkFailed(n, k)
        PROVE  Agrees(n)'
    <2>1. /\ LastAttempt(n)' = LastAttempt(n)
          /\ notification'[n].status = "FAILED"
          /\ notification'[n].error = TRUE
          /\ delivery'[n][k].status = "FAILED"
          /\ delivery'[n][k].error = TRUE
      BY <1>1, <1>6, MarkFailedEffect
    <2>2. LastAttempt(n) # 0
      BY <1>2
    <2> QED
      BY <1>6, <2>1, <2>2 DEF Agrees
  <1>7. CASE InsertAttempt(w)
    BY <1>1, <1>3, <1>4, <1>7 DEF InsertAttempt, WorkerRecord
  <1>8. CASE RecordSuccess(w)
    BY <1>2, <1>3, <1>5, <1>8 DEF RecordSuccess, InRange, UpToDate
  <1>9. CASE RecordFailure(w)
    BY <1>2, <1>3, <1>6, <1>9 DEF RecordFailure, InRange, UpToDate
  <1> QED
    BY <1>3, <1>7, <1>8, <1>9 DEF WorkerStep, Load, ReadLast, ProviderAccepts, ProviderRefuses,
       ReplyLost, CallProvider, DatabaseFails, storeVars

\* No step, of a client, the queue or a worker, makes a notification and its
\* latest attempt disagree.
LEMMA StatusAgreesStep ==
    ASSUME Shape, OneJob, BusyHolds, SenderIsCurrent, StatusAgrees, NoFault({"lock"}), [Next]_vars
    PROVE  StatusAgrees'
  <1>1. StoreTypeOK /\ notification \in [Notifications -> NotificationRow]
    BY DEF Shape, TypeOK, StoreTypeOK
  <1> SUFFICES ASSUME NEW n \in Notifications, Live(n)'
               PROVE  Agrees(n)'
    BY DEF StatusAgrees
  <1>2. ASSUME notification'[n].status = notification[n].status,
               notification'[n].error = notification[n].error,
               delivery'[n] = delivery[n], Live(n)
        PROVE  Agrees(n)'
    BY <1>2 DEF StatusAgrees, Agrees, LastAttempt
  <1>3. CASE UNCHANGED <<notification, delivery>>
    BY <1>2, <1>3 DEF Live
  <1>4. ASSUME NEW m \in Notifications, Create(m)
        PROVE  Agrees(n)'
    <2>1. /\ notification' = [notification EXCEPT ![m].state = "live"]
          /\ notification[m].state = "absent"
          /\ UNCHANGED delivery
      BY <1>4 DEF Create, InsertNotification
    <2>2. CASE m # n
      BY <1>1, <1>2, <2>1, <2>2 DEF Live
    <2>3. CASE m = n
      <3>1. notification[n] = Absent /\ delivery[n] = <<>>
        BY <2>1, <2>3 DEF Shape, NothingBeforeCreation
      <3>2. notification'[n].status = "PENDING"
        BY <1>1, <2>1, <2>3, <3>1 DEF Absent
      <3> QED
        BY <2>1, <3>1, <3>2 DEF Agrees, LastAttempt
    <2> QED
      BY <2>2, <2>3
  <1>5. ASSUME NEW m \in Notifications, Update(m)
        PROVE  Agrees(n)'
    <2>1. /\ notification' = [notification EXCEPT ![m].edition = @ + 1]
          /\ UNCHANGED delivery
      BY <1>5 DEF Update, EditNotification
    <2>2. /\ notification'[n].status = notification[n].status
          /\ notification'[n].error = notification[n].error
          /\ notification'[n].state = notification[n].state
      BY <1>1, <2>1 DEF NotificationRow
    <2> QED
      BY <1>2, <2>1, <2>2 DEF Live
  <1>6. ASSUME NEW m \in Notifications, Remove(m)
        PROVE  Agrees(n)'
    <2>1. /\ notification' = [notification EXCEPT ![m] = [Absent EXCEPT !.state = "deleted"]]
          /\ delivery' = [delivery EXCEPT ![m] = <<>>]
      BY <1>6 DEF Remove, DeleteNotification
    <2>2. notification'[m].state = "deleted"
      BY <1>1, <2>1 DEF Absent
    <2>3. m # n
      BY <2>2 DEF Live
    <2> QED
      BY <1>1, <1>2, <2>1, <2>3 DEF StoreTypeOK, Live
  <1>7. ASSUME NEW w \in Workers, WorkerStep(w), ~Settle(w)
        PROVE  Agrees(n)'
    <2>1. worker[w].pc # "idle" /\ Target(w) \in Notifications
      BY <1>7, StepOfOne, TargetExists
    <2>2. Live(n)
      BY <1>7, StepOfOne DEF Live
    <2>3. CASE n # Target(w)
      BY <1>2, <1>7, <2>2, <2>3, StepOfOne
    <2>4. CASE n = Target(w)
      <3>1. UpToDate(worker[w], LastAttempt(n)) /\ Agrees(n)
        BY <2>1, <2>2, <2>4 DEF SenderIsCurrent, StatusAgrees
      <3> QED
        BY <1>7, <2>2, <2>4, <3>1, WorkerAgrees
    <2> QED
      BY <2>3, <2>4
  <1>8. ASSUME NEW m \in Notifications, ClientStep(m)
        PROVE  Agrees(n)'
    BY <1>3, <1>4, <1>5, <1>8 DEF ClientStep, Send, storeVars, Enqueue, EnqueueFails
  <1>9. ASSUME NEW j \in Jobs, QueueStep(j)
        PROVE  Agrees(n)'
    BY <1>3, <1>9 DEF QueueStep, Promote, Stall, LoseLock, Take
  <1>10. ASSUME NEW w \in Workers, Crash(w) \/ Settle(w)
        PROVE  Agrees(n)'
    BY <1>3, <1>10 DEF Crash, Settle
  <1> QED
    BY <1>3, <1>6, <1>7, <1>8, <1>9, <1>10 DEF Next, vars

(***************************************************************************)
(* The theorems.                                                           *)
(***************************************************************************)

\* A fault that has not happened after a step had not happened before it.
LEMMA LocksOnlyGetLost ==
    ASSUME Shape, [Next]_vars, NoFault({"lock"})'
    PROVE  NoFault({"lock"})
  <1>1. faults \in [FaultKinds -> Nat]
    BY DEF Shape, TypeOK
  <1>2. CASE faults' = faults
    BY <1>2 DEF NoFault
  <1>3. ASSUME NEW f \in FaultKinds, Fault(f)
        PROVE  NoFault({"lock"})
    BY <1>1, <1>3 DEF Fault, NoFault, FaultKinds
  <1>4. faults' = faults \/ \E f \in FaultKinds : Fault(f)
    BY DEF Next, vars, ClientStep, Create, Send, Post, Update, Enqueue, EnqueueFails, Remove,
           QueueStep, Promote, Stall, LoseLock, Take, WorkerStep, Load, ReadLast, InsertAttempt,
           ProviderAccepts, ProviderRefuses, ReplyLost, CallProvider, RecordSuccess,
           RecordFailure, DatabaseFails, Settle, Crash, FaultKinds
  <1> QED
    BY <1>2, <1>3, <1>4

\* The inductive invariant of the sending side holds in every reachable state,
\* whatever fails.
THEOREM Invariance == Spec => []IndInv
  <1>1. Init => IndInv
    <2> SUFFICES ASSUME Init PROVE IndInv
      OBVIOUS
    <2>1. Sequential /\ StatusAgrees
      BY DEF Init, StoreInit, Sequential, OneJob, BusyHolds, SenderIsCurrent, StatusAgrees,
             Pending, Live, Unused, Idle, Absent
    <2> QED
      BY <2>1, ShapeInit DEF IndInv
  <1>2. IndInv /\ [Next]_vars => IndInv'
    <2> SUFFICES ASSUME IndInv, [Next]_vars PROVE IndInv'
      OBVIOUS
    <2>1. Shape'
      BY ShapeStep DEF IndInv
    <2>2. OneJob'
      BY OneJobStep DEF IndInv, Sequential
    <2>3. NoFault({"lock"})' => BusyHolds' /\ SenderIsCurrent' /\ StatusAgrees'
      BY LocksOnlyGetLost, BusyHoldsStep, SenderIsCurrentStep, StatusAgreesStep
         DEF IndInv, Sequential
    <2>4. ~NoFault({"lock"})' => StatusAgrees'
      BY DEF StatusAgrees
    <2> QED
      BY <2>1, <2>2, <2>3, <2>4 DEF IndInv, Sequential
  <1> QED
    BY <1>1, <1>2, PTL DEF Spec

\* The rows, jobs and locals of notification-delivery.service.ts always have
\* their types.
THEOREM TypeCorrectness == Spec => []TypeOK
  <1>1. IndInv => TypeOK
    BY DEF IndInv, Shape
  <1> QED
    BY <1>1, Invariance, PTL

\* The status a client reads is the latest attempt's, until a lock is lost.
THEOREM StatusAgreement == Spec => []StatusAgrees
  <1>1. IndInv => StatusAgrees
    BY DEF IndInv
  <1> QED
    BY <1>1, Invariance, PTL

\* Deduplication by notification id (notification-queue.producer.ts) keeps
\* senders apart, until a lock is lost.
THEOREM SendersApart == Spec => []OneSender
  <1>1. IndInv => OneSender
    BY AloneOnTarget DEF IndInv, Sequential, OneSender
  <1> QED
    BY <1>1, Invariance, PTL

\* The P2002 branch of createDeliveryAttempt is dead code until a lock is lost.
THEOREM CollisionsNeedLostLock == Spec => []CollisionNeedsLostLock
  <1>1. IndInv => CollisionNeedsLostLock
    BY DEF IndInv, Shape, TypeOK, WorkerRecord, Sequential, SenderIsCurrent, CollisionNeedsLostLock
  <1> QED
    BY <1>1, Invariance, PTL
=============================================================================
