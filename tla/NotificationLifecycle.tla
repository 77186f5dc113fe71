------------------------ MODULE NotificationLifecycle ------------------------
(***************************************************************************)
(* What the sending side promises to whoever reads a notification: it is   *)
(* attempted again and again, one attempt at a time; while an attempt is   *)
(* open it reads PROCESSING, and the attempt closes at most once, as SENT  *)
(* or as FAILED.  Queue, workers, retries and faults do not appear.        *)
(***************************************************************************)
EXTENDS Naturals

CONSTANT Notifications

VARIABLE view       \* what a reader sees of each notification

NoView == [state |-> "absent", status |-> "PENDING", attempts |-> 0]

ViewTypeOK ==
    view \in [Notifications ->
        [state : {"absent", "live", "deleted"},
         status : {"PENDING", "PROCESSING", "SENT", "FAILED"}, attempts : Nat]]

LifecycleInit == view = [n \in Notifications |-> NoView]

Appear(n) ==
    /\ view[n].state = "absent"
    /\ view' = [view EXCEPT ![n].state = "live"]

\* The next attempt opens, whether or not the previous one was closed: a
\* crashed worker leaves its attempt open.
OpenAttempt(n) ==
    /\ view[n].state = "live"
    /\ view' = [view EXCEPT ![n] = [state |-> "live", status |-> "PROCESSING",
                                   attempts |-> view[n].attempts + 1]]

CloseAttempt(n) ==
    /\ view[n].state = "live"
    /\ view[n].status = "PROCESSING"
    /\ \E status \in {"SENT", "FAILED"} : view' = [view EXCEPT ![n].status = status]

Disappear(n) ==
    /\ view[n].state = "live"
    /\ view' = [view EXCEPT ![n] = [NoView EXCEPT !.state = "deleted"]]

LifecycleNext ==
    \E n \in Notifications :
        Appear(n) \/ OpenAttempt(n) \/ CloseAttempt(n) \/ Disappear(n)

LifecycleSpec == LifecycleInit /\ [][LifecycleNext]_view
=============================================================================
