------------------------- MODULE MCNotificationSystem -------------------------
(***************************************************************************)
(* Instances of NotificationSystem for TLC.                                *)
(***************************************************************************)
EXTENDS NotificationSystem, TLC

\* One worker process dies, and one slow worker loses its lock.
CrashAndLostLock ==
    [f \in FaultKinds |-> IF f \in {"crash", "lock"} THEN 1 ELSE 0]

JustDelivered == {"email.delivered"}
=============================================================================
